---------------------------- MODULE Consensus_proofs ----------------------------
(***************************************************************************)
(* Module Consensus, for every number of validators, quorum, Byzantine     *)
(* subset, set of blocks and bounds, as long as no process restarts: the   *)
(* engine implements Finality, no lock is forgotten within a height, and   *)
(* the equivocation detector accuses nobody who follows the protocol.      *)
(*                                                                         *)
(* A handler leaves behind a record whose out holds what it has signed so  *)
(* far.  The invariant, Sane, is therefore about a record, the messages    *)
(* that were there before the event and the votes cast before it, and      *)
(* each handler keeps it; between events out is empty.                     *)
(*                                                                         *)
(* The last theorem is about the timer, under every fault, restarts        *)
(* included: an engine that has work and no timer has built its candidate. *)
(***************************************************************************)
EXTENDS Consensus, Induction_proofs, FiniteSetTheorems, TLAPS

Fields == {"height", "round", "ph", "proposal", "locked", "lockedRound", "seen",
           "faulty", "prepares", "commits", "timerArmed", "peerActivity", "queue",
           "candidate", "synced", "chain", "future", "replay", "out"}

Shaped(n) == n = [f \in Fields |-> n[f]]

NodeType(n) ==
    /\ n.height \in Nat \ {0} /\ n.round \in 0 .. MaxRound
    /\ n.ph \in {"idle", "prePrepared", "prepared"}
    /\ n.proposal \in BlockOrNil /\ n.locked \in Blocks \cup {NoBlock} /\ n.lockedRound \in Nat
    /\ n.seen \subseteq Messages /\ n.faulty \subseteq Validators \ Honest
    /\ n.prepares \subseteq BlockOrNil \X Validators
    /\ n.commits \subseteq BlockOrNil \X Validators
    /\ n.queue \in 0 .. MaxQueue
    /\ n.chain \in Seq(Blocks) /\ n.height <= Len(n.chain) + 1
    /\ n.future \in Seq(Messages) /\ n.replay \in Seq(Messages) /\ n.out \in Seq(Messages)

-----------------------------------------------------------------------------
(* The messages.                                                           *)

\* What the protocol signs, and of other things what a Byzantine validator
\* does; nobody signs for another.
WellSigned(m) ==
    /\ m \in Messages /\ m.signer \in Honest \cup Byz /\ m.round <= MaxRound
    /\ m.type = "COMMIT" => m.round = 0 /\ m.lockedRound = 0
    /\ m.type # "ROUND_CHANGE" => m.block # NoBlock
    /\ m.block = StaleBlock => m.signer \in Honest /\ m.type \in {"PROPOSAL", "PREPARE"}

IsVote(m) == m.type = "COMMIT" /\ m.signer \in Honest

VoteFor(v, h, b) == Message("COMMIT", h, 0, b, 0, v)

\* An honest validator proposes and prepares one block in a round, and votes
\* for one at a height.
SignedOnce(S, V) ==
    /\ \A p, q \in S :
          /\ p.signer \in Honest /\ p.signer = q.signer
          /\ p.type \in {"PROPOSAL", "PREPARE"} /\ p.type = q.type
          /\ p.height = q.height /\ p.round = q.round
          => p.block = q.block
    /\ \A p, q \in V : p.signer = q.signer /\ p.height = q.height => p.block = q.block

\* Who has prepared a block built on an older head.  There is one only at a
\* height that a quorum has voted on already, without any of them.
IsStale(m) == m.type = "PREPARE" /\ m.block = StaleBlock

Stalers(S, h) ==
    {w \in Validators : \E m \in S : IsStale(m) /\ m.height = h /\ m.signer = w}

Outvoted(S, V) ==
    \A s \in S : IsStale(s) =>
        \E Q \in Quorums :
            /\ Q \cap Stalers(S, s.height) = {}
            /\ \A w \in Q \cap Honest : \E m \in V : m.signer = w /\ m.height = s.height

\* A quorum of those that run has voted for the block.
Decided(V, h, b) ==
    \E Q \in Quorums :
        /\ Q \subseteq Honest \cup Byz
        /\ \A w \in Q \cap Honest : VoteFor(w, h, b) \in V

\* S is what is known of to anyone, V the votes cast by honest validators.
Common(S, V) ==
    /\ \A m \in S : WellSigned(m) /\ (IsVote(m) => m \in V)
    /\ \A m \in V : WellSigned(m) /\ IsVote(m) /\ m.height \in 1 .. MaxHeight
    /\ SignedOnce(S, V)
    /\ Outvoted(S, V)

-----------------------------------------------------------------------------
(* One validator.                                                          *)

Heard(n) == n.seen \cup Elements(n.future) \cup Elements(n.replay)

\* The tallies are of messages of this height.
Backed(n) ==
    /\ \A m \in n.seen : m.height = n.height
    /\ \A b \in BlockOrNil, w \in Validators :
          /\ <<b, w>> \in n.prepares =>
                \E m \in n.seen : m.type = "PREPARE" /\ m.block = b /\ m.signer = w
          /\ <<b, w>> \in n.commits =>
                \E m \in n.seen : m.type = "COMMIT" /\ m.block = b /\ m.signer = w

\* What is prepared is a block, and the locked one if there is one.
InPhase(n) ==
    n.ph = "prePrepared" =>
        n.proposal # NoBlock /\ (n.locked # NoBlock => n.proposal = n.locked)

\* A validator has proposed and prepared nothing beyond its round, and in it
\* only if it is no longer idle.
NotYetSaid(v, n, S) ==
    \A m \in S : m.signer = v /\ m.type \in {"PROPOSAL", "PREPARE"} =>
        /\ m.height <= n.height
        /\ m.height = n.height => m.round <= n.round
        /\ m.height = n.height /\ m.round = n.round => n.ph # "idle"

\* Its vote at its height is its lock, and it has cast none beyond.
Bound(v, n, V) ==
    \A m \in V : m.signer = v =>
        m.height <= n.height /\ (m.height = n.height => n.locked = m.block)

ChainDecided(n, V) == \A h \in 1 .. Len(n.chain) : Decided(V, h, n.chain[h])

Mine(v, n, S, V) ==
    /\ Shaped(n) /\ NodeType(n)
    /\ Heard(n) \subseteq S /\ Backed(n) /\ InPhase(n)
    /\ NotYetSaid(v, n, S) /\ Bound(v, n, V) /\ ChainDecided(n, V)

Said(n, K) == K \cup Elements(n.out)
VotesOf(n) == {m \in Elements(n.out) : m.type = "COMMIT"}
Voted(n, C) == C \cup VotesOf(n)

Sane(v, n, K, C) ==
    /\ Common(Said(n, K), Voted(n, C)) /\ Mine(v, n, Said(n, K), Voted(n, C))
    /\ \A m \in Elements(n.out) : m.signer = v

-----------------------------------------------------------------------------
(* All of them.                                                            *)

InFlight == UNION {Elements(link[p]) : p \in Honest \X Honest}

Pool == (UNION {Heard(node[v]) : v \in Honest}) \cup InFlight

Inv ==
    /\ node = [v \in Honest |-> node[v]]
    /\ link \in [Honest \X Honest -> Seq(Messages)]
    /\ restarts \in Nat
    /\ Common(Pool, cast)
    /\ \A v \in Honest : Sane(v, node[v], Pool, cast) /\ node[v].out = <<>>

-----------------------------------------------------------------------------
(* Quorums.                                                                *)

LEMMA ValidatorsFinite == IsFiniteSet(Validators) /\ Cardinality(Validators) = N
BY FS_Interval, ConsensusAssumption DEF Validators

LEMMA QuorumSize == Quorum \in Nat /\ 2 * Quorum > N /\ Quorum <= N /\ 3 * Quorum >= 2 * N
<1>1. DeriveQuorum(N) \in Nat /\ 3 * DeriveQuorum(N) >= 2 * N
  BY ConsensusAssumption DEF DeriveQuorum, MinValidators
<1> QED BY <1>1, ConsensusAssumption DEF MinValidators

\* Two quorums have more members in common than twice the quorum exceeds N.
LEMMA QuorumsShare ==
    ASSUME NEW P \in Quorums, NEW Q \in Quorums
    PROVE  IsFiniteSet(P \cap Q) /\ Cardinality(P \cap Q) >= 2 * Quorum - N
<1>1. IsFiniteSet(P) /\ IsFiniteSet(Q) /\ P \cup Q \subseteq Validators
  BY ValidatorsFinite, FS_Subset DEF Quorums
<1>2. IsFiniteSet(P \cup Q) /\ Cardinality(P \cup Q) <= N
  BY <1>1, ValidatorsFinite, FS_Subset
<1>3. Cardinality(P \cup Q) = Cardinality(P) + Cardinality(Q) - Cardinality(P \cap Q)
  BY <1>1, FS_Union
<1>4. IsFiniteSet(P \cap Q)
  BY <1>1, FS_Subset
<1>5. /\ Cardinality(P) >= Quorum /\ Cardinality(Q) >= Quorum
      /\ Cardinality(P) \in Nat /\ Cardinality(Q) \in Nat /\ Cardinality(P \cap Q) \in Nat
      /\ Cardinality(P \cup Q) \in Nat
  BY <1>1, <1>2, <1>4, FS_CardinalityType DEF Quorums
<1> QED BY <1>2, <1>3, <1>4, <1>5, QuorumSize, ConsensusAssumption

LEMMA QuorumsMeet ==
    ASSUME NEW P \in Quorums, NEW Q \in Quorums
    PROVE  P \cap Q # {}
<1>1. Cardinality(P \cap Q) >= 2 * Quorum - N
  BY QuorumsShare
<1>2. 2 * Quorum - N > 0
  BY QuorumSize, ConsensusAssumption
<1>3. IsFiniteSet(P \cap Q)
  BY QuorumsShare
<1>4. Cardinality(P \cap Q) = 0 <=> P \cap Q = {}
  BY <1>3, FS_EmptySet
<1>5. N \in Nat /\ Quorum \in Nat
  BY QuorumSize, ConsensusAssumption
<1> QED BY <1>1, <1>2, <1>4, <1>5

LEMMA QuorumNotEmpty == ASSUME NEW Q \in Quorums PROVE Q # {}
BY QuorumsMeet

-----------------------------------------------------------------------------
(* What the tallies show.                                                  *)

LEMMA DecidedMonotone ==
    ASSUME NEW V, NEW W, V \subseteq W, NEW h, NEW b, Decided(V, h, b)
    PROVE  Decided(W, h, b)
BY DEF Decided

\* No block on an older head is prepared by a quorum.
LEMMA PreparedBlock ==
    ASSUME NEW v, NEW n, NEW K, NEW C, Sane(v, n, K, C),
           NEW b \in BlockOrNil, PrepareCount(n, b) >= Quorum, b # NoBlock
    PROVE  b \in Blocks
<1> SUFFICES ASSUME b = StaleBlock PROVE FALSE
  BY DEF BlockOrNil
<1> DEFINE P == Voters(n.prepares, b)
           S == Said(n, K)
<1>1. P \in Quorums
  BY DEF Quorums, Voters, PrepareCount
<1>2. PICK w : w \in P
  BY <1>1, QuorumNotEmpty
<1>3. ASSUME NEW u \in P
      PROVE  \E m \in S : IsStale(m) /\ m.height = n.height /\ m.signer = u
  <2>1. <<b, u>> \in n.prepares /\ u \in Validators
    BY DEF Voters
  <2>2. PICK m \in n.seen : m.type = "PREPARE" /\ m.block = b /\ m.signer = u
    BY <2>1 DEF Sane, Mine, Backed
  <2> QED BY <2>2 DEF Sane, Mine, Backed, Heard, IsStale
<1>4. PICK m \in S : IsStale(m) /\ m.height = n.height
  BY <1>2, <1>3
<1>5. P \subseteq Stalers(S, n.height)
  BY <1>3 DEF Stalers, Voters
<1>6. PICK Q \in Quorums : Q \cap Stalers(S, n.height) = {}
  BY <1>4 DEF Sane, Common, Outvoted
<1> QED BY <1>1, <1>5, <1>6, QuorumsMeet

\* A quorum of COMMITs is of votes, and for a block.
LEMMA CommittedBlock ==
    ASSUME NEW v, NEW n, NEW K, NEW C, Sane(v, n, K, C),
           NEW b \in BlockOrNil, CommitCount(n, b) >= Quorum
    PROVE  b \in Blocks /\ Decided(Voted(n, C), n.height, b)
<1> DEFINE Q == Voters(n.commits, b)
           S == Said(n, K)
<1>1. Q \in Quorums
  BY DEF Quorums, Voters, CommitCount
<1>2. ASSUME NEW u \in Q
      PROVE  \E m \in S : m.type = "COMMIT" /\ m.block = b /\ m.height = n.height /\ m.signer = u
  <2>1. <<b, u>> \in n.commits /\ u \in Validators
    BY DEF Voters
  <2>2. PICK m \in n.seen : m.type = "COMMIT" /\ m.block = b /\ m.signer = u
    BY <2>1 DEF Sane, Mine, Backed
  <2> QED BY <2>2 DEF Sane, Mine, Backed, Heard
<1>3. b \in Blocks
  <2>1. PICK u : u \in Q
    BY <1>1, QuorumNotEmpty
  <2>2. PICK m \in S : m.type = "COMMIT" /\ m.block = b
    BY <1>2, <2>1
  <2> QED BY <2>2 DEF Sane, Common, WellSigned, BlockOrNil
<1>4. Q \subseteq Honest \cup Byz
  BY <1>2 DEF Sane, Common, WellSigned
<1>5. ASSUME NEW u \in Q \cap Honest PROVE VoteFor(u, n.height, b) \in Voted(n, C)
  <2>1. PICK m \in S : m.type = "COMMIT" /\ m.block = b /\ m.height = n.height /\ m.signer = u
    BY <1>2
  <2>2. m \in Voted(n, C) /\ m \in Messages /\ m.round = 0 /\ m.lockedRound = 0
    BY <2>1 DEF Sane, Common, WellSigned, IsVote
  <2>3. m = VoteFor(u, n.height, b)
    BY <2>1, <2>2 DEF Messages, VoteFor, Message
  <2> QED BY <2>2, <2>3
<1> QED BY <1>1, <1>3, <1>4, <1>5 DEF Decided

-----------------------------------------------------------------------------
(* Handlers that sign nothing.                                             *)

\* The two records are the same as far as the invariant goes.
Alike(n, x) ==
    /\ Shaped(x)
    /\ x.height = n.height /\ x.round = n.round /\ x.ph = n.ph /\ x.proposal = n.proposal
    /\ x.locked = n.locked /\ x.lockedRound = n.lockedRound /\ x.seen = n.seen
    /\ x.faulty = n.faulty /\ x.prepares = n.prepares /\ x.commits = n.commits
    /\ x.chain = n.chain /\ x.future = n.future /\ x.replay = n.replay /\ x.out = n.out

LEMMA AlikeSane ==
    ASSUME NEW v, NEW n, NEW K, NEW C, Sane(v, n, K, C), NEW x, Alike(n, x),
           x.queue \in 0 .. MaxQueue
    PROVE  Sane(v, x, K, C)
<1>1. Said(x, K) = Said(n, K) /\ Voted(x, C) = Voted(n, C) /\ Elements(x.out) = Elements(n.out)
  BY DEF Alike, Said, Voted, VotesOf
<1>2. NodeType(x)
  BY DEF Alike, Sane, Mine, NodeType
<1>3. /\ Heard(x) = Heard(n) /\ Backed(x) /\ InPhase(x)
      /\ NotYetSaid(v, x, Said(n, K)) /\ Bound(v, x, Voted(n, C)) /\ ChainDecided(x, Voted(n, C))
  BY DEF Alike, Sane, Mine, Heard, Backed, InPhase, NotYetSaid, Bound, ChainDecided
<1> QED BY <1>1, <1>2, <1>3 DEF Sane, Mine, Alike

\* What an event leaves of its validator: height and lock are kept or the
\* height goes up.
Keeps(n, x) ==
    /\ x.height >= n.height
    /\ x.height = n.height /\ n.locked # NoBlock => x.locked = n.locked

\* Nothing is decided and no vote is cast.
Calm(n, x) == Keeps(n, x) /\ x.chain = n.chain /\ VotesOf(x) = VotesOf(n)

LEMMA AlikeCalm ==
    ASSUME NEW n, NodeType(n), NEW x, Alike(n, x)
    PROVE  Calm(n, x)
BY DEF Alike, Calm, Keeps, VotesOf, NodeType

LEMMA CalmCalm ==
    ASSUME NEW n, NodeType(n), NEW y, NodeType(y), NEW x, NodeType(x), Calm(n, y), Calm(y, x)
    PROVE  Calm(n, x)
<1>1. n.height \in Nat /\ y.height \in Nat /\ x.height \in Nat
  BY DEF NodeType
<1>2. x.height >= n.height /\ (x.height = n.height => y.height = n.height /\ x.height = y.height)
  BY <1>1 DEF Calm, Keeps
<1> QED BY <1>2 DEF Calm, Keeps

LEMMA ArmTimerSane ==
    ASSUME NEW v, NEW n, NEW K, NEW C, Sane(v, n, K, C)
    PROVE  /\ Sane(v, ArmTimer(n), K, C) /\ Alike(n, ArmTimer(n))
           /\ Sane(v, ArmTimerIfWorkPending(n), K, C) /\ Alike(n, ArmTimerIfWorkPending(n))
<1>1. Shaped(n) /\ n.queue \in 0 .. MaxQueue
  BY DEF Sane, Mine, NodeType
<1>2. Alike(n, ArmTimer(n)) /\ ArmTimer(n).queue = n.queue
  BY <1>1 DEF Shaped, Fields, Alike, ArmTimer
<1>3. Alike(n, ArmTimerIfWorkPending(n)) /\ ArmTimerIfWorkPending(n).queue = n.queue
  BY <1>1 DEF Shaped, Fields, Alike, ArmTimerIfWorkPending
<1> QED BY <1>1, <1>2, <1>3, AlikeSane

\* A request that is answered leaves the queue.
LEMMA ResolveWaitersSane ==
    ASSUME NEW v, NEW n, NEW K, NEW C, Sane(v, n, K, C), NEW h
    PROVE  Sane(v, ResolveWaiters(n, h), K, C) /\ Alike(n, ResolveWaiters(n, h))
<1>1. Shaped(n) /\ n.queue \in 0 .. MaxQueue
  BY DEF Sane, Mine, NodeType
<1>2. /\ Alike(n, ResolveWaiters(n, h))
      /\ ResolveWaiters(n, h).queue = IF n.candidate = h /\ n.queue > 0 THEN n.queue - 1 ELSE n.queue
  BY <1>1 DEF Shaped, Fields, Alike, ResolveWaiters
<1>3. ResolveWaiters(n, h).queue \in 0 .. MaxQueue
  BY <1>1, <1>2, ConsensusAssumption
<1> QED BY <1>2, <1>3, AlikeSane

\* A new height starts from nothing but what was buffered for it.
Fresh(n, h) ==
    [NewRoundState(n, h) EXCEPT !.replay = Those(n.future, {m \in Elements(n.future) : m.height = h}),
                                !.future = Those(n.future, {m \in Elements(n.future) : m.height > h})]

LEMMA FreshSane ==
    ASSUME NEW v, NEW n, NEW K, NEW C, Sane(v, n, K, C),
           NEW h \in Nat, h > n.height, h <= Len(n.chain) + 1
    PROVE  Sane(v, Fresh(n, h), K, C) /\ Calm(n, Fresh(n, h))
<1> DEFINE x == Fresh(n, h)
<1> DEFINE S == Said(n, K)
           V == Voted(n, C)
<1>1. Shaped(n) /\ NodeType(n)
  BY DEF Sane, Mine
<1>2. /\ Shaped(x)
      /\ x.height = h /\ x.round = 0 /\ x.ph = "idle" /\ x.proposal = NoBlock
      /\ x.locked = NoBlock /\ x.lockedRound = 0 /\ x.seen = {} /\ x.faulty = {}
      /\ x.prepares = {} /\ x.commits = {}
  BY <1>1 DEF Shaped, Fields, NewRoundState, Fresh
<1>3. /\ x.queue = n.queue /\ x.chain = n.chain /\ x.out = n.out
      /\ x.replay = Those(n.future, {m \in Elements(n.future) : m.height = h})
      /\ x.future = Those(n.future, {m \in Elements(n.future) : m.height > h})
  BY <1>1 DEF Shaped, Fields, NewRoundState, Fresh
<1> HIDE DEF x
<1>4. /\ x.replay \in Seq(Messages) /\ x.future \in Seq(Messages)
      /\ Elements(x.replay) \subseteq Elements(n.future)
      /\ Elements(x.future) \subseteq Elements(n.future)
  <2>1. n.future \in Seq(Messages)
    BY <1>1 DEF NodeType
  <2> QED BY <1>3, <2>1, ThoseElements
<1>5. Said(x, K) = S /\ Voted(x, C) = V /\ VotesOf(x) = VotesOf(n) /\ Elements(x.out) = Elements(n.out)
  BY <1>3 DEF Said, Voted, VotesOf
<1>6. NodeType(x)
  <2>1. h \in Nat \ {0} /\ 0 \in 0 .. MaxRound /\ {} \subseteq Validators \ Honest
    BY <1>1, ConsensusAssumption DEF NodeType
  <2>2. NoBlock \in BlockOrNil /\ NoBlock \in Blocks \cup {NoBlock}
    BY DEF BlockOrNil
  <2>3. /\ n.queue \in 0 .. MaxQueue /\ n.chain \in Seq(Blocks) /\ n.out \in Seq(Messages)
    BY <1>1 DEF NodeType
  <2> QED BY <1>2, <1>3, <1>4, <2>1, <2>2, <2>3 DEF NodeType
<1>7. Heard(x) \subseteq S /\ Backed(x) /\ InPhase(x)
  BY <1>2, <1>4 DEF Sane, Mine, Heard, Backed, InPhase
<1>8. NotYetSaid(v, x, S)
  <2>1. \A m \in S : m.signer = v /\ m.type \in {"PROPOSAL", "PREPARE"} => m.height < h
    BY <1>1 DEF Sane, Mine, NotYetSaid, Common, WellSigned, Messages, NodeType
  <2> QED BY <1>2, <2>1 DEF NotYetSaid, Sane, Common, WellSigned, Messages
<1>9. Bound(v, x, V)
  <2>1. \A m \in V : m.signer = v => m.height < h /\ m.height \in Nat
    BY <1>1 DEF Sane, Mine, Bound, Common, WellSigned, Messages, NodeType
  <2> QED BY <1>2, <2>1 DEF Bound
<1>10. ChainDecided(x, V)
  BY <1>3 DEF Sane, Mine, ChainDecided
<1>11. Calm(n, x)
  BY <1>1, <1>2, <1>3, <1>5 DEF Calm, Keeps, NodeType
<1> QED BY <1>2, <1>5, <1>6, <1>7, <1>8, <1>9, <1>10, <1>11 DEF Sane, Mine, x

-----------------------------------------------------------------------------
(* A block is proposed and prepared.                                       *)

ProposalOf(v, n, b) == Message("PROPOSAL", n.height, n.round, b, 0, v)
PrepareOf(v, n, b) == Message("PREPARE", n.height, n.round, b, 0, v)

\* What an idle validator may prepare: its lock, any block if it has none,
\* and one on an older head once its height is decided.
MayPrepare(n, b) ==
    /\ n.ph = "idle" /\ b \in Blocks \cup {StaleBlock}
    /\ n.locked # NoBlock => b = n.locked
    /\ b = StaleBlock => n.locked = NoBlock /\ n.height <= Len(n.chain)

LEMMA MessageFields ==
    ASSUME NEW t \in MsgTypes, NEW h \in Nat, NEW r \in Nat, NEW b \in BlockOrNil, NEW lr \in Nat,
           NEW v \in Validators
    PROVE  /\ Message(t, h, r, b, lr, v) \in Messages
           /\ Message(t, h, r, b, lr, v).type = t /\ Message(t, h, r, b, lr, v).height = h
           /\ Message(t, h, r, b, lr, v).round = r /\ Message(t, h, r, b, lr, v).block = b
           /\ Message(t, h, r, b, lr, v).lockedRound = lr /\ Message(t, h, r, b, lr, v).signer = v
BY DEF Message, Messages

LEMMA PrepareFields ==
    ASSUME NEW v \in Honest, NEW n, NodeType(n), NEW b \in Blocks \cup {StaleBlock}
    PROVE  /\ ProposalOf(v, n, b) \in Messages /\ PrepareOf(v, n, b) \in Messages
           /\ ProposalOf(v, n, b).type = "PROPOSAL" /\ PrepareOf(v, n, b).type = "PREPARE"
           /\ \A m \in {ProposalOf(v, n, b), PrepareOf(v, n, b)} :
                 /\ m.height = n.height /\ m.round = n.round /\ m.block = b /\ m.signer = v
                 /\ WellSigned(m) /\ ~IsVote(m)
<1>1. n.height \in Nat /\ n.round \in Nat /\ n.round <= MaxRound /\ b \in BlockOrNil /\ v \in Validators
  BY ConsensusAssumption DEF NodeType, BlockOrNil, Honest
<1>2. "PROPOSAL" \in MsgTypes /\ "PREPARE" \in MsgTypes /\ 0 \in Nat
  BY DEF MsgTypes
<1>3. /\ ProposalOf(v, n, b) \in Messages /\ PrepareOf(v, n, b) \in Messages
      /\ ProposalOf(v, n, b).type = "PROPOSAL" /\ PrepareOf(v, n, b).type = "PREPARE"
      /\ \A m \in {ProposalOf(v, n, b), PrepareOf(v, n, b)} :
            m.height = n.height /\ m.round = n.round /\ m.block = b /\ m.signer = v
  BY <1>1, <1>2, MessageFields DEF ProposalOf, PrepareOf
<1>4. b # NoBlock
  BY ConsensusAssumption
<1> QED BY <1>1, <1>3, <1>4 DEF WellSigned, IsVote

\* Among the messages there are, the new ones contradict none.
LEMMA PrepareCommon ==
    ASSUME NEW v \in Honest, NEW n, NEW S, NEW V, Common(S, V), Mine(v, n, S, V),
           NEW b, MayPrepare(n, b), NEW M \in SUBSET {ProposalOf(v, n, b), PrepareOf(v, n, b)}
    PROVE  Common(S \cup M, V)
<1>0. NodeType(n) /\ b \in Blocks \cup {StaleBlock} /\ n.height \in Nat
  BY DEF Mine, MayPrepare, NodeType
<1>1. /\ ProposalOf(v, n, b).type = "PROPOSAL" /\ PrepareOf(v, n, b).type = "PREPARE"
      /\ \A m \in M : /\ m.height = n.height /\ m.round = n.round /\ m.block = b /\ m.signer = v
                      /\ WellSigned(m) /\ ~IsVote(m)
  BY <1>0, PrepareFields
<1>2. \A m \in S \cup M : WellSigned(m) /\ (IsVote(m) => m \in V)
  BY <1>1 DEF Common
<1>3. SignedOnce(S \cup M, V)
  <2>1. ASSUME NEW p \in S, NEW q \in M, p.signer = q.signer, p.type = q.type,
               p.type \in {"PROPOSAL", "PREPARE"}, p.height = q.height, p.round = q.round
        PROVE  FALSE
    BY <1>1, <2>1 DEF Mine, NotYetSaid, MayPrepare
  <2>2. \A p, q \in S \cup M :
          /\ p.signer \in Honest /\ p.signer = q.signer
          /\ p.type \in {"PROPOSAL", "PREPARE"} /\ p.type = q.type
          /\ p.height = q.height /\ p.round = q.round
          => p.block = q.block
    BY <1>1, <2>1 DEF Common, SignedOnce
  <2> QED BY <2>2 DEF Common, SignedOnce
<1>4. Outvoted(S \cup M, V)
  <2> SUFFICES ASSUME NEW s \in S \cup M, IsStale(s)
               PROVE  \E Q \in Quorums :
                        /\ Q \cap Stalers(S \cup M, s.height) = {}
                        /\ \A w \in Q \cap Honest : \E m \in V : m.signer = w /\ m.height = s.height
    BY DEF Outvoted
  <2> DEFINE h == s.height
  <2>1. CASE b # StaleBlock \/ h # n.height
    <3>1. s \in S /\ Stalers(S \cup M, h) = Stalers(S, h)
      BY <1>1, <2>1 DEF IsStale, Stalers
    <3> QED BY <3>1 DEF Common, Outvoted
  <2>2. CASE b = StaleBlock /\ h = n.height
    <3>1. Stalers(S \cup M, h) \subseteq Stalers(S, h) \cup {v}
      BY <1>1 DEF Stalers
    <3>2. ASSUME NEW m \in V, m.signer = v, m.height = h PROVE FALSE
      <4>1. n.locked = m.block /\ m.block # NoBlock
        BY <2>2, <3>2 DEF Mine, Bound, Common, WellSigned, IsVote
      <4> QED BY <2>2, <4>1 DEF MayPrepare
    <3>3. \E Q \in Quorums :
             /\ Q \cap Stalers(S, h) = {}
             /\ \A w \in Q \cap Honest : \E m \in V : m.signer = w /\ m.height = h
      <4>1. CASE \E t \in S : IsStale(t) /\ t.height = h
        BY <4>1 DEF Common, Outvoted
      <4>2. CASE ~ \E t \in S : IsStale(t) /\ t.height = h
        <5>1. Stalers(S, h) = {}
          BY <4>2 DEF Stalers
        <5>2. h \in 1 .. Len(n.chain)
          BY <1>0, <2>2 DEF MayPrepare, NodeType
        <5>3. PICK Q \in Quorums : \A w \in Q \cap Honest : VoteFor(w, h, n.chain[h]) \in V
          BY <5>2 DEF Mine, ChainDecided, Decided
        <5>4. \A w : VoteFor(w, h, n.chain[h]).signer = w /\ VoteFor(w, h, n.chain[h]).height = h
          BY DEF VoteFor, Message
        <5> QED BY <5>1, <5>3, <5>4
      <4> QED BY <4>1, <4>2
    <3>4. PICK Q \in Quorums :
             /\ Q \cap Stalers(S, h) = {}
             /\ \A w \in Q \cap Honest : \E m \in V : m.signer = w /\ m.height = h
      BY <3>3
    <3>5. v \notin Q
      BY <3>2, <3>4
    <3> QED BY <3>1, <3>4, <3>5
  <2> QED BY <2>1, <2>2
<1> QED BY <1>2, <1>3, <1>4 DEF Common

\* The record of a validator that has prepared b, having sent M.
Prepared(v, n, b, M, x) ==
    /\ Shaped(x) /\ x.ph = "prePrepared" /\ x.proposal = b
    /\ x.height = n.height /\ x.round = n.round
    /\ x.locked = n.locked /\ x.lockedRound = n.lockedRound
    /\ x.seen = n.seen \cup {PrepareOf(v, n, b)} /\ x.faulty = n.faulty
    /\ x.prepares = n.prepares \cup {<<b, v>>} /\ x.commits = n.commits
    /\ x.queue \in 0 .. MaxQueue
    /\ x.chain = n.chain /\ x.future = n.future /\ x.replay = n.replay
    /\ x.out \in Seq(Messages) /\ Elements(x.out) = Elements(n.out) \cup M

LEMMA PreparedSane ==
    ASSUME NEW v \in Honest, NEW n, NEW K, NEW C, Sane(v, n, K, C), NEW b, MayPrepare(n, b),
           NEW M \in SUBSET {ProposalOf(v, n, b), PrepareOf(v, n, b)}, PrepareOf(v, n, b) \in M,
           NEW x, Prepared(v, n, b, M, x)
    PROVE  Sane(v, x, K, C) /\ Calm(n, x)
<1> DEFINE S == Said(n, K)
           V == Voted(n, C)
           q == PrepareOf(v, n, b)
<1>0. /\ NodeType(n) /\ b \in Blocks \cup {StaleBlock} /\ n.height \in Nat /\ v \in Validators
      /\ Common(S, V) /\ Mine(v, n, S, V) /\ n.ph = "idle"
  BY DEF Sane, Mine, MayPrepare, NodeType, Honest
<1>1. /\ ProposalOf(v, n, b).type = "PROPOSAL" /\ q.type = "PREPARE" /\ q \in Messages
      /\ \A m \in M : /\ m.height = n.height /\ m.round = n.round /\ m.block = b /\ m.signer = v
                      /\ m.type \in {"PROPOSAL", "PREPARE"}
  BY <1>0, PrepareFields
<1>2. Said(x, K) = S \cup M
  BY DEF Prepared, Said
<1>3. VotesOf(x) = VotesOf(n) /\ Voted(x, C) = V
  BY <1>1 DEF Prepared, VotesOf, Voted
<1> HIDE DEF S, V
<1>4. Common(S \cup M, V)
  BY <1>0, PrepareCommon
<1>5. NodeType(x)
  <2>1. b \in BlockOrNil /\ n.seen \cup {q} \subseteq Messages
    BY <1>0, <1>1 DEF BlockOrNil, NodeType
  <2>2. n.prepares \cup {<<b, v>>} \subseteq BlockOrNil \X Validators
    BY <1>0, <2>1 DEF NodeType
  <2> QED BY <1>0, <2>1, <2>2 DEF Prepared, NodeType
<1>6. Heard(x) \subseteq S \cup M
  BY <1>0 DEF Prepared, Heard, Mine
<1>7. Backed(x)
  <2>1. \A m \in x.seen : m.height = x.height
    BY <1>0, <1>1 DEF Prepared, Mine, Backed
  <2>2. ASSUME NEW c \in BlockOrNil, NEW w \in Validators, <<c, w>> \in x.prepares
        PROVE  \E m \in x.seen : m.type = "PREPARE" /\ m.block = c /\ m.signer = w
    <3>1. CASE <<c, w>> \in n.prepares
      BY <1>0, <3>1 DEF Prepared, Mine, Backed
    <3>2. CASE <<c, w>> = <<b, v>>
      <4>1. q \in x.seen /\ q.type = "PREPARE" /\ q.block = c /\ q.signer = w
        BY <1>1, <3>2 DEF Prepared
      <4> QED BY <4>1
    <3> QED BY <2>2, <3>1, <3>2 DEF Prepared
  <2>3. ASSUME NEW c \in BlockOrNil, NEW w \in Validators, <<c, w>> \in x.commits
        PROVE  \E m \in x.seen : m.type = "COMMIT" /\ m.block = c /\ m.signer = w
    BY <1>0, <2>3 DEF Prepared, Mine, Backed
  <2> QED BY <2>1, <2>2, <2>3 DEF Backed
<1>8. InPhase(x)
  BY ConsensusAssumption DEF Prepared, InPhase, MayPrepare
<1>9. NotYetSaid(v, x, S \cup M)
  <2>1. x.ph # "idle" /\ x.height = n.height /\ x.round = n.round /\ n.round \in Nat
    BY <1>0, ConsensusAssumption DEF Prepared, NodeType
  <2>2. NotYetSaid(v, n, S)
    BY <1>0 DEF Mine
  <2>3. \A m \in M : m.height <= n.height /\ m.round <= n.round
    BY <1>0, <1>1, <2>1
  <2> QED BY <2>1, <2>2, <2>3 DEF NotYetSaid
<1>10. Bound(v, x, V) /\ ChainDecided(x, V)
  BY <1>0 DEF Prepared, Mine, Bound, ChainDecided
<1>11. \A m \in Elements(x.out) : m.signer = v
  BY <1>1 DEF Prepared, Sane
<1>12. Calm(n, x)
  BY <1>0, <1>3 DEF Prepared, Calm, Keeps
<1>13. Shaped(x)
  BY DEF Prepared
<1> QED
  BY <1>2, <1>3, <1>4, <1>5, <1>6, <1>7, <1>8, <1>9, <1>10, <1>11, <1>12, <1>13 DEF Sane, Mine

\* castPrepare records its own PREPARE: there is no earlier one.
HasCast(v, n, b, x) ==
    /\ Shaped(x) /\ x.ph = "prePrepared" /\ x.proposal = n.proposal
    /\ x.height = n.height /\ x.round = n.round
    /\ x.locked = n.locked /\ x.lockedRound = n.lockedRound
    /\ x.seen = n.seen \cup {PrepareOf(v, n, b)} /\ x.faulty = n.faulty
    /\ x.prepares = n.prepares \cup {<<b, v>>} /\ x.commits = n.commits
    /\ x.queue = n.queue
    /\ x.chain = n.chain /\ x.future = n.future /\ x.replay = n.replay
    /\ x.out = Append(n.out, PrepareOf(v, n, b))

LEMMA CastPrepareFields ==
    ASSUME NEW v, NEW n, Shaped(n), NEW b,
           \A p \in n.seen : ~SameVote(p, PrepareOf(v, n, b)),
           PrepareOf(v, n, b).type = "PREPARE", PrepareOf(v, n, b).block = b,
           PrepareOf(v, n, b).signer = v
    PROVE  HasCast(v, n, b, CastPrepare(v, n, b))
<1> DEFINE m == PrepareOf(v, n, b)
           y == [n EXCEPT !.ph = "prePrepared"]
           x == CastPrepare(v, n, b)
<1>1. /\ Shaped(y) /\ y.ph = "prePrepared" /\ y.proposal = n.proposal
      /\ y.height = n.height /\ y.round = n.round
      /\ y.locked = n.locked /\ y.lockedRound = n.lockedRound
      /\ y.seen = n.seen /\ y.faulty = n.faulty
      /\ y.prepares = n.prepares /\ y.commits = n.commits
      /\ y.queue = n.queue
      /\ y.chain = n.chain /\ y.future = n.future /\ y.replay = n.replay /\ y.out = n.out
  BY DEF Shaped, Fields
<1>2. x = Send(RecordOwn(y, m), m)
  BY DEF CastPrepare, PrepareOf
<1> HIDE DEF x, y, m
<1>3. Earlier(y, m) = {} /\ ~Equivocates(y, m)
  BY <1>1 DEF Earlier, Equivocates, m
<1>4. RecordOwn(y, m) = Tally(y, m)
  BY <1>3 DEF RecordOwn
<1>5. m.type = "PREPARE" /\ m.block = b /\ m.signer = v
  BY DEF m
<1> DEFINE z == Tally(y, m)
<1>6. x = Send(z, m)
  BY <1>2, <1>4
<1>7. /\ Shaped(z) /\ z.ph = y.ph /\ z.proposal = y.proposal
      /\ z.height = y.height /\ z.round = y.round
      /\ z.locked = y.locked /\ z.lockedRound = y.lockedRound
      /\ z.seen = y.seen \cup {m} /\ z.faulty = y.faulty
      /\ z.prepares = y.prepares \cup {<<b, v>>} /\ z.commits = y.commits
      /\ z.queue = y.queue
      /\ z.chain = y.chain /\ z.future = y.future /\ z.replay = y.replay /\ z.out = y.out
  BY <1>1, <1>5 DEF Shaped, Fields, Tally
<1> HIDE DEF z
<1>8. /\ Shaped(x) /\ x.ph = z.ph /\ x.proposal = z.proposal
      /\ x.height = z.height /\ x.round = z.round
      /\ x.locked = z.locked /\ x.lockedRound = z.lockedRound
      /\ x.seen = z.seen /\ x.faulty = z.faulty
      /\ x.prepares = z.prepares /\ x.commits = z.commits
      /\ x.queue = z.queue
      /\ x.chain = z.chain /\ x.future = z.future /\ x.replay = z.replay /\ x.out = Append(z.out, m)
  BY <1>6, <1>7 DEF Shaped, Fields, Send
<1> QED BY <1>1, <1>7, <1>8 DEF HasCast, m, x

\* An idle validator has recorded no PREPARE of its round.
LEMMA NothingPrepared ==
    ASSUME NEW v \in Honest, NEW n, NEW K, NEW C, Sane(v, n, K, C), NEW b, MayPrepare(n, b)
    PROVE  \A p \in n.seen : ~SameVote(p, PrepareOf(v, n, b))
<1>1. NodeType(n) /\ b \in Blocks \cup {StaleBlock} /\ n.ph = "idle"
  BY DEF Sane, Mine, MayPrepare
<1>2. /\ PrepareOf(v, n, b).type = "PREPARE" /\ PrepareOf(v, n, b).round = n.round
      /\ PrepareOf(v, n, b).signer = v
  BY <1>1, PrepareFields
<1>3. \A p \in n.seen : p \in Said(n, K) /\ p.height = n.height
  BY DEF Sane, Mine, Heard, Backed
<1> QED BY <1>1, <1>2, <1>3 DEF Sane, Mine, NotYetSaid, SameVote

LEMMA BroadcastProposalSane ==
    ASSUME NEW v \in Honest, NEW n, NEW K, NEW C, Sane(v, n, K, C), NEW b, MayPrepare(n, b)
    PROVE  /\ Sane(v, BroadcastProposal(v, n, b), K, C) /\ Calm(n, BroadcastProposal(v, n, b))
           /\ BroadcastProposal(v, n, b).height = n.height
<1> DEFINE p == ProposalOf(v, n, b)
           q == PrepareOf(v, n, b)
           y == Send([n EXCEPT !.proposal = b], p)
           z == CastPrepare(v, y, b)
<1>1. Shaped(n) /\ NodeType(n) /\ b \in Blocks \cup {StaleBlock}
  BY DEF Sane, Mine, MayPrepare
<1>2. /\ p \in Messages /\ q \in Messages
      /\ q.type = "PREPARE" /\ q.block = b /\ q.signer = v
  BY <1>1, PrepareFields
<1>3. /\ Shaped(y) /\ y.proposal = b /\ y.height = n.height /\ y.round = n.round
      /\ y.locked = n.locked /\ y.lockedRound = n.lockedRound /\ y.seen = n.seen
      /\ y.faulty = n.faulty /\ y.prepares = n.prepares /\ y.commits = n.commits
      /\ y.queue = n.queue /\ y.chain = n.chain /\ y.future = n.future /\ y.replay = n.replay
      /\ y.out = Append(n.out, p)
  BY <1>1 DEF Shaped, Fields, Send
<1>4. PrepareOf(v, y, b) = q
  BY <1>3 DEF PrepareOf
<1>5. BroadcastProposal(v, n, b) = ArmTimer(z)
  BY DEF BroadcastProposal, ProposalOf
<1> HIDE DEF y
<1>6. \A m \in y.seen : ~SameVote(m, q)
  BY <1>3, NothingPrepared
<1> HIDE DEF p, q
<1>13. /\ PrepareOf(v, y, b).type = "PREPARE" /\ PrepareOf(v, y, b).block = b
       /\ PrepareOf(v, y, b).signer = v
       /\ \A m \in y.seen : ~SameVote(m, PrepareOf(v, y, b))
  BY <1>2, <1>4, <1>6
<1>14. HasCast(v, y, b, z)
  BY <1>3, <1>13, CastPrepareFields
<1> HIDE DEF z
<1>7. /\ Shaped(z) /\ z.ph = "prePrepared" /\ z.proposal = b
      /\ z.height = n.height /\ z.round = n.round
      /\ z.locked = n.locked /\ z.lockedRound = n.lockedRound
      /\ z.seen = n.seen \cup {q} /\ z.faulty = n.faulty
      /\ z.prepares = n.prepares \cup {<<b, v>>} /\ z.commits = n.commits
      /\ z.queue = n.queue
      /\ z.chain = n.chain /\ z.future = n.future /\ z.replay = n.replay
      /\ z.out = Append(y.out, q)
  BY <1>3, <1>4, <1>14 DEF HasCast
<1>8. z.out \in Seq(Messages) /\ Elements(z.out) = Elements(n.out) \cup {p, q}
  <2>1. n.out \in Seq(Messages)
    BY <1>1 DEF NodeType
  <2>2. Append(n.out, p) \in Seq(Messages) /\ Elements(Append(n.out, p)) = Elements(n.out) \cup {p}
    BY <1>2, <2>1, AppendElements
  <2> DEFINE a == Append(n.out, p)
  <2> HIDE DEF a
  <2>3. a \in Seq(Messages) /\ q \in Messages
    BY <1>2, <2>2 DEF a
  <2>4. Append(a, q) \in Seq(Messages) /\ Elements(Append(a, q)) = Elements(a) \cup {q}
    BY <2>3, AppendElements
  <2> QED BY <1>3, <1>7, <2>2, <2>4 DEF a
<1>9. z.queue \in 0 .. MaxQueue
  BY <1>1, <1>7 DEF NodeType
<1>10. Prepared(v, n, b, {p, q}, z)
  BY <1>7, <1>8, <1>9 DEF Prepared, q
<1>11. Sane(v, z, K, C) /\ Calm(n, z)
  BY <1>10, PreparedSane DEF p, q
<1>12. Sane(v, ArmTimer(z), K, C) /\ Calm(n, ArmTimer(z)) /\ ArmTimer(z).height = n.height
  <2>1. Sane(v, ArmTimer(z), K, C) /\ Alike(z, ArmTimer(z))
    BY <1>11, ArmTimerSane
  <2>2. NodeType(z) /\ NodeType(ArmTimer(z))
    BY <1>11, <2>1 DEF Sane, Mine
  <2>3. ArmTimer(z).height = n.height
    BY <1>7, <2>1 DEF Alike
  <2> QED BY <1>1, <1>11, <2>1, <2>2, <2>3, AlikeCalm, CalmCalm
<1> QED BY <1>5, <1>12

-----------------------------------------------------------------------------
(* maybePropose, the end of startHeight, startHeight.                      *)

LEMMA CalmAlike ==
    ASSUME NEW v, NEW n, NEW K, NEW C, NodeType(n), NEW y, Sane(v, y, K, C), Calm(n, y),
           NEW x, Sane(v, x, K, C), Alike(y, x)
    PROVE  Calm(n, x)
<1>1. NodeType(y) /\ NodeType(x)
  BY DEF Sane, Mine
<1> QED BY <1>1, AlikeCalm, CalmCalm

\* Of the queue and its candidate, only the bound of the queue matters.
LEMMA QueueSane ==
    ASSUME NEW v, NEW n, NEW K, NEW C, Sane(v, n, K, C), NEW q \in 0 .. MaxQueue, NEW c
    PROVE  /\ Sane(v, [n EXCEPT !.queue = q, !.candidate = c], K, C)
           /\ Alike(n, [n EXCEPT !.queue = q, !.candidate = c])
<1>1. Shaped(n)
  BY DEF Sane, Mine
<1>2. /\ Alike(n, [n EXCEPT !.queue = q, !.candidate = c])
      /\ [n EXCEPT !.queue = q, !.candidate = c].queue = q
  BY <1>1 DEF Shaped, Fields, Alike
<1> QED BY <1>2, AlikeSane

LEMMA MaybeProposeSane ==
    ASSUME NEW v \in Honest, NEW n, NEW K, NEW C, Sane(v, n, K, C), NEW x \in MaybePropose(v, n)
    PROVE  Sane(v, x, K, C) /\ Calm(n, x) /\ x.height = n.height
<1>1. NodeType(n) /\ Shaped(n)
  BY DEF Sane, Mine
<1>2. CASE x = n
  BY <1>1, <1>2, AlikeCalm DEF Alike
<1>3. CASE n.ph = "idle" /\ n.locked # NoBlock /\ x = BroadcastProposal(v, n, n.locked)
  <2>1. n.locked \in Blocks /\ n.locked # StaleBlock
    BY <1>1, <1>3, ConsensusAssumption DEF NodeType
  <2>2. MayPrepare(n, n.locked)
    BY <1>3, <2>1 DEF MayPrepare
  <2> QED BY <1>3, <2>2, BroadcastProposalSane
<1>4. ASSUME NEW q \in StillBuildable(n), n.ph = "idle", n.locked = NoBlock
      PROVE  q \in 0 .. MaxQueue
  BY <1>1, ConsensusAssumption DEF StillBuildable, NodeType
<1>5. ASSUME n.locked = NoBlock, n.ph = "idle", NEW q \in StillBuildable(n), q = 0,
             x = [n EXCEPT !.queue = 0]
      PROVE  Sane(v, x, K, C) /\ Calm(n, x) /\ x.height = n.height
  <2>1. 0 \in 0 .. MaxQueue
    BY <1>4, <1>5
  <2>2. Alike(n, x) /\ x.queue = 0
    BY <1>1, <1>5 DEF Shaped, Fields, Alike
  <2>3. Sane(v, x, K, C)
    BY <2>1, <2>2, AlikeSane
  <2> QED BY <1>1, <2>2, <2>3, AlikeCalm DEF Alike
<1>6. ASSUME NEW q \in StillBuildable(n) \ {0}, NEW b \in IF Current(n) THEN Blocks ELSE {StaleBlock},
             n.ph = "idle", n.locked = NoBlock,
             x = BroadcastProposal(v, [n EXCEPT !.queue = q, !.candidate = Len(n.chain) + 1], b)
      PROVE  Sane(v, x, K, C) /\ Calm(n, x) /\ x.height = n.height
  <2> DEFINE y == [n EXCEPT !.queue = q, !.candidate = Len(n.chain) + 1]
  <2>1. Sane(v, y, K, C) /\ Alike(n, y)
    BY <1>4, <1>6, QueueSane
  <2> HIDE DEF y
  <2>2. b = StaleBlock => n.height <= Len(n.chain)
    <3>1. n.height \in Nat /\ Len(n.chain) \in Nat /\ n.height <= Len(n.chain) + 1
      BY <1>1 DEF NodeType
    <3> QED BY <1>6, <3>1, ConsensusAssumption DEF Current
  <2>3. MayPrepare(y, b)
    BY <1>6, <2>1, <2>2 DEF MayPrepare, Alike
  <2>4. x = BroadcastProposal(v, y, b)
    BY <1>6 DEF y
  <2>5. Sane(v, x, K, C) /\ Calm(y, x) /\ x.height = y.height
    BY <2>1, <2>3, <2>4, BroadcastProposalSane
  <2>6. NodeType(y) /\ NodeType(x)
    BY <2>1, <2>5 DEF Sane, Mine
  <2> QED BY <1>1, <2>1, <2>5, <2>6, AlikeCalm, CalmCalm DEF Alike
<1>7. ASSUME n.locked = NoBlock, n.ph = "idle", NEW q \in StillBuildable(n),
             x \in ProposeQueued(v, n, q)
      PROVE  Sane(v, x, K, C) /\ Calm(n, x) /\ x.height = n.height
  <2>1. CASE q = 0
    BY <1>5, <1>7, <2>1 DEF ProposeQueued
  <2>2. CASE q # 0
    <3> DEFINE B(b) == BroadcastProposal(v, [n EXCEPT !.queue = q, !.candidate = Len(n.chain) + 1], b)
               Bs == IF Current(n) THEN Blocks ELSE {StaleBlock}
    <3>1. x \in {B(b) : b \in Bs}
      BY <1>7, <2>2 DEF ProposeQueued
    <3>2. PICK b \in Bs : x = B(b)
      <4> HIDE DEF B, Bs
      <4> QED BY <3>1
    <3> QED BY <1>6, <1>7, <2>2, <3>2
  <2> QED BY <2>1, <2>2
<1> QED BY <1>2, <1>3, <1>7 DEF MaybePropose

LEMMA SettleSane ==
    ASSUME NEW v \in Honest, NEW n, NEW K, NEW C, Sane(v, n, K, C), NEW x \in Settle(v, n)
    PROVE  Sane(v, x, K, C) /\ Calm(n, x)
<1> DEFINE y == ArmTimerIfWorkPending(n)
<1>1. x \in MaybePropose(v, y)
  BY DEF Settle
<1>2. Sane(v, y, K, C) /\ Alike(n, y)
  BY ArmTimerSane
<1> HIDE DEF y
<1>3. Sane(v, x, K, C) /\ Calm(y, x)
  BY <1>1, <1>2, MaybeProposeSane
<1>4. NodeType(n) /\ NodeType(y) /\ NodeType(x)
  BY <1>2, <1>3 DEF Sane, Mine
<1> QED BY <1>2, <1>3, <1>4, AlikeCalm, CalmCalm

LEMMA StartHeightSane ==
    ASSUME NEW v \in Honest, NEW n, NEW K, NEW C, Sane(v, n, K, C),
           NEW h \in Nat, h > n.height, h <= Len(n.chain) + 1, NEW x \in StartHeight(v, n, h)
    PROVE  Sane(v, x, K, C) /\ Calm(n, x)
<1> DEFINE y == Fresh(n, h)
<1>1. x = y \/ x \in Settle(v, y)
  BY DEF StartHeight, Fresh
<1>2. Sane(v, y, K, C) /\ Calm(n, y)
  BY FreshSane
<1> HIDE DEF y
<1>3. CASE x \in Settle(v, y)
  <2>1. Sane(v, x, K, C) /\ Calm(y, x)
    BY <1>2, <1>3, SettleSane
  <2>2. NodeType(n) /\ NodeType(y) /\ NodeType(x)
    BY <1>2, <2>1 DEF Sane, Mine
  <2> QED BY <1>2, <2>1, <2>2, CalmCalm
<1> QED BY <1>1, <1>2, <1>3

-----------------------------------------------------------------------------
(* A height is decided.                                                    *)

\* The chain grows by a block that a quorum has voted for, if at all.
Extended(n, x, V) ==
    \/ x.chain = n.chain
    \/ \E b \in Blocks :
          /\ Len(n.chain) < MaxHeight /\ x.chain = Append(n.chain, b)
          /\ Decided(V, Len(n.chain) + 1, b)

\* One vote at most is cast.
VotesCast(v, n, x) ==
    \/ VotesOf(x) = VotesOf(n)
    \/ \E h \in 1 .. MaxHeight, b \in Blocks : VotesOf(x) = VotesOf(n) \cup {VoteFor(v, h, b)}

\* What an event makes of its validator.
Moved(v, n, x, C) ==
    Keeps(n, x) /\ Extended(n, x, Voted(x, C)) /\ VotesCast(v, n, x)

LEMMA CalmMoved ==
    ASSUME NEW v, NEW n, NEW y, NEW x, NEW C, NodeType(n), NodeType(y), NodeType(x),
           Calm(n, y), Moved(v, y, x, C)
    PROVE  Moved(v, n, x, C)
<1>1. n.height \in Nat /\ y.height \in Nat /\ x.height \in Nat
  BY DEF NodeType
<1>2. x.height >= n.height /\ (x.height = n.height => y.height = n.height /\ x.height = y.height)
  BY <1>1 DEF Calm, Keeps, Moved
<1>3. Keeps(n, x)
  BY <1>2 DEF Calm, Keeps, Moved
<1> QED BY <1>3 DEF Calm, Moved, Extended, VotesCast

LEMMA MovedCalm ==
    ASSUME NEW v, NEW n, NEW y, NEW x, NEW C, NodeType(n), NodeType(y), NodeType(x),
           Moved(v, n, y, C), Calm(y, x)
    PROVE  Moved(v, n, x, C)
<1>1. n.height \in Nat /\ y.height \in Nat /\ x.height \in Nat
  BY DEF NodeType
<1>2. x.height >= n.height /\ (x.height = n.height => y.height = n.height /\ x.height = y.height)
  BY <1>1 DEF Calm, Keeps, Moved
<1>3. Keeps(n, x)
  BY <1>2 DEF Calm, Keeps, Moved
<1>4. Voted(x, C) = Voted(y, C)
  BY DEF Calm, Voted
<1> QED BY <1>3, <1>4 DEF Calm, Moved, Extended, VotesCast

LEMMA CalmIsMoved ==
    ASSUME NEW v, NEW n, NEW x, NEW C, Calm(n, x)
    PROVE  Moved(v, n, x, C)
BY DEF Calm, Moved, Extended, VotesCast

\* The decided block joins the chain.
LEMMA AppendSane ==
    ASSUME NEW v, NEW n, NEW K, NEW C, Sane(v, n, K, C), n.height <= MaxHeight, Current(n),
           NEW b \in Blocks, Decided(Voted(n, C), n.height, b)
    PROVE  /\ Sane(v, [n EXCEPT !.chain = Append(@, b)], K, C)
           /\ Moved(v, n, [n EXCEPT !.chain = Append(@, b)], C)
           /\ [n EXCEPT !.chain = Append(@, b)].height = n.height
           /\ Len([n EXCEPT !.chain = Append(@, b)].chain) = n.height
<1> DEFINE V == Voted(n, C)
           x == [n EXCEPT !.chain = Append(@, b)]
<1>1. Shaped(n) /\ NodeType(n)
  BY DEF Sane, Mine
<1>2. /\ Shaped(x) /\ x.chain = Append(n.chain, b)
      /\ x.height = n.height /\ x.round = n.round /\ x.ph = n.ph /\ x.proposal = n.proposal
      /\ x.locked = n.locked /\ x.lockedRound = n.lockedRound /\ x.seen = n.seen
      /\ x.faulty = n.faulty /\ x.prepares = n.prepares /\ x.commits = n.commits
      /\ x.queue = n.queue /\ x.future = n.future /\ x.replay = n.replay /\ x.out = n.out
  BY <1>1 DEF Shaped, Fields
<1> HIDE DEF x
<1>3. /\ x.chain \in Seq(Blocks) /\ Len(x.chain) = Len(n.chain) + 1 /\ Len(n.chain) \in Nat
      /\ \A h \in 1 .. Len(n.chain) : x.chain[h] = n.chain[h]
      /\ x.chain[Len(n.chain) + 1] = b
  <2>1. n.chain \in Seq(Blocks)
    BY <1>1 DEF NodeType
  <2> DEFINE c == n.chain
             d == Append(c, b)
  <2>2. /\ d \in Seq(Blocks) /\ Len(d) = Len(c) + 1 /\ Len(c) \in Nat
        /\ \A h \in 1 .. Len(c) : d[h] = c[h]
        /\ d[Len(c) + 1] = b
    <3> HIDE DEF c
    <3>1. c \in Seq(Blocks)
      BY <2>1 DEF c
    <3> QED BY <3>1
  <2> QED BY <1>2, <2>2
<1>4. n.height = Len(n.chain) + 1
  BY DEF Current
<1>5. Said(x, K) = Said(n, K) /\ Voted(x, C) = V /\ VotesOf(x) = VotesOf(n)
  BY <1>2 DEF Said, Voted, VotesOf
<1>6. NodeType(x)
  <2>1. n.height <= Len(x.chain) + 1
    BY <1>3, <1>4
  <2> QED BY <1>1, <1>2, <1>3, <2>1 DEF NodeType
<1>7. ChainDecided(x, V)
  <2> SUFFICES ASSUME NEW h \in 1 .. Len(x.chain) PROVE Decided(V, h, x.chain[h])
    BY DEF ChainDecided
  <2>1. CASE h \in 1 .. Len(n.chain)
    BY <1>3, <2>1 DEF Sane, Mine, ChainDecided
  <2>2. CASE h = Len(n.chain) + 1
    BY <1>3, <1>4, <2>2
  <2> QED BY <1>3, <2>1, <2>2
<1>8. /\ Heard(x) \subseteq Said(n, K) /\ Backed(x) /\ InPhase(x)
      /\ NotYetSaid(v, x, Said(n, K)) /\ Bound(v, x, V)
  BY <1>2 DEF Sane, Mine, Heard, Backed, InPhase, NotYetSaid, Bound
<1>9. Sane(v, x, K, C)
  BY <1>2, <1>5, <1>6, <1>7, <1>8 DEF Sane, Mine
<1>10. Moved(v, n, x, C)
  <2>1. Keeps(n, x)
    BY <1>1, <1>2 DEF Keeps, NodeType
  <2>2. Len(n.chain) < MaxHeight
    BY <1>3, <1>4, ConsensusAssumption
  <2> QED BY <1>2, <1>4, <1>5, <2>1, <2>2 DEF Moved, Extended, VotesCast
<1> QED BY <1>2, <1>3, <1>4, <1>9, <1>10 DEF x

\* ResolveWaiters and the next height.
LEMMA NextHeightSane ==
    ASSUME NEW v \in Honest, NEW n, NEW K, NEW C, Sane(v, n, K, C),
           NEW g, NEW h \in Nat, h > n.height, h <= Len(n.chain) + 1,
           NEW x \in StartHeight(v, ResolveWaiters(n, g), h)
    PROVE  Sane(v, x, K, C) /\ Calm(n, x)
<1> DEFINE y == ResolveWaiters(n, g)
<1>1. Sane(v, y, K, C) /\ Alike(n, y)
  BY ResolveWaitersSane
<1>2. y.height = n.height /\ y.chain = n.chain
  BY <1>1 DEF Alike
<1> HIDE DEF y
<1>3. x \in StartHeight(v, y, h)
  BY DEF y
<1>4. Sane(v, x, K, C) /\ Calm(y, x)
  BY <1>1, <1>2, <1>3, StartHeightSane
<1>5. NodeType(n) /\ NodeType(y) /\ NodeType(x)
  BY <1>1, <1>4 DEF Sane, Mine
<1> QED BY <1>1, <1>4, <1>5, AlikeCalm, CalmCalm

LEMMA FinalizeSane ==
    ASSUME NEW v \in Honest, NEW n, NEW K, NEW C, Sane(v, n, K, C), n.height <= MaxHeight,
           NEW b \in Blocks, Decided(Voted(n, C), n.height, b), NEW x \in Finalize(v, n, b)
    PROVE  Sane(v, x, K, C) /\ Moved(v, n, x, C) /\ VotesOf(x) = VotesOf(n)
<1>1. NodeType(n) /\ Shaped(n) /\ n.height \in Nat /\ Len(n.chain) \in Nat
  BY DEF Sane, Mine, NodeType
<1>2. CASE Current(n)
  <2> DEFINE y == [n EXCEPT !.chain = Append(@, b)]
  <2>1. Sane(v, y, K, C) /\ Moved(v, n, y, C) /\ y.height = n.height /\ Len(y.chain) = n.height
    BY <1>2, AppendSane
  <2>2. x \in StartHeight(v, ResolveWaiters(y, n.height), n.height + 1)
    BY <1>2 DEF Finalize
  <2>3. VotesOf(y) = VotesOf(n)
    BY <1>1 DEF Shaped, Fields, VotesOf
  <2> HIDE DEF y
  <2>4. Sane(v, x, K, C) /\ Calm(y, x)
    BY <1>1, <2>1, <2>2, NextHeightSane
  <2>5. NodeType(y) /\ NodeType(x)
    BY <2>1, <2>4 DEF Sane, Mine
  <2> QED BY <1>1, <2>1, <2>3, <2>4, <2>5, MovedCalm DEF Calm
<1>3. CASE ~Current(n) /\ n.height <= Len(n.chain) /\ n.chain[n.height] = b
  <2>1. x \in StartHeight(v, ResolveWaiters(n, n.height), n.height + 1)
    BY <1>3 DEF Finalize
  <2>2. Sane(v, x, K, C) /\ Calm(n, x)
    BY <1>1, <1>3, <2>1, NextHeightSane
  <2> QED BY <2>2, CalmIsMoved DEF Calm
<1>4. CASE x = n
  <2>1. Calm(n, x)
    BY <1>1, <1>4, AlikeCalm DEF Alike
  <2> QED BY <1>4, <2>1, CalmIsMoved DEF Calm
<1> QED BY <1>2, <1>3, <1>4 DEF Finalize

LEMMA CheckCommitQuorumSane ==
    ASSUME NEW v \in Honest, NEW n, NEW K, NEW C, Sane(v, n, K, C), n.height <= MaxHeight,
           NEW b \in BlockOrNil, NEW x \in CheckCommitQuorum(v, n, b)
    PROVE  Sane(v, x, K, C) /\ Moved(v, n, x, C) /\ VotesOf(x) = VotesOf(n)
<1>1. CASE CommitCount(n, b) >= Quorum /\ x \in Finalize(v, n, b)
  <2>1. b \in Blocks /\ Decided(Voted(n, C), n.height, b)
    BY <1>1, CommittedBlock
  <2> QED BY <1>1, <2>1, FinalizeSane
<1>2. CASE x = n
  <2>1. NodeType(n) /\ Shaped(n)
    BY DEF Sane, Mine
  <2>2. Calm(n, x)
    BY <1>2, <2>1, AlikeCalm DEF Alike
  <2> QED BY <1>2, <2>2, CalmIsMoved DEF Calm
<1> QED BY <1>1, <1>2 DEF CheckCommitQuorum

-----------------------------------------------------------------------------
(* A quorum has prepared: the validator locks and votes.                   *)

LEMMA VoteFields ==
    ASSUME NEW v \in Honest, NEW h \in Nat, NEW b \in Blocks
    PROVE  /\ VoteFor(v, h, b) \in Messages /\ VoteFor(v, h, b).type = "COMMIT"
           /\ VoteFor(v, h, b).height = h /\ VoteFor(v, h, b).round = 0
           /\ VoteFor(v, h, b).block = b /\ VoteFor(v, h, b).lockedRound = 0
           /\ VoteFor(v, h, b).signer = v
           /\ WellSigned(VoteFor(v, h, b)) /\ IsVote(VoteFor(v, h, b))
<1>1. "COMMIT" \in MsgTypes /\ 0 \in Nat /\ b \in BlockOrNil /\ v \in Validators
  BY DEF MsgTypes, BlockOrNil, Honest
<1>2. /\ VoteFor(v, h, b) \in Messages /\ VoteFor(v, h, b).type = "COMMIT"
      /\ VoteFor(v, h, b).height = h /\ VoteFor(v, h, b).round = 0
      /\ VoteFor(v, h, b).block = b /\ VoteFor(v, h, b).lockedRound = 0
      /\ VoteFor(v, h, b).signer = v
  BY <1>1, MessageFields DEF VoteFor
<1>3. b # NoBlock /\ b # StaleBlock /\ 0 <= MaxRound
  BY ConsensusAssumption
<1> QED BY <1>2, <1>3 DEF WellSigned, IsVote

\* An earlier vote of this validator at this height was for its lock.
LEMMA SameVoteAgain ==
    ASSUME NEW v \in Honest, NEW n, NEW K, NEW C, Sane(v, n, K, C), InPhase(n), n.ph = "prePrepared",
           NEW p \in n.seen, p.type = "COMMIT", p.signer = v
    PROVE  p = VoteFor(v, n.height, n.proposal)
<1>1. p \in Said(n, K) /\ p.height = n.height
  BY DEF Sane, Mine, Heard, Backed
<1>2. p \in Messages /\ p.round = 0 /\ p.lockedRound = 0 /\ p.block # NoBlock /\ p \in Voted(n, C)
  BY <1>1 DEF Sane, Common, WellSigned, IsVote
<1>3. n.locked = p.block
  BY <1>1, <1>2 DEF Sane, Mine, Bound
<1>4. p.block = n.proposal
  BY <1>2, <1>3 DEF InPhase
<1> QED BY <1>1, <1>2, <1>4 DEF Messages, VoteFor, Message

HasVoted(v, n, b, x) ==
    /\ Shaped(x) /\ x.ph = "prepared" /\ x.proposal = n.proposal
    /\ x.height = n.height /\ x.round = n.round
    /\ x.locked = b /\ x.lockedRound = n.round
    /\ x.seen = n.seen \cup {VoteFor(v, n.height, b)} /\ x.faulty = n.faulty
    /\ x.prepares = n.prepares /\ x.commits \subseteq n.commits \cup {<<b, v>>}
    /\ x.queue = n.queue
    /\ x.chain = n.chain /\ x.future = n.future /\ x.replay = n.replay
    /\ x.out = Append(n.out, VoteFor(v, n.height, b))

LEMMA VoteCastFields ==
    ASSUME NEW v \in Honest, NEW n, NEW K, NEW C, Sane(v, n, K, C), n.ph = "prePrepared",
           NEW b \in Blocks, n.proposal = b,
           NEW m, m = VoteFor(v, n.height, b)
    PROVE  HasVoted(v, n, b,
             Send(RecordOwn([Lock(n, b, n.round) EXCEPT !.ph = "prepared"], m), m))
<1> DEFINE y == [Lock(n, b, n.round) EXCEPT !.ph = "prepared"]
           z == RecordOwn(y, m)
           x == Send(z, m)
<1>1. NodeType(n) /\ Shaped(n) /\ InPhase(n) /\ n.height \in Nat
  BY DEF Sane, Mine, NodeType
<1>2. /\ Shaped(y) /\ y.ph = "prepared" /\ y.proposal = n.proposal
      /\ y.height = n.height /\ y.round = n.round
      /\ y.locked = b /\ y.lockedRound = n.round
      /\ y.seen = n.seen /\ y.faulty = n.faulty
      /\ y.prepares = n.prepares /\ y.commits = n.commits
      /\ y.queue = n.queue
      /\ y.chain = n.chain /\ y.future = n.future /\ y.replay = n.replay /\ y.out = n.out
  BY <1>1 DEF Shaped, Fields, Lock
<1>3. m.type = "COMMIT" /\ m.signer = v /\ m.block = b
  BY <1>1, VoteFields
<1> HIDE DEF y
<1>4. \A p \in Earlier(y, m) : p = m
  BY <1>1, <1>2, <1>3, SameVoteAgain DEF Earlier, SameVote
<1>5. ~Equivocates(y, m)
  BY <1>4 DEF Equivocates
<1>6. z = Tally(y, m) \/ (z = y /\ m \in y.seen)
  <2>1. z = IF Earlier(y, m) = {} THEN Tally(y, m) ELSE y
    BY <1>5 DEF RecordOwn
  <2>2. Earlier(y, m) # {} => m \in y.seen
    BY <1>4 DEF Earlier
  <2> QED BY <2>1, <2>2
<1>7. /\ Shaped(z) /\ z.ph = y.ph /\ z.proposal = y.proposal
      /\ z.height = y.height /\ z.round = y.round
      /\ z.locked = y.locked /\ z.lockedRound = y.lockedRound
      /\ z.seen = y.seen \cup {m} /\ z.faulty = y.faulty
      /\ z.prepares = y.prepares /\ z.commits \subseteq y.commits \cup {<<b, v>>}
      /\ z.queue = y.queue
      /\ z.chain = y.chain /\ z.future = y.future /\ z.replay = y.replay /\ z.out = y.out
  <2> HIDE DEF z
  <2>1. CASE z = Tally(y, m)
    BY <1>2, <1>3, <2>1 DEF Shaped, Fields, Tally
  <2>2. CASE z = y /\ m \in y.seen
    BY <1>2, <2>2
  <2> QED BY <1>6, <2>1, <2>2
<1> HIDE DEF z
<1>8. /\ Shaped(x) /\ x.ph = z.ph /\ x.proposal = z.proposal
      /\ x.height = z.height /\ x.round = z.round
      /\ x.locked = z.locked /\ x.lockedRound = z.lockedRound
      /\ x.seen = z.seen /\ x.faulty = z.faulty
      /\ x.prepares = z.prepares /\ x.commits = z.commits
      /\ x.queue = z.queue
      /\ x.chain = z.chain /\ x.future = z.future /\ x.replay = z.replay /\ x.out = Append(z.out, m)
  BY <1>7 DEF Shaped, Fields, Send
<1> HIDE DEF x
<1>9. HasVoted(v, n, b, x)
  BY <1>2, <1>7, <1>8 DEF HasVoted
<1> QED BY <1>9 DEF x, y, z

LEMMA HasVotedSane ==
    ASSUME NEW v \in Honest, NEW n, NEW K, NEW C, Sane(v, n, K, C), n.ph = "prePrepared",
           n.height <= MaxHeight, NEW b \in Blocks, n.proposal = b,
           NEW x, HasVoted(v, n, b, x)
    PROVE  Sane(v, x, K, C) /\ Moved(v, n, x, C) /\ x.height = n.height
<1> DEFINE S == Said(n, K)
           V == Voted(n, C)
           m == VoteFor(v, n.height, b)
<1>1. /\ NodeType(n) /\ Shaped(x) /\ InPhase(n) /\ n.height \in Nat /\ n.height \in 1 .. MaxHeight
      /\ Common(S, V) /\ Mine(v, n, S, V) /\ v \in Validators
  <2>1. Common(S, V) /\ Mine(v, n, S, V)
    BY DEF Sane
  <2>2. NodeType(n) /\ InPhase(n)
    BY <2>1 DEF Mine
  <2>3. n.height \in Nat /\ n.height \in 1 .. MaxHeight
    BY <2>2, ConsensusAssumption DEF NodeType
  <2> QED BY <2>1, <2>2, <2>3 DEF HasVoted, Honest
<1>2. /\ m \in Messages /\ m.type = "COMMIT" /\ m.height = n.height /\ m.round = 0
      /\ m.block = b /\ m.signer = v /\ WellSigned(m) /\ IsVote(m)
  BY <1>1, VoteFields
<1>3. x.out \in Seq(Messages) /\ Elements(x.out) = Elements(n.out) \cup {m}
  <2>1. n.out \in Seq(Messages)
    BY <1>1 DEF NodeType
  <2> QED BY <1>2, <2>1, AppendElements DEF HasVoted
<1>4. Said(x, K) = S \cup {m} /\ VotesOf(x) = VotesOf(n) \cup {m} /\ Voted(x, C) = V \cup {m}
  BY <1>2, <1>3 DEF Said, VotesOf, Voted
<1>5. n.locked # NoBlock => n.locked = b
  BY <1>1 DEF InPhase
<1> HIDE DEF S, V, m
<1>6. \A p \in V : p.signer = v /\ p.height = n.height => p.block = b
  BY <1>1, <1>5 DEF Mine, Bound, Common, WellSigned, IsVote
<1>7. Common(S \cup {m}, V \cup {m})
  <2>1. \A p \in S \cup {m} : WellSigned(p) /\ (IsVote(p) => p \in V \cup {m})
    BY <1>1, <1>2 DEF Common
  <2>2. \A p \in V \cup {m} : WellSigned(p) /\ IsVote(p) /\ p.height \in 1 .. MaxHeight
    BY <1>1, <1>2 DEF Common
  <2>3. SignedOnce(S \cup {m}, V \cup {m})
    <3>1. \A p, q \in S \cup {m} :
            /\ p.signer \in Honest /\ p.signer = q.signer
            /\ p.type \in {"PROPOSAL", "PREPARE"} /\ p.type = q.type
            /\ p.height = q.height /\ p.round = q.round
            => p.block = q.block
      BY <1>1, <1>2 DEF Common, SignedOnce
    <3>2. \A p, q \in V \cup {m} : p.signer = q.signer /\ p.height = q.height => p.block = q.block
      BY <1>1, <1>2, <1>6 DEF Common, SignedOnce
    <3> QED BY <3>1, <3>2 DEF SignedOnce
  <2>4. Outvoted(S \cup {m}, V \cup {m})
    <3>1. \A s \in S \cup {m} : IsStale(s) => s \in S
      BY <1>2 DEF IsStale
    <3>2. \A h : Stalers(S \cup {m}, h) = Stalers(S, h)
      BY <1>2 DEF IsStale, Stalers
    <3>3. ASSUME NEW s \in S \cup {m}, IsStale(s)
          PROVE  \E Q \in Quorums :
                    /\ Q \cap Stalers(S \cup {m}, s.height) = {}
                    /\ \A w \in Q \cap Honest : \E p \in V \cup {m} : p.signer = w /\ p.height = s.height
      <4>1. PICK Q \in Quorums :
                /\ Q \cap Stalers(S, s.height) = {}
                /\ \A w \in Q \cap Honest : \E p \in V : p.signer = w /\ p.height = s.height
        BY <1>1, <3>1, <3>3 DEF Common, Outvoted
      <4>2. Q \cap Stalers(S \cup {m}, s.height) = {}
        BY <3>2, <4>1
      <4> QED BY <4>1, <4>2
    <3> QED BY <3>3 DEF Outvoted
  <2> QED BY <2>1, <2>2, <2>3, <2>4 DEF Common
<1>8. NodeType(x)
  <2>1. b \in BlockOrNil /\ b \in Blocks \cup {NoBlock} /\ n.seen \cup {m} \subseteq Messages
    BY <1>1, <1>2 DEF BlockOrNil, NodeType
  <2>2. n.round \in Nat /\ n.commits \cup {<<b, v>>} \subseteq BlockOrNil \X Validators
    BY <1>1, <2>1, ConsensusAssumption DEF NodeType
  <2>3. x.seen = n.seen \cup {m} /\ x.commits \subseteq BlockOrNil \X Validators
    BY <2>2 DEF HasVoted, m
  <2> QED BY <1>1, <1>3, <2>1, <2>2, <2>3 DEF HasVoted, NodeType
<1>9. Heard(x) \subseteq S \cup {m}
  BY <1>1 DEF HasVoted, Heard, Mine, m
<1>10. Backed(x)
  <2>1. \A p \in x.seen : p.height = x.height
    BY <1>1, <1>2 DEF HasVoted, Mine, Backed, m
  <2>2. ASSUME NEW c \in BlockOrNil, NEW w \in Validators, <<c, w>> \in x.commits
        PROVE  \E p \in x.seen : p.type = "COMMIT" /\ p.block = c /\ p.signer = w
    <3>1. CASE <<c, w>> \in n.commits
      BY <1>1, <3>1 DEF HasVoted, Mine, Backed
    <3>2. CASE <<c, w>> = <<b, v>>
      <4>1. m \in x.seen /\ m.type = "COMMIT" /\ m.block = c /\ m.signer = w
        BY <1>2, <3>2 DEF HasVoted, m
      <4> QED BY <4>1
    <3> QED BY <2>2, <3>1, <3>2 DEF HasVoted
  <2>3. ASSUME NEW c \in BlockOrNil, NEW w \in Validators, <<c, w>> \in x.prepares
        PROVE  \E p \in x.seen : p.type = "PREPARE" /\ p.block = c /\ p.signer = w
    BY <1>1, <2>3 DEF HasVoted, Mine, Backed
  <2> QED BY <2>1, <2>2, <2>3 DEF Backed
<1>11. InPhase(x)
  BY DEF HasVoted, InPhase
<1>12. NotYetSaid(v, x, S \cup {m})
  <2>1. NotYetSaid(v, n, S) /\ x.ph # "idle" /\ x.height = n.height /\ x.round = n.round
    BY <1>1 DEF Mine, HasVoted
  <2> QED BY <1>2, <2>1 DEF NotYetSaid
<1>13. Bound(v, x, V \cup {m})
  <2>1. Bound(v, n, V) /\ x.height = n.height /\ x.locked = b
    BY <1>1 DEF Mine, HasVoted
  <2> QED BY <1>1, <1>2, <1>6, <2>1 DEF Bound
<1>14. ChainDecided(x, V \cup {m})
  <2>1. x.chain = n.chain /\ ChainDecided(n, V)
    BY <1>1 DEF HasVoted, Mine
  <2> QED BY <2>1, DecidedMonotone DEF ChainDecided
<1>15. \A p \in Elements(x.out) : p.signer = v
  BY <1>2, <1>3 DEF Sane
<1>16. Moved(v, n, x, C)
  <2>1. Keeps(n, x)
    BY <1>1, <1>5 DEF HasVoted, Keeps
  <2>2. Extended(n, x, Voted(x, C))
    BY DEF HasVoted, Extended
  <2> QED BY <1>1, <1>4, <2>1, <2>2 DEF Moved, VotesCast, m
<1> QED
  BY <1>1, <1>4, <1>7, <1>8, <1>9, <1>10, <1>11, <1>12, <1>13, <1>14, <1>15, <1>16
  DEF Sane, Mine, HasVoted

LEMMA CheckPrepareQuorumSane ==
    ASSUME NEW v \in Honest, NEW n, NEW K, NEW C, Sane(v, n, K, C), n.height <= MaxHeight,
           NEW b \in BlockOrNil, NEW x \in CheckPrepareQuorum(v, n, b)
    PROVE  Sane(v, x, K, C) /\ Moved(v, n, x, C)
<1>1. NodeType(n) /\ Shaped(n) /\ InPhase(n)
  BY DEF Sane, Mine
<1>2. CASE x = n
  <2>1. Calm(n, x)
    BY <1>1, <1>2, AlikeCalm DEF Alike
  <2> QED BY <1>2, <2>1, CalmIsMoved
<1>3. CASE n.ph = "prePrepared" /\ n.proposal = b /\ PrepareCount(n, b) >= Quorum /\ x # n
  <2> DEFINE m == VoteFor(v, n.height, b)
             y == Send(RecordOwn([Lock(n, b, n.round) EXCEPT !.ph = "prepared"], m), m)
  <2>1. b # NoBlock
    BY <1>1, <1>3 DEF InPhase
  <2>2. b \in Blocks
    BY <1>3, <2>1, PreparedBlock
  <2>3. HasVoted(v, n, b, y)
    BY <1>3, <2>2, VoteCastFields
  <2>4. x \in CheckCommitQuorum(v, y, b)
    BY <1>3 DEF CheckPrepareQuorum, VoteFor
  <2> HIDE DEF y
  <2>5. Sane(v, y, K, C) /\ Moved(v, n, y, C) /\ y.height = n.height
    BY <1>3, <2>2, <2>3, HasVotedSane
  <2>6. Sane(v, x, K, C) /\ Moved(v, y, x, C) /\ VotesOf(x) = VotesOf(y)
    BY <2>2, <2>4, <2>5, CheckCommitQuorumSane DEF BlockOrNil
  <2>7. y.chain = n.chain
    BY <2>3 DEF HasVoted
  <2>8. NodeType(y) /\ NodeType(x)
    BY <2>5, <2>6 DEF Sane, Mine
  <2>9. Keeps(n, x)
    <3>1. n.height \in Nat /\ y.height \in Nat /\ x.height \in Nat
      BY <1>1, <2>8 DEF NodeType
    <3> QED BY <2>5, <2>6, <3>1 DEF Moved, Keeps
  <2>10. Extended(n, x, Voted(x, C)) /\ VotesCast(v, n, x)
    BY <2>5, <2>6, <2>7 DEF Moved, Extended, VotesCast
  <2> QED BY <2>6, <2>9, <2>10 DEF Moved
<1> QED BY <1>2, <1>3 DEF CheckPrepareQuorum

-----------------------------------------------------------------------------
(* Round changes.                                                          *)

\* A round is entered with the lock it was left with, or with one that a
\* quorum reported if there was none.
Entered(n, r, x) ==
    /\ Shaped(x) /\ x.ph = "idle" /\ x.proposal = NoBlock /\ x.prepares = {}
    /\ x.height = n.height /\ x.round = r
    /\ x.locked \in Blocks \cup {NoBlock} /\ x.lockedRound \in Nat
    /\ n.locked # NoBlock => x.locked = n.locked
    /\ x.seen = n.seen /\ x.faulty = n.faulty /\ x.commits = n.commits
    /\ x.queue = n.queue /\ x.chain = n.chain /\ x.future = n.future /\ x.replay = n.replay
    /\ x.out = n.out

LEMMA EnteredSane ==
    ASSUME NEW v, NEW n, NEW K, NEW C, Sane(v, n, K, C),
           NEW r \in 0 .. MaxRound, r > n.round, NEW x, Entered(n, r, x)
    PROVE  Sane(v, x, K, C) /\ Calm(n, x)
<1>1. NodeType(n)
  BY DEF Sane, Mine
<1>2. /\ Said(x, K) = Said(n, K) /\ Voted(x, C) = Voted(n, C) /\ VotesOf(x) = VotesOf(n)
      /\ Elements(x.out) = Elements(n.out)
  BY DEF Entered, Said, Voted, VotesOf
<1>3. NodeType(x)
  BY <1>1 DEF Entered, NodeType, BlockOrNil
<1>4. Heard(x) \subseteq Said(n, K) /\ Backed(x) /\ InPhase(x)
  BY DEF Sane, Mine, Entered, Heard, Backed, InPhase
<1>5. NotYetSaid(v, x, Said(n, K))
  <2>1. n.round \in Nat /\ r \in Nat /\ \A m \in Said(n, K) : m.round \in Nat
    BY <1>1, ConsensusAssumption DEF NodeType, Sane, Common, WellSigned, Messages
  <2> QED BY <2>1 DEF Sane, Mine, Entered, NotYetSaid
<1>6. Bound(v, x, Voted(n, C))
  <2>1. \A m \in Voted(n, C) : m.block # NoBlock
    BY DEF Sane, Common, WellSigned, IsVote
  <2> QED BY <2>1 DEF Sane, Mine, Entered, Bound
<1>7. ChainDecided(x, Voted(n, C))
  BY DEF Sane, Mine, Entered, ChainDecided
<1>8. Calm(n, x)
  BY <1>1, <1>2 DEF Calm, Keeps, Entered, NodeType
<1> QED BY <1>2, <1>3, <1>4, <1>5, <1>6, <1>7, <1>8 DEF Sane, Mine, Entered

LEMMA HighestLockIsBlock ==
    ASSUME NEW v, NEW n, NEW K, NEW C, Sane(v, n, K, C), NEW r, NEW b \in HighestLocks(n, r)
    PROVE  b \in Blocks
<1>1. PICK m \in n.seen : m.type = "ROUND_CHANGE" /\ m.block # NoBlock /\ m.block = b
  BY DEF HighestLocks, Changes
<1>2. m \in Said(n, K)
  BY DEF Sane, Mine, Heard
<1> QED BY <1>1, <1>2 DEF Sane, Common, WellSigned, Messages, BlockOrNil

LEMMA CheckRoundChangeQuorumSane ==
    ASSUME NEW v \in Honest, NEW n, NEW K, NEW C, Sane(v, n, K, C),
           NEW r \in 0 .. MaxRound, NEW x \in CheckRoundChangeQuorum(v, n, r)
    PROVE  Sane(v, x, K, C) /\ Calm(n, x)
<1>1. NodeType(n) /\ Shaped(n)
  BY DEF Sane, Mine
<1>2. CASE x = n
  BY <1>1, <1>2, AlikeCalm DEF Alike
<1>3. ASSUME r > n.round, NEW a, Entered(n, r, a), x \in MaybePropose(v, ArmTimer(a))
      PROVE  Sane(v, x, K, C) /\ Calm(n, x)
  <2>1. Sane(v, a, K, C) /\ Calm(n, a)
    BY <1>3, EnteredSane
  <2>2. Sane(v, ArmTimer(a), K, C) /\ Alike(a, ArmTimer(a))
    BY <2>1, ArmTimerSane
  <2>3. Sane(v, x, K, C) /\ Calm(ArmTimer(a), x)
    BY <1>3, <2>2, MaybeProposeSane
  <2>4. Calm(n, ArmTimer(a))
    BY <1>1, <2>1, <2>2, CalmAlike
  <2>5. NodeType(ArmTimer(a)) /\ NodeType(x)
    BY <2>2, <2>3 DEF Sane, Mine
  <2> QED BY <1>1, <2>3, <2>4, <2>5, CalmCalm
<1>4. r \in Nat
  BY ConsensusAssumption
<1>5. Entered(n, r, EnterRound(n, r))
  <2>1. n.locked \in Blocks \cup {NoBlock} /\ n.lockedRound \in Nat
    BY <1>1 DEF NodeType
  <2> QED BY <1>1, <2>1 DEF Entered, EnterRound, Shaped, Fields
<1>6. ASSUME NEW b \in HighestLocks(n, r), n.locked = NoBlock
      PROVE  Entered(n, r, Lock(EnterRound(n, r), b, r))
  <2>1. b \in Blocks \cup {NoBlock}
    BY HighestLockIsBlock
  <2> QED BY <1>1, <1>4, <1>6, <2>1 DEF Entered, EnterRound, Lock, Shaped, Fields
<1> DEFINE adopted == IF n.locked = NoBlock /\ HighestLocks(n, r) # {}
                        THEN {Lock(EnterRound(n, r), b, r) : b \in HighestLocks(n, r)}
                        ELSE {EnterRound(n, r)}
<1>7. \A a \in adopted : Entered(n, r, a)
  BY <1>5, <1>6
<1>8. x = n \/ (r > n.round /\ x \in UNION {MaybePropose(v, y) : y \in {ArmTimer(a) : a \in adopted}})
  BY DEF CheckRoundChangeQuorum
<1> HIDE DEF adopted
<1>9. x = n \/ (r > n.round /\ \E a \in adopted : x \in MaybePropose(v, ArmTimer(a)))
  BY <1>8
<1> QED BY <1>2, <1>3, <1>7, <1>9

-----------------------------------------------------------------------------
(* A peer's message.                                                       *)

\* onProposal: the block a validator prepares, and what may follow at once.
LEMMA CastPrepareSane ==
    ASSUME NEW v \in Honest, NEW n, NEW K, NEW C, Sane(v, n, K, C), NEW b, MayPrepare(n, b)
    PROVE  /\ Sane(v, CastPrepare(v, [n EXCEPT !.proposal = b], b), K, C)
           /\ Calm(n, CastPrepare(v, [n EXCEPT !.proposal = b], b))
           /\ CastPrepare(v, [n EXCEPT !.proposal = b], b).height = n.height
<1> DEFINE q == PrepareOf(v, n, b)
           y == [n EXCEPT !.proposal = b]
           z == CastPrepare(v, y, b)
<1>1. Shaped(n) /\ NodeType(n) /\ b \in Blocks \cup {StaleBlock}
  BY DEF Sane, Mine, MayPrepare
<1>2. q \in Messages /\ q.type = "PREPARE" /\ q.block = b /\ q.signer = v
  BY <1>1, PrepareFields
<1>3. /\ Shaped(y) /\ y.proposal = b /\ y.height = n.height /\ y.round = n.round
      /\ y.locked = n.locked /\ y.lockedRound = n.lockedRound /\ y.seen = n.seen
      /\ y.faulty = n.faulty /\ y.prepares = n.prepares /\ y.commits = n.commits
      /\ y.queue = n.queue /\ y.chain = n.chain /\ y.future = n.future /\ y.replay = n.replay
      /\ y.out = n.out
  BY <1>1 DEF Shaped, Fields
<1>4. PrepareOf(v, y, b) = q
  BY <1>3 DEF PrepareOf
<1> HIDE DEF y
<1>5. \A m \in y.seen : ~SameVote(m, q)
  BY <1>3, NothingPrepared
<1> HIDE DEF q
<1>6. /\ PrepareOf(v, y, b).type = "PREPARE" /\ PrepareOf(v, y, b).block = b
      /\ PrepareOf(v, y, b).signer = v
      /\ \A m \in y.seen : ~SameVote(m, PrepareOf(v, y, b))
  BY <1>2, <1>4, <1>5
<1>7. HasCast(v, y, b, z)
  BY <1>3, <1>6, CastPrepareFields
<1> HIDE DEF z
<1>8. z.out \in Seq(Messages) /\ Elements(z.out) = Elements(n.out) \cup {q}
  <2>1. n.out \in Seq(Messages)
    BY <1>1 DEF NodeType
  <2>2. z.out = Append(n.out, q)
    BY <1>3, <1>4, <1>7 DEF HasCast
  <2> QED BY <1>2, <2>1, <2>2, AppendElements
<1>9. n.queue \in 0 .. MaxQueue
  BY <1>1 DEF NodeType
<1>10. Prepared(v, n, b, {q}, z)
  BY <1>3, <1>4, <1>7, <1>8, <1>9 DEF HasCast, Prepared, q
<1>11. Sane(v, z, K, C) /\ Calm(n, z)
  BY <1>10, PreparedSane DEF q
<1>12. z.height = n.height
  BY <1>10 DEF Prepared
<1> QED BY <1>11, <1>12 DEF y, z

LEMMA OnProposalSane ==
    ASSUME NEW v \in Honest, NEW n, NEW K, NEW C, Sane(v, n, K, C), n.height <= MaxHeight,
           NEW m, NEW x \in OnProposal(v, n, m)
    PROVE  Sane(v, x, K, C) /\ Moved(v, n, x, C)
<1>1. NodeType(n) /\ Shaped(n)
  BY DEF Sane, Mine
<1>2. CASE x = n
  <2>1. Calm(n, x)
    BY <1>1, <1>2, AlikeCalm DEF Alike
  <2> QED BY <1>2, <2>1, CalmIsMoved
<1> DEFINE b == m.block
           z == CastPrepare(v, [n EXCEPT !.proposal = b], b)
<1>3. ASSUME n.ph = "idle", AcceptableProposal(n, b), b \in Blocks,
             NEW p \in CheckPrepareQuorum(v, z, b), x = ArmTimer(p)
      PROVE  Sane(v, x, K, C) /\ Moved(v, n, x, C)
  <2>1. MayPrepare(n, b)
    BY <1>3, ConsensusAssumption DEF MayPrepare, AcceptableProposal
  <2>2. Sane(v, z, K, C) /\ Calm(n, z) /\ z.height = n.height
    BY <2>1, CastPrepareSane
  <2> HIDE DEF z
  <2>3. Sane(v, p, K, C) /\ Moved(v, z, p, C)
    BY <1>3, <2>2, CheckPrepareQuorumSane DEF BlockOrNil
  <2>4. Sane(v, x, K, C) /\ Alike(p, x)
    BY <1>3, <2>3, ArmTimerSane
  <2>5. NodeType(z) /\ NodeType(p) /\ NodeType(x)
    BY <2>2, <2>3, <2>4 DEF Sane, Mine
  <2> QED BY <1>1, <2>2, <2>3, <2>4, <2>5, AlikeCalm, MovedCalm, CalmMoved
<1>4. x = n \/ (/\ n.ph = "idle" /\ AcceptableProposal(n, b) /\ b \in Blocks
                /\ \E p \in CheckPrepareQuorum(v, z, b) : x = ArmTimer(p))
  BY DEF OnProposal
<1> HIDE DEF z
<1> QED BY <1>2, <1>3, <1>4

\* An equivocator is never a validator that follows the protocol.
LEMMA WithdrawSane ==
    ASSUME NEW v \in Honest, NEW n, NEW K, NEW C, Sane(v, n, K, C),
           NEW m \in K, m.height = n.height, Equivocates(n, m)
    PROVE  Sane(v, Withdraw(n, m), K, C) /\ Calm(n, Withdraw(n, m))
<1> DEFINE S == Said(n, K)
           V == Voted(n, C)
           x == Withdraw(n, m)
<1>1. Shaped(n) /\ NodeType(n) /\ Common(S, V) /\ Mine(v, n, S, V)
  BY DEF Sane, Mine
<1>2. PICK p \in n.seen : SameVote(p, m) /\ p.block # m.block /\ m.type # "ROUND_CHANGE"
  BY DEF Equivocates, Earlier
<1>3. p \in S /\ m \in S /\ p.height = m.height
  BY <1>1, <1>2 DEF Mine, Heard, Backed, Said
<1>4. m.signer \in Validators /\ m.type \in MsgTypes
  BY <1>1, <1>3 DEF Common, WellSigned, Messages
<1>5. m.signer \notin Honest
  <2> SUFFICES ASSUME m.signer \in Honest PROVE FALSE
    OBVIOUS
  <2>1. m.type \in {"PROPOSAL", "PREPARE"} \/ (IsVote(m) /\ IsVote(p))
    BY <1>2, <1>4 DEF MsgTypes, IsVote, SameVote
  <2>2. m.type \in {"PROPOSAL", "PREPARE"} => p.block = m.block
    BY <1>1, <1>2, <1>3 DEF Common, SignedOnce, SameVote
  <2>3. IsVote(m) /\ IsVote(p) => p.block = m.block
    BY <1>1, <1>2, <1>3 DEF Common, SignedOnce, SameVote
  <2> QED BY <1>2, <2>1, <2>2, <2>3
<1>6. /\ Shaped(x) /\ x.height = n.height /\ x.round = n.round /\ x.ph = n.ph /\ x.proposal = n.proposal
      /\ x.locked = n.locked /\ x.lockedRound = n.lockedRound /\ x.seen = n.seen
      /\ x.faulty = n.faulty \cup {m.signer}
      /\ x.prepares \subseteq n.prepares /\ x.commits \subseteq n.commits
      /\ x.queue = n.queue /\ x.chain = n.chain /\ x.future = n.future /\ x.replay = n.replay
      /\ x.out = n.out
  BY <1>1 DEF Shaped, Fields, Withdraw
<1> HIDE DEF x
<1>7. Said(x, K) = S /\ Voted(x, C) = V /\ VotesOf(x) = VotesOf(n) /\ Elements(x.out) = Elements(n.out)
  BY <1>6 DEF Said, Voted, VotesOf
<1> HIDE DEF S, V
<1>8. NodeType(x)
  <2>1. n.faulty \cup {m.signer} \subseteq Validators \ Honest
    BY <1>1, <1>4, <1>5 DEF NodeType
  <2>2. x.prepares \subseteq BlockOrNil \X Validators /\ x.commits \subseteq BlockOrNil \X Validators
    BY <1>1, <1>6 DEF NodeType
  <2> QED BY <1>1, <1>6, <2>1, <2>2 DEF NodeType
<1>9. Heard(x) \subseteq S /\ Backed(x) /\ InPhase(x)
  BY <1>1, <1>6 DEF Mine, Heard, Backed, InPhase
<1>10. NotYetSaid(v, x, S) /\ Bound(v, x, V) /\ ChainDecided(x, V)
  BY <1>1, <1>6 DEF Mine, NotYetSaid, Bound, ChainDecided
<1>11. Calm(n, x)
  BY <1>1, <1>6, <1>7 DEF Calm, Keeps, NodeType
<1> QED BY <1>1, <1>6, <1>7, <1>8, <1>9, <1>10, <1>11 DEF Sane, Mine, S, V, x

\* A message of this height is recorded and counted.
LEMMA TallySane ==
    ASSUME NEW v \in Honest, NEW n, NEW K, NEW C, Sane(v, n, K, C),
           NEW m \in K, m.height = n.height
    PROVE  /\ Sane(v, [Tally(n, m) EXCEPT !.peerActivity = TRUE], K, C)
           /\ Calm(n, [Tally(n, m) EXCEPT !.peerActivity = TRUE])
           /\ [Tally(n, m) EXCEPT !.peerActivity = TRUE].height = n.height
<1> DEFINE S == Said(n, K)
           V == Voted(n, C)
           y == Tally(n, m)
           x == [y EXCEPT !.peerActivity = TRUE]
<1>1. Shaped(n) /\ NodeType(n) /\ Common(S, V) /\ Mine(v, n, S, V)
  BY DEF Sane, Mine
<1>2. m \in S /\ m \in Messages /\ m.block \in BlockOrNil /\ m.signer \in Validators
  BY <1>1 DEF Common, WellSigned, Messages, Said
<1>3. /\ Shaped(y) /\ y.height = n.height /\ y.round = n.round /\ y.ph = n.ph /\ y.proposal = n.proposal
      /\ y.locked = n.locked /\ y.lockedRound = n.lockedRound /\ y.seen = n.seen \cup {m}
      /\ y.faulty = n.faulty
      /\ y.prepares = IF m.type = "PREPARE" THEN n.prepares \cup {<<m.block, m.signer>>} ELSE n.prepares
      /\ y.commits = IF m.type = "COMMIT" THEN n.commits \cup {<<m.block, m.signer>>} ELSE n.commits
      /\ y.queue = n.queue /\ y.chain = n.chain /\ y.future = n.future /\ y.replay = n.replay
      /\ y.out = n.out
  BY <1>1 DEF Shaped, Fields, Tally
<1> HIDE DEF y
<1>4. Alike(y, x) /\ x.queue = y.queue
  BY <1>3 DEF Shaped, Fields, Alike
<1> HIDE DEF x
<1>5. Said(y, K) = S /\ Voted(y, C) = V /\ VotesOf(y) = VotesOf(n) /\ Elements(y.out) = Elements(n.out)
  BY <1>3 DEF Said, Voted, VotesOf
<1> HIDE DEF S, V
<1>6. NodeType(y)
  <2>1. n.seen \cup {m} \subseteq Messages
    BY <1>1, <1>2 DEF NodeType
  <2>2. y.prepares \subseteq BlockOrNil \X Validators /\ y.commits \subseteq BlockOrNil \X Validators
    BY <1>1, <1>2, <1>3 DEF NodeType
  <2> QED BY <1>1, <1>3, <2>1, <2>2 DEF NodeType
<1>7. Heard(y) \subseteq S /\ InPhase(y)
  BY <1>1, <1>2, <1>3 DEF Mine, Heard, InPhase
<1>8. Backed(y)
  <2>1. \A p \in y.seen : p.height = y.height
    BY <1>1, <1>3 DEF Mine, Backed
  <2>2. ASSUME NEW c \in BlockOrNil, NEW w \in Validators, <<c, w>> \in y.prepares
        PROVE  \E p \in y.seen : p.type = "PREPARE" /\ p.block = c /\ p.signer = w
    <3>1. CASE <<c, w>> \in n.prepares
      BY <1>1, <1>3, <3>1 DEF Mine, Backed
    <3>2. CASE m.type = "PREPARE" /\ c = m.block /\ w = m.signer
      BY <1>3, <3>2
    <3> QED BY <1>3, <2>2, <3>1, <3>2
  <2>3. ASSUME NEW c \in BlockOrNil, NEW w \in Validators, <<c, w>> \in y.commits
        PROVE  \E p \in y.seen : p.type = "COMMIT" /\ p.block = c /\ p.signer = w
    <3>1. CASE <<c, w>> \in n.commits
      BY <1>1, <1>3, <3>1 DEF Mine, Backed
    <3>2. CASE m.type = "COMMIT" /\ c = m.block /\ w = m.signer
      BY <1>3, <3>2
    <3> QED BY <1>3, <2>3, <3>1, <3>2
  <2> QED BY <2>1, <2>2, <2>3 DEF Backed
<1>9. NotYetSaid(v, y, S) /\ Bound(v, y, V) /\ ChainDecided(y, V)
  BY <1>1, <1>3 DEF Mine, NotYetSaid, Bound, ChainDecided
<1>10. Calm(n, y)
  BY <1>1, <1>3, <1>5 DEF Calm, Keeps, NodeType
<1>11. Sane(v, y, K, C)
  BY <1>1, <1>3, <1>5, <1>6, <1>7, <1>8, <1>9 DEF Sane, Mine, S, V
<1>12. y.queue \in 0 .. MaxQueue
  BY <1>6 DEF NodeType
<1>13. Sane(v, x, K, C)
  BY <1>4, <1>11, <1>12, AlikeSane
<1>14. Calm(n, x) /\ x.height = n.height
  BY <1>1, <1>3, <1>4, <1>10, <1>11, <1>13, CalmAlike DEF Alike
<1> QED BY <1>13, <1>14 DEF x, y

\* A message of a later height waits.
LEMMA BufferSane ==
    ASSUME NEW v \in Honest, NEW n, NEW K, NEW C, Sane(v, n, K, C), NEW m \in K
    PROVE  /\ Sane(v, [n EXCEPT !.future = Append(@, m)], K, C)
           /\ Calm(n, [n EXCEPT !.future = Append(@, m)])
<1> DEFINE S == Said(n, K)
           V == Voted(n, C)
           x == [n EXCEPT !.future = Append(@, m)]
<1>1. Shaped(n) /\ NodeType(n) /\ Common(S, V) /\ Mine(v, n, S, V)
  BY DEF Sane, Mine
<1>2. m \in S /\ m \in Messages
  BY <1>1 DEF Common, WellSigned, Said
<1>3. /\ Shaped(x) /\ x.height = n.height /\ x.round = n.round /\ x.ph = n.ph /\ x.proposal = n.proposal
      /\ x.locked = n.locked /\ x.lockedRound = n.lockedRound /\ x.seen = n.seen
      /\ x.faulty = n.faulty /\ x.prepares = n.prepares /\ x.commits = n.commits
      /\ x.queue = n.queue /\ x.chain = n.chain /\ x.future = Append(n.future, m)
      /\ x.replay = n.replay /\ x.out = n.out
  BY <1>1 DEF Shaped, Fields
<1> HIDE DEF x
<1>4. x.future \in Seq(Messages) /\ Elements(x.future) = Elements(n.future) \cup {m}
  <2>1. n.future \in Seq(Messages)
    BY <1>1 DEF NodeType
  <2> QED BY <1>2, <1>3, <2>1, AppendElements
<1>5. Said(x, K) = S /\ Voted(x, C) = V /\ VotesOf(x) = VotesOf(n) /\ Elements(x.out) = Elements(n.out)
  BY <1>3 DEF Said, Voted, VotesOf
<1> HIDE DEF S, V
<1>6. NodeType(x)
  BY <1>1, <1>3, <1>4 DEF NodeType
<1>7. Heard(x) \subseteq S /\ Backed(x) /\ InPhase(x)
  BY <1>1, <1>2, <1>3, <1>4 DEF Mine, Heard, Backed, InPhase
<1>8. NotYetSaid(v, x, S) /\ Bound(v, x, V) /\ ChainDecided(x, V)
  BY <1>1, <1>3 DEF Mine, NotYetSaid, Bound, ChainDecided
<1>9. Calm(n, x)
  BY <1>1, <1>3, <1>5 DEF Calm, Keeps, NodeType
<1> QED BY <1>1, <1>3, <1>5, <1>6, <1>7, <1>8, <1>9 DEF Sane, Mine, S, V, x

LEMMA DispatchSane ==
    ASSUME NEW v \in Honest, NEW n, NEW K, NEW C, Sane(v, n, K, C), n.height <= MaxHeight,
           NEW m \in K, NEW x \in Dispatch(v, n, m)
    PROVE  Sane(v, x, K, C) /\ Moved(v, n, x, C)
<1>1. m \in Said(n, K)
  BY DEF Said
<1>2. /\ m.type \in {"PROPOSAL", "PREPARE", "COMMIT", "ROUND_CHANGE"}
      /\ m.block \in BlockOrNil /\ m.round \in 0 .. MaxRound
  BY <1>1, ConsensusAssumption DEF Sane, Common, WellSigned, Messages, MsgTypes
<1>3. CASE m.type = "PROPOSAL"
  BY <1>3, OnProposalSane DEF Dispatch
<1>4. CASE m.type = "PREPARE"
  BY <1>2, <1>4, CheckPrepareQuorumSane DEF Dispatch
<1>5. CASE m.type = "COMMIT"
  BY <1>2, <1>5, CheckCommitQuorumSane DEF Dispatch
<1>6. CASE m.type = "ROUND_CHANGE"
  BY <1>2, <1>6, CheckRoundChangeQuorumSane, CalmIsMoved DEF Dispatch, OnRoundChange
<1> QED BY <1>2, <1>3, <1>4, <1>5, <1>6

LEMMA OnMessageSane ==
    ASSUME NEW v \in Honest, NEW n, NEW K, NEW C, Sane(v, n, K, C), n.height <= MaxHeight,
           NEW m \in K, NEW x \in OnMessage(v, n, m)
    PROVE  Sane(v, x, K, C) /\ Moved(v, n, x, C)
<1>1. NodeType(n) /\ Shaped(n) /\ n.height \in Nat
  BY DEF Sane, Mine, NodeType
<1>2. m.height \in Nat
  BY DEF Sane, Common, WellSigned, Messages, Said
<1>3. CASE x = n
  <2>1. Calm(n, x)
    BY <1>1, <1>3, AlikeCalm DEF Alike
  <2> QED BY <1>3, <2>1, CalmIsMoved
<1>4. CASE m.height > n.height
  <2>1. x = [n EXCEPT !.future = Append(@, m)]
    BY <1>1, <1>2, <1>4 DEF OnMessage
  <2> QED BY <2>1, BufferSane, CalmIsMoved
<1>5. CASE m.height = n.height /\ Equivocates(n, m)
  <2>1. x = Withdraw(n, m)
    BY <1>1, <1>5 DEF OnMessage
  <2> QED BY <1>5, <2>1, WithdrawSane, CalmIsMoved
<1>6. CASE m.height = n.height /\ ~Equivocates(n, m) /\ x # n
  <2> DEFINE y == [Tally(n, m) EXCEPT !.peerActivity = TRUE]
             z == ArmTimer(y)
  <2>1. x \in Dispatch(v, z, m)
    BY <1>1, <1>6 DEF OnMessage
  <2>2. Sane(v, y, K, C) /\ Calm(n, y) /\ y.height = n.height
    BY <1>6, TallySane
  <2> HIDE DEF y
  <2>3. Sane(v, z, K, C) /\ Alike(y, z)
    BY <2>2, ArmTimerSane
  <2>4. z.height = n.height /\ Calm(n, z)
    BY <1>1, <2>2, <2>3, CalmAlike DEF Alike
  <2> HIDE DEF z
  <2>5. Sane(v, x, K, C) /\ Moved(v, z, x, C)
    BY <2>1, <2>3, <2>4, DispatchSane
  <2>6. NodeType(z) /\ NodeType(x)
    BY <2>3, <2>5 DEF Sane, Mine
  <2> QED BY <1>1, <2>4, <2>5, <2>6, CalmMoved
<1>7. m.height < n.height => x = n
  BY DEF OnMessage
<1> QED BY <1>1, <1>2, <1>3, <1>4, <1>5, <1>6, <1>7

-----------------------------------------------------------------------------
(* The round timer, a submission, a new head.                              *)

\* The ROUND-CHANGE a validator signs carries its lock.
LEMMA AskRoundSane ==
    ASSUME NEW v \in Honest, NEW n, NEW K, NEW C, Sane(v, n, K, C), n.round + 1 <= MaxRound,
           NEW m, m = Message("ROUND_CHANGE", n.height, n.round + 1, n.locked,
                              IF n.locked = NoBlock THEN 0 ELSE n.lockedRound, v)
    PROVE  Sane(v, Send(RecordOwn(n, m), m), K, C) /\ Calm(n, Send(RecordOwn(n, m), m))
<1> DEFINE S == Said(n, K)
           V == Voted(n, C)
           y == RecordOwn(n, m)
           x == Send(y, m)
<1>1. Shaped(n) /\ NodeType(n) /\ Common(S, V) /\ Mine(v, n, S, V) /\ v \in Validators
  BY DEF Sane, Mine, Honest
<1>2. /\ m \in Messages /\ m.type = "ROUND_CHANGE" /\ m.height = n.height /\ m.round = n.round + 1
      /\ m.block = n.locked /\ m.signer = v
  <2>1. /\ n.height \in Nat /\ n.round + 1 \in Nat /\ n.locked \in BlockOrNil
        /\ (IF n.locked = NoBlock THEN 0 ELSE n.lockedRound) \in Nat
    <3>1. NodeType(n)
      BY <1>1
    <3> HIDE DEF S, V, x, y
    <3>2. /\ n.height \in Nat /\ n.round \in 0 .. MaxRound
          /\ n.locked \in Blocks \cup {NoBlock} /\ n.lockedRound \in Nat
      BY <3>1 DEF NodeType
    <3>3. n.round + 1 \in Nat
      BY <3>2, ConsensusAssumption
    <3>4. n.locked \in BlockOrNil
      BY <3>2 DEF BlockOrNil
    <3> QED BY <3>2, <3>3, <3>4
  <2>2. "ROUND_CHANGE" \in MsgTypes
    BY DEF MsgTypes
  <2> DEFINE lr == IF n.locked = NoBlock THEN 0 ELSE n.lockedRound
  <2>3. lr \in Nat
    BY <2>1
  <2> HIDE DEF lr
  <2>4. m = Message("ROUND_CHANGE", n.height, n.round + 1, n.locked, lr, v)
    BY DEF lr
  <2> QED BY <1>1, <2>1, <2>2, <2>3, <2>4, MessageFields
<1>3. WellSigned(m) /\ ~IsVote(m) /\ ~IsStale(m)
  <2>1. n.locked # StaleBlock
    BY <1>1, ConsensusAssumption DEF NodeType
  <2> QED BY <1>1, <1>2, <2>1 DEF WellSigned, IsVote, IsStale
<1>4. ~Equivocates(n, m) /\ (y = Tally(n, m) \/ y = n)
  BY <1>2 DEF Equivocates, RecordOwn
<1>5. /\ Shaped(y) /\ y.height = n.height /\ y.round = n.round /\ y.ph = n.ph /\ y.proposal = n.proposal
      /\ y.locked = n.locked /\ y.lockedRound = n.lockedRound
      /\ n.seen \subseteq y.seen /\ y.seen \subseteq n.seen \cup {m}
      /\ y.faulty = n.faulty /\ y.prepares = n.prepares /\ y.commits = n.commits
      /\ y.queue = n.queue /\ y.chain = n.chain /\ y.future = n.future /\ y.replay = n.replay
      /\ y.out = n.out
  <2> HIDE DEF y
  <2>1. CASE y = Tally(n, m)
    BY <1>1, <1>2, <2>1 DEF Shaped, Fields, Tally
  <2> QED BY <1>1, <1>4, <2>1
<1> HIDE DEF y
<1>6. /\ Shaped(x) /\ x.height = y.height /\ x.round = y.round /\ x.ph = y.ph /\ x.proposal = y.proposal
      /\ x.locked = y.locked /\ x.lockedRound = y.lockedRound /\ x.seen = y.seen
      /\ x.faulty = y.faulty /\ x.prepares = y.prepares /\ x.commits = y.commits
      /\ x.queue = y.queue /\ x.chain = y.chain /\ x.future = y.future /\ x.replay = y.replay
      /\ x.out = Append(y.out, m)
  BY <1>5 DEF Shaped, Fields, Send
<1> HIDE DEF x
<1>7. x.out \in Seq(Messages) /\ Elements(x.out) = Elements(n.out) \cup {m}
  <2>1. n.out \in Seq(Messages) /\ x.out = Append(n.out, m)
    BY <1>1, <1>5, <1>6 DEF NodeType
  <2> QED BY <1>2, <2>1, AppendElements
<1>8. Said(x, K) = S \cup {m} /\ VotesOf(x) = VotesOf(n) /\ Voted(x, C) = V
  BY <1>2, <1>7 DEF Said, VotesOf, Voted
<1> HIDE DEF S, V
<1>9. Common(S \cup {m}, V)
  <2>1. /\ \A p \in S \cup {m} : WellSigned(p) /\ (IsVote(p) => p \in V)
        /\ \A p \in V : WellSigned(p) /\ IsVote(p) /\ p.height \in 1 .. MaxHeight
    BY <1>1, <1>3 DEF Common
  <2>2. SignedOnce(S \cup {m}, V)
    BY <1>1, <1>2 DEF Common, SignedOnce
  <2>3. \A h : Stalers(S \cup {m}, h) = Stalers(S, h)
    BY <1>3 DEF Stalers
  <2>4. \A s \in S \cup {m} : IsStale(s) => s \in S
    BY <1>3
  <2>5. ASSUME NEW s \in S \cup {m}, IsStale(s)
        PROVE  \E Q \in Quorums :
                  /\ Q \cap Stalers(S \cup {m}, s.height) = {}
                  /\ \A w \in Q \cap Honest : \E p \in V : p.signer = w /\ p.height = s.height
    <3>1. PICK Q \in Quorums :
              /\ Q \cap Stalers(S, s.height) = {}
              /\ \A w \in Q \cap Honest : \E p \in V : p.signer = w /\ p.height = s.height
      BY <1>1, <2>4, <2>5 DEF Common, Outvoted
    <3>2. Q \cap Stalers(S \cup {m}, s.height) = {}
      BY <2>3, <3>1
    <3> QED BY <3>1, <3>2
  <2>6. Outvoted(S \cup {m}, V)
    BY <2>5 DEF Outvoted
  <2> QED BY <2>1, <2>2, <2>6 DEF Common
<1>10. NodeType(x)
  <2>1. x.seen \subseteq Messages
    BY <1>1, <1>2, <1>5, <1>6 DEF NodeType
  <2> QED BY <1>1, <1>5, <1>6, <1>7, <2>1 DEF NodeType
<1>11. Heard(x) \subseteq S \cup {m} /\ InPhase(x)
  BY <1>1, <1>5, <1>6 DEF Mine, Heard, InPhase
<1>12. Backed(x)
  BY <1>1, <1>2, <1>5, <1>6 DEF Mine, Backed
<1>13. NotYetSaid(v, x, S \cup {m})
  BY <1>1, <1>2, <1>5, <1>6 DEF Mine, NotYetSaid
<1>14. Bound(v, x, V) /\ ChainDecided(x, V)
  BY <1>1, <1>5, <1>6 DEF Mine, Bound, ChainDecided
<1>15. \A p \in Elements(x.out) : p.signer = v
  BY <1>2, <1>7 DEF Sane
<1>16. Calm(n, x)
  BY <1>1, <1>5, <1>6, <1>8 DEF Calm, Keeps, NodeType
<1> QED
  BY <1>6, <1>8, <1>9, <1>10, <1>11, <1>12, <1>13, <1>14, <1>15, <1>16 DEF Sane, Mine, x, y

LEMMA OnRoundTimeoutSane ==
    ASSUME NEW v \in Honest, NEW n, NEW K, NEW C, Sane(v, n, K, C), n.round < MaxRound,
           NEW x \in OnRoundTimeout(v, n)
    PROVE  Sane(v, x, K, C) /\ Calm(n, x)
<1> DEFINE m == Message("ROUND_CHANGE", n.height, n.round + 1, n.locked,
                        IF n.locked = NoBlock THEN 0 ELSE n.lockedRound, v)
           y == Send(RecordOwn(n, m), m)
           z == ArmTimer(y)
<1>1. NodeType(n) /\ n.round + 1 \in 0 .. MaxRound /\ n.round + 1 <= MaxRound
  <2>1. NodeType(n)
    BY DEF Sane, Mine
  <2> QED BY <2>1, ConsensusAssumption DEF NodeType
<1>2. x \in CheckRoundChangeQuorum(v, z, n.round + 1)
  BY DEF OnRoundTimeout
<1>3. Sane(v, y, K, C) /\ Calm(n, y)
  BY <1>1, AskRoundSane
<1> HIDE DEF y
<1>4. Sane(v, z, K, C) /\ Alike(y, z)
  BY <1>3, ArmTimerSane
<1> HIDE DEF z
<1>5. Calm(n, z)
  BY <1>1, <1>3, <1>4, CalmAlike
<1>6. Sane(v, x, K, C) /\ Calm(z, x)
  BY <1>1, <1>2, <1>4, CheckRoundChangeQuorumSane
<1>7. NodeType(z) /\ NodeType(x)
  BY <1>4, <1>6 DEF Sane, Mine
<1> QED BY <1>1, <1>5, <1>6, <1>7, CalmCalm

LEMMA OnSubmitSane ==
    ASSUME NEW v \in Honest, NEW n, NEW K, NEW C, Sane(v, n, K, C), n.height <= MaxHeight,
           n.queue < MaxQueue, NEW x \in OnSubmit(v, n)
    PROVE  Sane(v, x, K, C) /\ Moved(v, n, x, C)
<1> DEFINE y == [n EXCEPT !.queue = @ + 1]
           z == ArmTimerIfWorkPending(y)
<1>1. NodeType(n) /\ Shaped(n) /\ n.queue + 1 \in 0 .. MaxQueue /\ n.height \in Nat
  <2>1. Shaped(n) /\ NodeType(n)
    BY DEF Sane, Mine
  <2>2. n.queue \in 0 .. MaxQueue /\ n.height \in Nat
    BY <2>1 DEF NodeType
  <2>3. n.queue + 1 \in 0 .. MaxQueue
    BY <2>2, ConsensusAssumption
  <2> QED BY <2>1, <2>2, <2>3
<1>2. PICK p \in MaybePropose(v, z) :
          x = p \/ \E c \in CheckPrepareQuorum(v, p, p.proposal) : x = ArmTimer(c)
  BY DEF OnSubmit
<1>3. Alike(n, y) /\ y.queue = n.queue + 1
  BY <1>1 DEF Shaped, Fields, Alike
<1> HIDE DEF y
<1>4. Sane(v, y, K, C)
  BY <1>1, <1>3, AlikeSane
<1>5. Sane(v, z, K, C) /\ Alike(y, z)
  BY <1>4, ArmTimerSane
<1> HIDE DEF z
<1>6. Sane(v, p, K, C) /\ Calm(z, p) /\ p.height = n.height
  BY <1>3, <1>5, MaybeProposeSane DEF Alike
<1>7. NodeType(y) /\ NodeType(z) /\ NodeType(p)
  BY <1>4, <1>5, <1>6 DEF Sane, Mine
<1>8. Calm(n, p)
  BY <1>1, <1>3, <1>5, <1>6, <1>7, AlikeCalm, CalmCalm
<1>9. CASE x = p
  BY <1>6, <1>8, <1>9, CalmIsMoved
<1>10. ASSUME NEW c \in CheckPrepareQuorum(v, p, p.proposal), x = ArmTimer(c)
       PROVE  Sane(v, x, K, C) /\ Moved(v, n, x, C)
  <2>1. p.height <= MaxHeight /\ p.proposal \in BlockOrNil
    BY <1>6, <1>7 DEF NodeType
  <2>2. Sane(v, c, K, C) /\ Moved(v, p, c, C)
    BY <1>6, <1>10, <2>1, CheckPrepareQuorumSane
  <2>3. Sane(v, x, K, C) /\ Alike(c, x)
    BY <1>10, <2>2, ArmTimerSane
  <2>4. NodeType(c) /\ NodeType(x)
    BY <2>2, <2>3 DEF Sane, Mine
  <2> QED BY <1>1, <1>7, <1>8, <2>2, <2>3, <2>4, AlikeCalm, MovedCalm, CalmMoved
<1> QED BY <1>2, <1>9, <1>10

-----------------------------------------------------------------------------
(* Events.                                                                 *)

LEMMA CommonOfLess ==
    ASSUME NEW S, NEW T, NEW V, S \subseteq T, Common(T, V)
    PROVE  Common(S, V)
<1>1. /\ \A m \in S : WellSigned(m) /\ (IsVote(m) => m \in V)
      /\ \A m \in V : WellSigned(m) /\ IsVote(m) /\ m.height \in 1 .. MaxHeight
      /\ SignedOnce(S, V)
  BY DEF Common, SignedOnce
<1>2. ASSUME NEW s \in S, IsStale(s)
      PROVE  \E Q \in Quorums :
                /\ Q \cap Stalers(S, s.height) = {}
                /\ \A w \in Q \cap Honest : \E m \in V : m.signer = w /\ m.height = s.height
  <2>1. PICK Q \in Quorums :
            /\ Q \cap Stalers(T, s.height) = {}
            /\ \A w \in Q \cap Honest : \E m \in V : m.signer = w /\ m.height = s.height
    BY <1>2 DEF Common, Outvoted
  <2>2. Stalers(S, s.height) \subseteq Stalers(T, s.height)
    BY DEF Stalers
  <2> QED BY <2>1, <2>2
<1> QED BY <1>1, <1>2 DEF Common, Outvoted

\* What a link holds after an event was there before it or has been signed
\* in it.
LEMMA LinksElements ==
    ASSUME link \in [Honest \X Honest -> Seq(Messages)],
           NEW v \in Honest, NEW n, n.out \in Seq(Messages), NEW taken \in [Honest \X Honest -> Nat],
           NEW p \in Honest \X Honest
    PROVE  /\ Links(v, n, taken)[p] \in Seq(Messages)
           /\ Elements(Links(v, n, taken)[p]) \subseteq Elements(link[p]) \cup Elements(n.out)
<1> DEFINE fresh == Elements(n.out) \ Elements(link[p])
           new == Those(n.out, fresh)
           sent == IF p[1] = v /\ p[2] # v THEN link[p] \o new ELSE link[p]
           to == IF p[2] = v THEN n ELSE node[p[2]]
           left == SubSeq(sent, taken[p] + 1, Len(sent))
           kept == {m \in Elements(left) : ~Ignored(to, m)}
<1>1. Links(v, n, taken)[p] = IF v \notin {p[1], p[2]} THEN link[p] ELSE Those(left, kept)
  BY DEF Links
<1>2. new \in Seq(Messages) /\ Elements(new) \subseteq Elements(n.out)
  BY ThoseElements
<1>3. link[p] \in Seq(Messages)
  OBVIOUS
<1> HIDE DEF new
<1>4. sent \in Seq(Messages) /\ Elements(sent) \subseteq Elements(link[p]) \cup Elements(n.out)
  <2> DEFINE q == link[p]
  <2>1. q \in Seq(Messages)
    BY <1>3
  <2> HIDE DEF q
  <2>2. /\ q \o new \in Seq(Messages) /\ Len(q \o new) = Len(q) + Len(new)
        /\ \A i \in 1 .. Len(q) : (q \o new)[i] = q[i]
        /\ \A i \in Len(q) + 1 .. Len(q) + Len(new) : (q \o new)[i] = new[i - Len(q)]
    BY <1>2, <2>1
  <2>3. Len(q) \in Nat /\ Len(new) \in Nat
    BY <1>2, <2>1
  <2>4. ASSUME NEW i \in 1 .. Len(q \o new) PROVE (q \o new)[i] \in Elements(q) \cup Elements(new)
    <3>1. CASE i \in 1 .. Len(q)
      BY <2>2, <3>1 DEF Elements
    <3>2. CASE i \in Len(q) + 1 .. Len(q) + Len(new)
      <4>1. i - Len(q) \in 1 .. Len(new)
        BY <2>3, <3>2
      <4> QED BY <2>2, <3>2, <4>1 DEF Elements
    <3> QED BY <2>2, <2>3, <3>1, <3>2
  <2>5. Elements(q \o new) \subseteq Elements(q) \cup Elements(new)
    BY <2>4 DEF Elements
  <2> QED BY <1>2, <2>1, <2>2, <2>5 DEF q
<1> HIDE DEF sent
<1>5. left \in Seq(Messages) /\ Elements(left) \subseteq Elements(sent)
  <2> DEFINE k == taken[p]
  <2>1. k \in Nat
    OBVIOUS
  <2> HIDE DEF k
  <2>2. Len(sent) \in Nat
    BY <1>4
  <2>3. /\ SubSeq(sent, k + 1, Len(sent)) \in Seq(Messages)
        /\ \A i \in 1 .. Len(SubSeq(sent, k + 1, Len(sent))) :
              /\ i + k \in 1 .. Len(sent)
              /\ SubSeq(sent, k + 1, Len(sent))[i] = sent[i + k]
    BY <1>4, <2>1, <2>2
  <2> QED BY <2>3 DEF Elements, k
<1> HIDE DEF left
<1>6. Those(left, kept) \in Seq(Messages) /\ Elements(Those(left, kept)) \subseteq Elements(left)
  BY <1>5, ThoseElements
<1> QED BY <1>1, <1>3, <1>4, <1>5, <1>6

\* The record an event leaves, with what it signed sent.
Published(n) == [n EXCEPT !.out = <<>>, !.synced = IF n.replay = <<>> THEN Current(n) ELSE @]

LEMMA PublishedFields ==
    ASSUME NEW n, Shaped(n)
    PROVE  /\ Shaped(Published(n)) /\ Published(n).height = n.height /\ Published(n).round = n.round
           /\ Published(n).ph = n.ph /\ Published(n).proposal = n.proposal
           /\ Published(n).locked = n.locked /\ Published(n).lockedRound = n.lockedRound
           /\ Published(n).seen = n.seen /\ Published(n).faulty = n.faulty
           /\ Published(n).prepares = n.prepares /\ Published(n).commits = n.commits
           /\ Published(n).queue = n.queue /\ Published(n).chain = n.chain
           /\ Published(n).future = n.future /\ Published(n).replay = n.replay
           /\ Published(n).out = <<>> /\ Heard(Published(n)) = Heard(n)
BY DEF Shaped, Fields, Published, Heard

LEMMA PublishedSane ==
    ASSUME NEW v, NEW n, NEW K, NEW C, Sane(v, n, K, C),
           NEW S, Heard(n) \subseteq S, S \subseteq Said(n, K)
    PROVE  Sane(v, Published(n), S, Voted(n, C))
<1> DEFINE V == Voted(n, C)
           x == Published(n)
<1>1. Shaped(n) /\ NodeType(n) /\ Common(Said(n, K), V) /\ Mine(v, n, Said(n, K), V)
  BY DEF Sane, Mine
<1>2. /\ Shaped(x) /\ x.height = n.height /\ x.round = n.round /\ x.ph = n.ph /\ x.proposal = n.proposal
      /\ x.locked = n.locked /\ x.lockedRound = n.lockedRound /\ x.seen = n.seen
      /\ x.faulty = n.faulty /\ x.prepares = n.prepares /\ x.commits = n.commits
      /\ x.queue = n.queue /\ x.chain = n.chain /\ x.future = n.future /\ x.replay = n.replay
      /\ x.out = <<>> /\ Heard(x) = Heard(n)
  BY <1>1, PublishedFields
<1> HIDE DEF x
<1>3. x.out \in Seq(Messages) /\ Elements(x.out) = {}
  BY <1>2 DEF Elements
<1>4. Said(x, S) = S /\ Voted(x, V) = V
  BY <1>3 DEF Said, Voted, VotesOf
<1> HIDE DEF V
<1>5. Common(S, V)
  BY <1>1, CommonOfLess
<1>6. NodeType(x) /\ Heard(x) = Heard(n) /\ Backed(x) /\ InPhase(x) /\ Bound(v, x, V) /\ ChainDecided(x, V)
  BY <1>1, <1>2, <1>3 DEF Mine, NodeType, Backed, InPhase, Bound, ChainDecided
<1>7. NotYetSaid(v, x, S)
  BY <1>1, <1>2 DEF Mine, NotYetSaid
<1> QED BY <1>2, <1>3, <1>4, <1>5, <1>6, <1>7 DEF Sane, Mine, V, x

\* Nothing that another one does disturbs a validator.
LEMMA OthersSane ==
    ASSUME NEW w, NEW n, NEW K, NEW C, Sane(w, n, K, C), n.out = <<>>,
           NEW S, NEW V, Common(S, V), Heard(n) \subseteq S, C \subseteq V,
           \A m \in S : m \in K \/ m.signer # w,
           \A m \in V : m \in C \/ m.signer # w
    PROVE  Sane(w, n, S, V)
<1>1. Elements(n.out) = {} /\ Said(n, K) = K /\ Voted(n, C) = C /\ Said(n, S) = S /\ Voted(n, V) = V
  BY DEF Elements, Said, Voted, VotesOf
<1>2. Mine(w, n, K, C)
  BY <1>1 DEF Sane
<1>3. NotYetSaid(w, n, S) /\ Bound(w, n, V)
  BY <1>2 DEF Mine, NotYetSaid, Bound
<1>4. ChainDecided(n, V)
  BY <1>2, DecidedMonotone DEF Mine, ChainDecided
<1> QED BY <1>1, <1>2, <1>3, <1>4 DEF Sane, Mine

\* What an event may change: one validator moves, and casts one vote at
\* most.
Advance(v) ==
    /\ node' = [node EXCEPT ![v] = node'[v]]
    /\ Keeps(node[v], node'[v]) /\ Extended(node[v], node'[v], cast')
    /\ cast' = cast \/ \E h \in 1 .. MaxHeight, b \in Blocks : cast' = cast \cup {VoteFor(v, h, b)}

LEMMA PoolSane ==
    ASSUME Inv, NEW v \in Honest
    PROVE  /\ Sane(v, node[v], Pool, cast) /\ node[v].out = <<>> /\ VotesOf(node[v]) = {}
           /\ NodeType(node[v]) /\ Shaped(node[v])
           /\ Common(Pool, cast) /\ Mine(v, node[v], Pool, cast)
<1>1. Sane(v, node[v], Pool, cast) /\ node[v].out = <<>>
  BY DEF Inv
<1>2. Elements(node[v].out) = {}
  BY <1>1 DEF Elements
<1>3. VotesOf(node[v]) = {} /\ Said(node[v], Pool) = Pool /\ Voted(node[v], cast) = cast
  BY <1>2 DEF VotesOf, Said, Voted
<1> QED BY <1>1, <1>3 DEF Sane, Mine

LEMMA ElementsUnion ==
    ASSUME NEW D, NEW f
    PROVE  /\ \A p \in D : Elements(f[p]) \subseteq UNION {Elements(f[q]) : q \in D}
           /\ \A m \in UNION {Elements(f[q]) : q \in D} : \E p \in D : m \in Elements(f[p])
OBVIOUS

LEMMA InPool ==
    /\ \A v \in Honest : Heard(node[v]) \subseteq Pool
    /\ \A p \in Honest \X Honest : Elements(link[p]) \subseteq Pool
<1>1. \A p \in Honest \X Honest : Elements(link[p]) \subseteq InFlight
  BY ElementsUnion DEF InFlight
<1>2. InFlight \subseteq Pool
  BY DEF Pool
<1>3. \A v \in Honest : Heard(node[v]) \subseteq Pool
  BY DEF Pool
<1> QED BY <1>1, <1>2, <1>3

\* Only a Byzantine validator brings in a message that nobody knew of.
LEMMA StepInv ==
    ASSUME Inv, NEW v \in Honest, NEW K, Pool \subseteq K, \A m \in K : m \in Pool \/ m.signer \notin Honest,
           NEW n, Sane(v, n, K, cast), NEW taken \in [Honest \X Honest -> Nat], Step(v, n, taken),
           restarts' \in Nat
    PROVE  Inv'
<1> DEFINE x == Published(n)
           S == Pool'
           V == Voted(n, cast)
<1>1. /\ node' = [node EXCEPT ![v] = x] /\ link' = Links(v, n, taken) /\ cast' = V
      /\ node = [w \in Honest |-> node[w]]
      /\ link \in [Honest \X Honest -> Seq(Messages)]
  BY DEF Step, Voted, VotesOf, Inv, Published
<1>2. Heard(x) = Heard(n) /\ x.out = <<>>
  BY PublishedFields DEF Sane, Mine
<1>3. n.out \in Seq(Messages) /\ Heard(n) \subseteq Said(n, K)
  BY DEF Sane, Mine, NodeType
<1> HIDE DEF x
<1>4. node'[v] = x /\ (\A w \in Honest \ {v} : node'[w] = node[w]) /\ node' = [w \in Honest |-> node'[w]]
  BY <1>1
<1>5. /\ link' \in [Honest \X Honest -> Seq(Messages)]
      /\ \A p \in Honest \X Honest : Elements(link'[p]) \subseteq Elements(link[p]) \cup Elements(n.out)
  <2>1. \A p \in Honest \X Honest :
           /\ Links(v, n, taken)[p] \in Seq(Messages)
           /\ Elements(Links(v, n, taken)[p]) \subseteq Elements(link[p]) \cup Elements(n.out)
    BY <1>1, <1>3, LinksElements
  <2>2. Links(v, n, taken) = [p \in Honest \X Honest |-> Links(v, n, taken)[p]]
    BY DEF Links
  <2> QED BY <1>1, <2>1, <2>2
<1>6. S = (UNION {Heard(node'[w]) : w \in Honest}) \cup InFlight'
  BY DEF Pool
<1> HIDE DEF S, V
<1>7. \A w \in Honest : Heard(node'[w]) \subseteq S
  BY <1>6
<1>8. S \subseteq Said(n, K)
  <2>1. ASSUME NEW w \in Honest, NEW m \in Heard(node'[w]) PROVE m \in Said(n, K)
    <3>1. CASE w = v
      BY <1>2, <1>3, <1>4, <2>1, <3>1
    <3>2. CASE w # v
      BY <1>4, <2>1, <3>2, InPool DEF Said
    <3> QED BY <3>1, <3>2
  <2>2. ASSUME NEW p \in Honest \X Honest, NEW m \in Elements(link'[p]) PROVE m \in Said(n, K)
    <3>1. m \in Elements(link[p]) \/ m \in Elements(n.out)
      BY <1>5, <2>2
    <3> QED BY <3>1, InPool DEF Said
  <2>3. ASSUME NEW m \in S PROVE m \in Said(n, K)
    <3>1. m \in InFlight' => \E p \in Honest \X Honest : m \in Elements(link'[p])
      BY ElementsUnion DEF InFlight
    <3>2. (\E w \in Honest : m \in Heard(node'[w])) \/ m \in InFlight'
      BY <1>6, <2>3
    <3> QED BY <2>1, <2>2, <3>1, <3>2
  <2> QED BY <2>3
<1>9. Sane(v, x, S, V)
  <2>1. Heard(n) \subseteq S
    BY <1>2, <1>4, <1>7
  <2> QED BY <1>8, <2>1, PublishedSane DEF x, V
<1>10. Common(S, V)
  <2>1. Said(x, S) = S /\ Voted(x, V) = V
    BY <1>2 DEF Said, Voted, VotesOf, Elements
  <2> QED BY <1>9, <2>1 DEF Sane
<1>11. ASSUME NEW w \in Honest \ {v} PROVE Sane(w, node[w], S, V) /\ node[w].out = <<>>
  <2>1. Sane(w, node[w], Pool, cast) /\ node[w].out = <<>>
    BY DEF Inv
  <2>2. Heard(node[w]) \subseteq S
    BY <1>4, <1>7
  <2>3. \A m \in Elements(n.out) : m.signer = v
    BY DEF Sane
  <2>4. cast \subseteq V /\ \A m \in V : m \in cast \/ m.signer # w
    BY <2>3 DEF V, Voted, VotesOf
  <2>5. \A m \in S : m \in Pool \/ m.signer # w
    BY <1>8, <2>3 DEF Said
  <2> QED BY <1>10, <2>1, <2>2, <2>4, <2>5, OthersSane
<1>12. \A w \in Honest : Sane(w, node'[w], S, cast') /\ node'[w].out = <<>>
  BY <1>1, <1>2, <1>4, <1>9, <1>11
<1>13. \A w \in Honest : Sane(w, node'[w], Pool', cast') /\ node'[w].out = <<>>
  BY <1>12 DEF S
<1>14. Common(Pool', cast')
  BY <1>1, <1>10 DEF S
<1> QED BY <1>4, <1>5, <1>13, <1>14 DEF Inv

LEMMA StepAdvance ==
    ASSUME Inv, NEW v \in Honest, NEW n, Moved(v, node[v], n, cast), Shaped(n),
           NEW taken, Step(v, n, taken)
    PROVE  Advance(v)
<1> DEFINE x == Published(n)
<1>1. node' = [node EXCEPT ![v] = x] /\ cast' = Voted(n, cast) /\ node = [w \in Honest |-> node[w]]
  BY DEF Step, Voted, VotesOf, Inv, Published
<1>2. x.height = n.height /\ x.locked = n.locked /\ x.chain = n.chain
  BY PublishedFields
<1> HIDE DEF x
<1>3. node'[v] = x
  BY <1>1
<1>4. VotesOf(node[v]) = {}
  BY PoolSane
<1>5. Keeps(node[v], x) /\ Extended(node[v], x, cast')
  BY <1>1, <1>2 DEF Moved, Keeps, Extended
<1>6. cast' = cast \/ \E h \in 1 .. MaxHeight, b \in Blocks : cast' = cast \cup {VoteFor(v, h, b)}
  BY <1>1, <1>4 DEF Moved, VotesCast, Voted
<1> QED BY <1>1, <1>3, <1>5, <1>6 DEF Advance

LEMMA EventInv ==
    ASSUME Inv, NEW v \in Honest, NEW K, Pool \subseteq K, \A m \in K : m \in Pool \/ m.signer \notin Honest,
           NEW n, Sane(v, n, K, cast), Moved(v, node[v], n, cast),
           NEW taken \in [Honest \X Honest -> Nat], Step(v, n, taken), UNCHANGED restarts
    PROVE  Inv' /\ Advance(v)
<1>1. restarts' \in Nat /\ Shaped(n)
  BY DEF Inv, Sane, Mine
<1> QED BY <1>1, StepInv, StepAdvance

LEMMA SubmitInv ==
    ASSUME Inv, NEW v \in Honest, Submit(v)
    PROVE  Inv' /\ Advance(v)
<1>1. PICK n \in OnSubmit(v, node[v]) : Step(v, n, Untouched)
  BY DEF Submit
<1>2. Sane(v, n, Pool, cast) /\ Moved(v, node[v], n, cast)
  BY PoolSane, OnSubmitSane DEF Submit, Ready
<1>3. Untouched \in [Honest \X Honest -> Nat]
  BY DEF Untouched
<1> QED BY <1>1, <1>2, <1>3, EventInv DEF Submit

LEMMA DeliverInv ==
    ASSUME Inv, NEW u \in Honest, NEW v \in Honest, Deliver(u, v)
    PROVE  Inv' /\ Advance(v)
<1> DEFINE q == link[<<u, v>>]
           taken == [Untouched EXCEPT ![<<u, v>>] = 1]
<1>1. PICK n \in OnMessage(v, node[v], Head(q)) : Step(v, n, taken)
  BY DEF Deliver
<1>2. q \in Seq(Messages) /\ q # <<>>
  BY DEF Inv, Deliver
<1>3. Head(q) \in Pool
  <2>1. Head(q) = q[1] /\ 1 \in 1 .. Len(q)
    <3> HIDE DEF q
    <3> QED BY <1>2
  <2>2. Head(q) \in Elements(q)
    BY <2>1 DEF Elements
  <2> QED BY <2>2, InPool
<1>4. taken \in [Honest \X Honest -> Nat]
  BY DEF Untouched
<1>5. Sane(v, n, Pool, cast) /\ Moved(v, node[v], n, cast)
  <2> HIDE DEF q, taken
  <2> QED BY <1>1, <1>3, PoolSane, OnMessageSane DEF Deliver, Ready
<1> HIDE DEF taken
<1> QED BY <1>1, <1>4, <1>5, EventInv DEF Deliver

LEMMA RoundTimeoutInv ==
    ASSUME Inv, NEW v \in Honest, RoundTimeout(v)
    PROVE  Inv' /\ Advance(v)
<1>1. PICK n \in OnRoundTimeout(v, node[v]) : Step(v, n, Untouched)
  BY DEF RoundTimeout
<1>2. Sane(v, n, Pool, cast) /\ Moved(v, node[v], n, cast)
  BY PoolSane, OnRoundTimeoutSane, CalmIsMoved DEF RoundTimeout
<1>3. Untouched \in [Honest \X Honest -> Nat]
  BY DEF Untouched
<1> QED BY <1>1, <1>2, <1>3, EventInv DEF RoundTimeout

LEMMA HeadMovedInv ==
    ASSUME Inv, NEW v \in Honest, HeadMoved(v)
    PROVE  Inv' /\ Advance(v)
<1>1. PICK h \in node[v].height .. Len(node[v].chain) :
          \E n \in OnHeadMoved(v, node[v], h) : Step(v, n, Untouched)
  BY DEF HeadMoved
<1>2. PICK n \in OnHeadMoved(v, node[v], h) : Step(v, n, Untouched)
  BY <1>1
<1>3. /\ node[v].height \in Nat /\ Len(node[v].chain) \in Nat
      /\ h + 1 \in Nat /\ h + 1 > node[v].height /\ h + 1 <= Len(node[v].chain) + 1
  <2>1. node[v].height \in Nat /\ node[v].chain \in Seq(Blocks)
    BY PoolSane DEF NodeType
  <2> QED BY <2>1
<1>4. Sane(v, n, Pool, cast) /\ Calm(node[v], n)
  BY <1>2, <1>3, PoolSane, NextHeightSane DEF OnHeadMoved
<1>5. Untouched \in [Honest \X Honest -> Nat]
  BY DEF Untouched
<1> QED BY <1>2, <1>4, <1>5, CalmIsMoved, EventInv DEF HeadMoved

LEMMA HeadTail ==
    ASSUME NEW q \in Seq(Messages), q # <<>>
    PROVE  Head(q) \in Elements(q) /\ Tail(q) \in Seq(Messages) /\ Elements(Tail(q)) \subseteq Elements(q)
<1>1. Head(q) = q[1] /\ 1 \in 1 .. Len(q)
  OBVIOUS
<1>2. /\ Tail(q) \in Seq(Messages) /\ Len(Tail(q)) = Len(q) - 1 /\ Len(q) \in Nat
      /\ \A i \in 1 .. Len(q) - 1 : Tail(q)[i] = q[i + 1] /\ i + 1 \in 1 .. Len(q)
  OBVIOUS
<1> QED BY <1>1, <1>2 DEF Elements

\* One message less to replay.
LEMMA ReplayedSane ==
    ASSUME NEW v, NEW n, NEW K, NEW C, Sane(v, n, K, C), n.replay # <<>>
    PROVE  /\ Sane(v, [n EXCEPT !.replay = Tail(@)], K, C)
           /\ Calm(n, [n EXCEPT !.replay = Tail(@)])
           /\ [n EXCEPT !.replay = Tail(@)].height = n.height
<1> DEFINE S == Said(n, K)
           V == Voted(n, C)
           x == [n EXCEPT !.replay = Tail(@)]
<1>1. Shaped(n) /\ NodeType(n) /\ Common(S, V) /\ Mine(v, n, S, V)
  BY DEF Sane, Mine
<1>2. /\ Shaped(x) /\ x.height = n.height /\ x.round = n.round /\ x.ph = n.ph /\ x.proposal = n.proposal
      /\ x.locked = n.locked /\ x.lockedRound = n.lockedRound /\ x.seen = n.seen
      /\ x.faulty = n.faulty /\ x.prepares = n.prepares /\ x.commits = n.commits
      /\ x.queue = n.queue /\ x.chain = n.chain /\ x.future = n.future /\ x.replay = Tail(n.replay)
      /\ x.out = n.out
  BY <1>1 DEF Shaped, Fields
<1> HIDE DEF x
<1>3. x.replay \in Seq(Messages) /\ Elements(x.replay) \subseteq Elements(n.replay)
  <2>1. n.replay \in Seq(Messages)
    BY <1>1 DEF NodeType
  <2> QED BY <1>2, <2>1, HeadTail
<1>4. Said(x, K) = S /\ Voted(x, C) = V /\ VotesOf(x) = VotesOf(n) /\ Elements(x.out) = Elements(n.out)
  BY <1>2 DEF Said, Voted, VotesOf
<1> HIDE DEF S, V
<1>5. NodeType(x)
  BY <1>1, <1>2, <1>3 DEF NodeType
<1>6. Heard(x) \subseteq S /\ Backed(x) /\ InPhase(x)
  BY <1>1, <1>2, <1>3 DEF Mine, Heard, Backed, InPhase
<1>7. NotYetSaid(v, x, S) /\ Bound(v, x, V) /\ ChainDecided(x, V)
  BY <1>1, <1>2 DEF Mine, NotYetSaid, Bound, ChainDecided
<1>8. Calm(n, x)
  BY <1>1, <1>2, <1>4 DEF Calm, Keeps, NodeType
<1> QED BY <1>1, <1>2, <1>4, <1>5, <1>6, <1>7, <1>8 DEF Sane, Mine, S, V, x

LEMMA ReplayInv ==
    ASSUME Inv, NEW v \in Honest, Replay(v)
    PROVE  Inv' /\ Advance(v)
<1> DEFINE o == node[v]
           n == [o EXCEPT !.replay = Tail(@)]
           m == Head(o.replay)
<1>1. PICK x \in OnMessage(v, n, m) :
          IF x.height = n.height /\ x.replay = <<>>
            THEN \E y \in Settle(v, x) : Step(v, y, Untouched)
            ELSE Step(v, x, Untouched)
  BY DEF Replay
<1>2. Sane(v, o, Pool, cast) /\ NodeType(o) /\ o.replay # <<>> /\ o.height <= MaxHeight
  BY PoolSane DEF Replay
<1>3. Sane(v, n, Pool, cast) /\ Calm(o, n) /\ n.height = o.height
  BY <1>2, ReplayedSane
<1>4. m \in Pool
  <2>1. o.replay \in Seq(Messages)
    BY <1>2 DEF NodeType
  <2>2. m \in Elements(o.replay)
    BY <1>2, <2>1, HeadTail
  <2> QED BY <2>2, InPool DEF Heard
<1> HIDE DEF o, n, m
<1>5. Sane(v, x, Pool, cast) /\ Moved(v, n, x, cast)
  BY <1>1, <1>2, <1>3, <1>4, OnMessageSane
<1>6. NodeType(n) /\ NodeType(x)
  BY <1>3, <1>5 DEF Sane, Mine
<1>7. Moved(v, o, x, cast)
  BY <1>2, <1>3, <1>5, <1>6, CalmMoved
<1>8. Untouched \in [Honest \X Honest -> Nat]
  BY DEF Untouched
<1>9. CASE Step(v, x, Untouched)
  BY <1>5, <1>7, <1>8, <1>9, EventInv DEF Replay, o
<1>10. ASSUME NEW y \in Settle(v, x), Step(v, y, Untouched)
       PROVE  Inv' /\ Advance(v)
  <2>1. Sane(v, y, Pool, cast) /\ Calm(x, y)
    BY <1>5, <1>10, SettleSane
  <2>2. NodeType(y)
    BY <2>1 DEF Sane, Mine
  <2>3. Moved(v, o, y, cast)
    BY <1>2, <1>6, <1>7, <2>1, <2>2, MovedCalm
  <2> QED BY <1>8, <1>10, <2>1, <2>3, EventInv DEF Replay, o
<1> QED BY <1>1, <1>9, <1>10

\* A forged message is signed by a Byzantine validator.
LEMMA ForgeInv ==
    ASSUME Inv, NEW v \in Honest, NEW m \in ForgedMessages(node[v].height), Forge(m, v)
    PROVE  Inv' /\ Advance(v)
<1> DEFINE K == Pool \cup {m}
<1>1. PICK n \in OnMessage(v, node[v], m) : Step(v, n, Untouched)
  BY DEF Forge
<1>2. /\ Sane(v, node[v], Pool, cast) /\ node[v].out = <<>> /\ NodeType(node[v]) /\ Common(Pool, cast)
      /\ Mine(v, node[v], Pool, cast) /\ node[v].height <= MaxHeight
  BY PoolSane DEF Forge, Ready
<1>3. WellSigned(m) /\ m.signer \in Byz /\ ~IsStale(m)
  <2>1. PICK t \in Forgeable, r \in 0 .. MaxRound, b \in Blocks \cup {NoBlock}, z \in Byz :
            m = Message(t, node[v].height, r, b, 0, z)
    BY DEF ForgedMessages
  <2>2. /\ t \in MsgTypes /\ r \in Nat /\ r <= MaxRound /\ b \in BlockOrNil /\ z \in Validators
        /\ node[v].height \in Nat /\ 0 \in Nat /\ b # StaleBlock
    BY <1>2, ConsensusAssumption DEF BlockOrNil, NodeType
  <2>3. /\ m \in Messages /\ m.type = t /\ m.round = r /\ m.block = b /\ m.lockedRound = 0 /\ m.signer = z
    BY <2>1, <2>2, MessageFields
  <2>4. (m.type = "COMMIT" => m.round = 0) /\ (m.type # "ROUND_CHANGE" => m.block # NoBlock)
    BY DEF ForgedMessages
  <2> QED BY <2>2, <2>3, <2>4 DEF WellSigned, IsStale
<1>4. m.signer \notin Honest
  BY <1>3 DEF Honest
<1>5. Common(K, cast)
  <2>1. /\ \A p \in K : WellSigned(p) /\ (IsVote(p) => p \in cast)
        /\ \A p \in cast : WellSigned(p) /\ IsVote(p) /\ p.height \in 1 .. MaxHeight
    BY <1>2, <1>3, <1>4 DEF Common, IsVote
  <2>2. SignedOnce(K, cast)
    BY <1>2, <1>4 DEF Common, SignedOnce
  <2>3. ASSUME NEW s \in K, IsStale(s)
        PROVE  \E Q \in Quorums :
                  /\ Q \cap Stalers(K, s.height) = {}
                  /\ \A w \in Q \cap Honest : \E p \in cast : p.signer = w /\ p.height = s.height
    <3>1. s \in Pool
      BY <1>3, <2>3
    <3>2. PICK Q \in Quorums :
              /\ Q \cap Stalers(Pool, s.height) = {}
              /\ \A w \in Q \cap Honest : \E p \in cast : p.signer = w /\ p.height = s.height
      BY <1>2, <2>3, <3>1 DEF Common, Outvoted
    <3>3. Stalers(K, s.height) = Stalers(Pool, s.height)
      BY <1>3 DEF Stalers
    <3> QED BY <3>2, <3>3
  <2>4. Outvoted(K, cast)
    BY <2>3 DEF Outvoted
  <2> QED BY <2>1, <2>2, <2>4 DEF Common
<1>6. Sane(v, node[v], K, cast)
  <2>1. Heard(node[v]) \subseteq K /\ \A p \in K : p \in Pool \/ p.signer # v
    BY <1>4, InPool
  <2> QED BY <1>2, <1>5, <2>1, OthersSane
<1>7. Pool \subseteq K /\ m \in K /\ \A p \in K : p \in Pool \/ p.signer \notin Honest
  BY <1>4
<1> HIDE DEF K
<1>8. Sane(v, n, K, cast) /\ Moved(v, node[v], n, cast)
  BY <1>1, <1>2, <1>6, <1>7, OnMessageSane
<1>9. Untouched \in [Honest \X Honest -> Nat]
  BY DEF Untouched
<1> QED BY <1>1, <1>7, <1>8, <1>9, EventInv DEF Forge

\* A block of another validator's chain has its quorum too.
LEMMA CatchUpInv ==
    ASSUME Inv, NEW v \in Honest, NEW w \in Honest, CatchUp(v, w)
    PROVE  /\ Inv' /\ node' = [node EXCEPT ![v] = node'[v]]
           /\ node'[v].chain = Append(node[v].chain, node[w].chain[Len(node[v].chain) + 1])
           /\ node'[v].height = node[v].height /\ node'[v].locked = node[v].locked
<1> DEFINE n == node[v]
           c == n.chain
           b == node[w].chain[Len(c) + 1]
           x == [n EXCEPT !.chain = Append(c, b)]
<1>1. /\ node' = [node EXCEPT ![v] = x] /\ link' = link /\ cast' = cast /\ restarts' = restarts
      /\ node = [u \in Honest |-> node[u]]
  BY DEF CatchUp, Inv
<1>2. /\ NodeType(n) /\ Shaped(n) /\ Common(Pool, cast) /\ Mine(v, n, Pool, cast) /\ n.out = <<>>
      /\ c \in Seq(Blocks) /\ Len(c) \in Nat
  BY PoolSane DEF NodeType
<1>3. b \in Blocks /\ Decided(cast, Len(c) + 1, b)
  <2>1. node[w].chain \in Seq(Blocks) /\ ChainDecided(node[w], cast)
    BY PoolSane DEF Mine, NodeType
  <2>2. Len(c) + 1 \in 1 .. Len(node[w].chain)
    BY <1>2, <2>1 DEF CatchUp
  <2> QED BY <2>1, <2>2 DEF ChainDecided
<1> HIDE DEF b
<1>4. /\ Shaped(x) /\ x.height = n.height /\ x.round = n.round /\ x.ph = n.ph /\ x.proposal = n.proposal
      /\ x.locked = n.locked /\ x.lockedRound = n.lockedRound /\ x.seen = n.seen
      /\ x.faulty = n.faulty /\ x.prepares = n.prepares /\ x.commits = n.commits
      /\ x.queue = n.queue /\ x.chain = Append(c, b) /\ x.future = n.future /\ x.replay = n.replay
      /\ x.out = n.out
  BY <1>2 DEF Shaped, Fields
<1> HIDE DEF x
<1>5. node'[v] = x /\ (\A u \in Honest \ {v} : node'[u] = node[u]) /\ node' = [u \in Honest |-> node'[u]]
  BY <1>1
<1>6. /\ Append(c, b) \in Seq(Blocks) /\ Len(Append(c, b)) = Len(c) + 1
      /\ \A h \in 1 .. Len(c) : Append(c, b)[h] = c[h]
      /\ Append(c, b)[Len(c) + 1] = b
  <2>1. c \in Seq(Blocks) /\ b \in Blocks
    BY <1>2, <1>3
  <2> HIDE DEF c
  <2> QED BY <2>1
<1>7. NodeType(x)
  <2>1. n.height \in Nat /\ n.height <= Len(c) + 1
    BY <1>2 DEF NodeType
  <2>2. n.height <= Len(x.chain) + 1 /\ x.chain \in Seq(Blocks)
    BY <1>2, <1>4, <1>6, <2>1
  <2> HIDE DEF n, c
  <2> QED BY <1>2, <1>4, <2>2 DEF NodeType
<1>8. ChainDecided(x, cast)
  <2> SUFFICES ASSUME NEW h \in 1 .. Len(x.chain) PROVE Decided(cast, h, x.chain[h])
    BY DEF ChainDecided
  <2>1. CASE h \in 1 .. Len(c)
    BY <1>2, <1>4, <1>6, <2>1 DEF Mine, ChainDecided
  <2>2. CASE h = Len(c) + 1
    BY <1>3, <1>4, <1>6, <2>2
  <2> QED BY <1>2, <1>4, <1>6, <2>1, <2>2
<1>9. Heard(x) = Heard(n)
  BY <1>4 DEF Heard
<1>10. Pool' = Pool
  <2>1. \A u \in Honest : Heard(node'[u]) = Heard(node[u])
    BY <1>5, <1>9
  <2>2. InFlight' = InFlight
    BY <1>1 DEF InFlight
  <2>3. Pool' = (UNION {Heard(node'[u]) : u \in Honest}) \cup InFlight'
    BY DEF Pool
  <2> QED BY <2>1, <2>2, <2>3 DEF Pool
<1>11. Mine(v, x, Pool, cast)
  <2>1. Backed(x) /\ InPhase(x) /\ NotYetSaid(v, x, Pool) /\ Bound(v, x, cast)
    BY <1>2, <1>4 DEF Mine, Backed, InPhase, NotYetSaid, Bound
  <2> QED BY <1>2, <1>4, <1>7, <1>8, <1>9, <2>1 DEF Mine
<1>12. Sane(v, x, Pool, cast) /\ x.out = <<>>
  <2>1. Elements(x.out) = {} /\ Said(x, Pool) = Pool /\ Voted(x, cast) = cast
    BY <1>2, <1>4 DEF Elements, Said, Voted, VotesOf
  <2> QED BY <1>2, <1>4, <1>11, <2>1 DEF Sane
<1>13. \A u \in Honest : Sane(u, node'[u], Pool, cast) /\ node'[u].out = <<>>
  BY <1>5, <1>12, PoolSane
<1>14. Inv'
  <2>1. link' \in [Honest \X Honest -> Seq(Messages)] /\ restarts' \in Nat
    BY <1>1 DEF Inv
  <2>2. \A u \in Honest : Sane(u, node'[u], Pool', cast') /\ node'[u].out = <<>>
    BY <1>1, <1>10, <1>13
  <2>3. Common(Pool', cast')
    BY <1>1, <1>2, <1>10
  <2> QED BY <1>5, <2>1, <2>2, <2>3 DEF Inv
<1> QED BY <1>1, <1>4, <1>5, <1>14 DEF b

LEMMA LoseInv ==
    ASSUME Inv, NEW u \in Honest, NEW v \in Honest, Lose(u, v)
    PROVE  Inv'
<1> DEFINE q == link[<<u, v>>]
<1>1. /\ link' = [link EXCEPT ![<<u, v>>] = Tail(q)] /\ q # <<>> /\ q \in Seq(Messages)
      /\ node' = node /\ cast' = cast /\ restarts' = restarts
      /\ link \in [Honest \X Honest -> Seq(Messages)]
  BY DEF Lose, Inv
<1>2. Tail(q) \in Seq(Messages) /\ Elements(Tail(q)) \subseteq Elements(q)
  <2> HIDE DEF q
  <2> QED BY <1>1, HeadTail
<1>3. /\ link' \in [Honest \X Honest -> Seq(Messages)]
      /\ \A p \in Honest \X Honest : Elements(link'[p]) \subseteq Elements(link[p])
  BY <1>1, <1>2
<1>4. Pool' \subseteq Pool
  <2>1. InFlight' \subseteq Pool
    <3> SUFFICES ASSUME NEW m \in InFlight' PROVE m \in Pool
      OBVIOUS
    <3>1. PICK p \in Honest \X Honest : m \in Elements(link'[p])
      BY ElementsUnion DEF InFlight
    <3> QED BY <1>3, <3>1, InPool
  <2>2. Pool' = (UNION {Heard(node[w]) : w \in Honest}) \cup InFlight'
    BY <1>1 DEF Pool
  <2> QED BY <2>1, <2>2 DEF Pool
<1>5. \A w \in Honest : Heard(node[w]) \subseteq Pool'
  <2>1. Pool' = (UNION {Heard(node[w]) : w \in Honest}) \cup InFlight'
    BY <1>1 DEF Pool
  <2> QED BY <2>1
<1>8. Common(Pool', cast)
  <2>1. Common(Pool, cast)
    BY DEF Inv
  <2> QED BY <1>4, <2>1, CommonOfLess
<1> DEFINE S == Pool'
<1>6. ASSUME NEW w \in Honest PROVE Sane(w, node[w], S, cast) /\ node[w].out = <<>>
  <2>1. Sane(w, node[w], Pool, cast) /\ node[w].out = <<>> /\ Common(Pool, cast)
    BY PoolSane
  <2>2. S \subseteq Pool /\ Heard(node[w]) \subseteq S
    BY <1>4, <1>5
  <2> HIDE DEF S
  <2>3. Common(S, cast)
    BY <2>1, <2>2, CommonOfLess
  <2> QED BY <2>1, <2>2, <2>3, OthersSane
<1>7. \A w \in Honest : Sane(w, node'[w], Pool', cast') /\ node'[w].out = <<>>
  BY <1>1, <1>6
<1> QED BY <1>1, <1>3, <1>7, <1>8 DEF Inv

-----------------------------------------------------------------------------
(* The specification.                                                      *)

LEMMA GenesisFields ==
    /\ Shaped(GenesisNode)
    /\ GenesisNode.height = 1 /\ GenesisNode.round = 0 /\ GenesisNode.ph = "idle"
    /\ GenesisNode.proposal = NoBlock /\ GenesisNode.locked = NoBlock /\ GenesisNode.lockedRound = 0
    /\ GenesisNode.seen = {} /\ GenesisNode.faulty = {} /\ GenesisNode.prepares = {}
    /\ GenesisNode.commits = {} /\ GenesisNode.queue = 0
    /\ GenesisNode.chain = <<>> /\ GenesisNode.future = <<>> /\ GenesisNode.replay = <<>>
    /\ GenesisNode.out = <<>>
BY DEF GenesisNode, Shaped, Fields

LEMMA InitInv == Init => Inv
<1> SUFFICES ASSUME Init PROVE Inv
  OBVIOUS
<1> DEFINE g == GenesisNode
<1>1. /\ node = [v \in Honest |-> g] /\ link = [p \in Honest \X Honest |-> <<>>] /\ cast = {}
      /\ restarts = 0
  BY DEF Init
<1> HIDE DEF g
<1>2. /\ Shaped(g) /\ g.height = 1 /\ g.round = 0 /\ g.ph = "idle"
      /\ g.proposal = NoBlock /\ g.locked = NoBlock /\ g.lockedRound = 0
      /\ g.seen = {} /\ g.faulty = {} /\ g.prepares = {} /\ g.commits = {} /\ g.queue = 0
      /\ g.chain = <<>> /\ g.future = <<>> /\ g.replay = <<>> /\ g.out = <<>>
  BY GenesisFields DEF g
<1>3. Elements(<<>>) = {} /\ Len(<<>>) = 0
  BY DEF Elements
<1>4. Heard(g) = {}
  BY <1>2, <1>3 DEF Heard
<1>5. Pool = {}
  <2>1. \A v \in Honest : Heard(node[v]) = {}
    BY <1>1, <1>4
  <2>2. InFlight = {}
    <3>1. \A p \in Honest \X Honest : Elements(link[p]) = {}
      BY <1>1, <1>3
    <3> SUFFICES ASSUME NEW m \in InFlight PROVE FALSE
      OBVIOUS
    <3>2. PICK p \in Honest \X Honest : m \in Elements(link[p])
      BY ElementsUnion DEF InFlight
    <3> QED BY <3>1, <3>2
  <2> QED BY <2>1, <2>2 DEF Pool
<1>6. NodeType(g)
  <2>1. /\ 1 \in Nat \ {0} /\ 0 \in 0 .. MaxRound /\ 0 \in 0 .. MaxQueue /\ <<>> \in Seq(Blocks)
        /\ <<>> \in Seq(Messages) /\ 1 <= Len(<<>>) + 1
    BY <1>3, ConsensusAssumption
  <2> QED BY <1>2, <2>1 DEF NodeType, BlockOrNil
<1>7. Common({}, {})
  BY DEF Common, SignedOnce, Outvoted
<1>8. ASSUME NEW v \in Honest PROVE Mine(v, g, {}, {})
  BY <1>2, <1>3, <1>4, <1>6 DEF Mine, Backed, InPhase, NotYetSaid, Bound, ChainDecided
<1>9. Said(g, {}) = {} /\ Voted(g, {}) = {}
  BY <1>2, <1>3 DEF Said, Voted, VotesOf
<1>10. \A v \in Honest : Sane(v, g, {}, {})
  BY <1>2, <1>3, <1>7, <1>8, <1>9 DEF Sane
<1> QED BY <1>1, <1>2, <1>5, <1>7, <1>10 DEF Inv

\* What a step does to the chains, the locks and the votes.
Effect ==
    \/ \E v \in Honest : Advance(v)
    \/ \E v, w \in Honest : CatchUp(v, w)
    \/ UNCHANGED <<node, cast>>

LEMMA HeightNextInv ==
    ASSUME Inv, HeightNext
    PROVE  Inv' /\ Effect
<1>1. CASE \E v \in Honest \cap Clients : Submit(v)
  BY <1>1, SubmitInv DEF Effect
<1>2. CASE \E v \in Honest : RoundTimeout(v)
  BY <1>2, RoundTimeoutInv DEF Effect
<1>3. CASE \E v \in Honest : HeadMoved(v)
  BY <1>3, HeadMovedInv DEF Effect
<1>4. CASE \E v, w \in Honest : Deliver(v, w)
  BY <1>4, DeliverInv DEF Effect
<1>5. CASE \E v, w \in Honest : CatchUp(v, w)
  BY <1>5, CatchUpInv DEF Effect
<1>6. CASE \E v \in Honest : \E m \in ForgedMessages(node[v].height) : Forge(m, v)
  BY <1>6, ForgeInv DEF Effect
<1> QED BY <1>1, <1>2, <1>3, <1>4, <1>5, <1>6 DEF HeightNext

LEMMA NextInv ==
    ASSUME Inv, Next, restarts' = 0
    PROVE  Inv' /\ Effect
<1>1. CASE HeightNext
  BY <1>1, HeightNextInv
<1>2. CASE \E v \in Honest : Replay(v)
  BY <1>2, ReplayInv DEF Effect
<1>3. CASE \E v \in Honest : Restart(v)
  BY <1>3 DEF Restart, Inv
<1>4. CASE \E v, w \in Honest : Lose(v, w)
  BY <1>4, LoseInv DEF Effect, Lose
<1> QED BY <1>1, <1>2, <1>3, <1>4 DEF Next

LEMMA StutterInv ==
    ASSUME Inv, UNCHANGED vars
    PROVE  Inv' /\ Effect
<1>1. node' = node /\ link' = link /\ cast' = cast /\ restarts' = restarts
  BY DEF vars
<1>2. Pool' = Pool
  BY <1>1 DEF Pool, InFlight
<1> QED BY <1>1, <1>2 DEF Inv, Effect

LEMMA EngineStep == ASSUME Inv PROVE EngineInv
<1>1. ASSUME NEW v \in Honest PROVE NodeType(node[v]) /\ node[v].out = <<>>
  BY PoolSane
<1>2. cast \subseteq Messages
  BY DEF Inv, Common, WellSigned
<1>3. TypeOK
  BY <1>1, <1>2 DEF TypeOK, NodeType, BlockOrNil, Inv
<1>4. HonestNotFaulty
  BY <1>1 DEF HonestNotFaulty, NodeType
<1> QED BY <1>3, <1>4 DEF EngineInv

LEMMA LockStep ==
    ASSUME Inv, Effect
    PROVE  \A v \in Honest :
              /\ node[v].locked # NoBlock
              /\ node'[v].height = node[v].height
              /\ restarts' = restarts
              => node'[v].locked = node[v].locked
<1> SUFFICES ASSUME NEW v \in Honest, node[v].locked # NoBlock, node'[v].height = node[v].height
             PROVE  node'[v].locked = node[v].locked
  OBVIOUS
<1>1. node = [w \in Honest |-> node[w]]
  BY DEF Inv
<1>2. ASSUME NEW w \in Honest, Advance(w) PROVE node'[v].locked = node[v].locked
  BY <1>1, <1>2 DEF Advance, Keeps
<1>3. ASSUME NEW u \in Honest, NEW w \in Honest, CatchUp(u, w) PROVE node'[v].locked = node[v].locked
  BY <1>1, <1>3, CatchUpInv
<1> QED BY <1>2, <1>3 DEF Effect

\* The invariant holds as long as no process has restarted.
Unbroken == Spec /\ [](restarts = 0)

LEMMA HeightUnbroken == HeightSpec => Unbroken
<1>1. Init => restarts = 0
  BY DEF Init
<1>2. restarts = 0 /\ [HeightNext]_vars => (restarts = 0)'
  BY DEF HeightNext, Submit, RoundTimeout, HeadMoved, Deliver, CatchUp, Forge, vars
<1>3. [HeightNext]_vars => [Next]_vars
  BY DEF Next
<1> QED BY <1>1, <1>2, <1>3, PTL DEF HeightSpec, Spec, Unbroken

LEMMA InvAlways == Unbroken => []Inv
<1>1. Init => Inv
  BY InitInv
<1>2. Inv /\ [Next]_vars /\ (restarts = 0)' => Inv'
  BY NextInv, StutterInv
<1> QED BY <1>1, <1>2, PTL DEF Spec, Unbroken

\* While no process restarts, every record the engine keeps is well formed,
\* and record (roundstate.go) takes nobody for an equivocator who follows
\* the protocol, in whatever order messages arrive and whichever are lost.
THEOREM EngineInvAlways == Unbroken => []EngineInv
<1>1. Inv => EngineInv
  BY EngineStep
<1> QED BY <1>1, InvAlways, PTL

\* enterRound never forgets a lock within a height, and no handler trades it
\* for another one.
THEOREM LocksAreHeld == Unbroken => LockHeld
<1> DEFINE Held == \A v \in Honest :
                     /\ node[v].locked # NoBlock
                     /\ node'[v].height = node[v].height
                     /\ restarts' = restarts
                     => node'[v].locked = node[v].locked
<1>1. Inv /\ [Next]_vars /\ (restarts = 0)' => [Held]_vars
  BY NextInv, LockStep
<1>2. LockHeld <=> [][Held]_vars
  BY DEF LockHeld
<1> HIDE DEF Held
<1> QED BY <1>1, <1>2, InvAlways, PTL DEF Spec, Unbroken

-----------------------------------------------------------------------------
(* The engine implements Finality.                                         *)

Votes(V) == {[signer |-> m.signer, height |-> m.height, block |-> m.block] : m \in V}

LEMMA VoteIsVote ==
    ASSUME NEW V, NEW v \in Honest, NEW h \in Nat, NEW b \in Blocks
    PROVE  /\ VoteFor(v, h, b) \in V => Ledger!Vote(v, h, b) \in Votes(V)
           /\ Votes(V \cup {VoteFor(v, h, b)}) = Votes(V) \cup {Ledger!Vote(v, h, b)}
<1>1. /\ VoteFor(v, h, b).signer = v /\ VoteFor(v, h, b).height = h /\ VoteFor(v, h, b).block = b
  BY VoteFields
<1> QED BY <1>1 DEF Votes, Ledger!Vote

LEMMA DecidedIsCommitted ==
    ASSUME NEW V, NEW h \in Nat, NEW b \in Blocks, Decided(V, h, b)
    PROVE  Ledger!Committed(Votes(V), h, b)
<1>1. PICK Q \in Quorums : \A w \in Q \cap Honest : VoteFor(w, h, b) \in V
  BY DEF Decided
<1>2. \A w \in Q \ (Byz \cup Down) : w \in Q \cap Honest
  BY DEF Quorums, Honest
<1>3. \A w \in Q \ (Byz \cup Down) : Ledger!Vote(w, h, b) \in Votes(V)
  BY <1>1, <1>2, VoteIsVote
<1> QED BY <1>3 DEF Ledger!Committed

\* Every chain and every vote, as Finality sees them.
Chains == [v \in Honest |-> node[v].chain]

LEMMA LedgerInit == ASSUME Init PROVE Ledger!Init
<1>1. Votes(cast) = {} /\ \A v \in Honest : node[v].chain = <<>>
  BY GenesisFields DEF Init, Votes
<1> QED BY <1>1 DEF Ledger!Init, Ledger!Honest, Honest, Votes

LEMMA LedgerAdvance ==
    ASSUME Inv, Inv', NEW v \in Honest, Advance(v)
    PROVE  Ledger!Next \/ UNCHANGED Ledger!vars
<1>1. node[v].chain \in Seq(Blocks) /\ Len(node[v].chain) + 1 \in Nat /\ Chains[v] = node[v].chain
  BY PoolSane DEF NodeType, Chains
<1>2. Chains' = [Chains EXCEPT ![v] = node'[v].chain]
  <2>1. node = [w \in Honest |-> node[w]] /\ node' = [node EXCEPT ![v] = node'[v]]
    BY DEF Inv, Advance
  <2>2. \A w \in Honest : node'[w].chain = IF w = v THEN node'[v].chain ELSE node[w].chain
    BY <2>1
  <2>3. Chains' = [w \in Honest |-> node'[w].chain]
    BY DEF Chains
  <2> QED BY <2>2, <2>3 DEF Chains
<1>3. \/ Chains' = Chains
      \/ \E b \in Blocks : /\ Len(Chains[v]) < MaxHeight
                            /\ Ledger!Committed(Votes(cast'), Len(Chains[v]) + 1, b)
                            /\ Chains' = [Chains EXCEPT ![v] = Append(@, b)]
  <2>1. CASE node'[v].chain = node[v].chain
    BY <1>1, <1>2, <2>1 DEF Chains
  <2>2. ASSUME NEW b \in Blocks, Len(node[v].chain) < MaxHeight,
               node'[v].chain = Append(node[v].chain, b), Decided(cast', Len(node[v].chain) + 1, b)
        PROVE  /\ Len(Chains[v]) < MaxHeight
               /\ Ledger!Committed(Votes(cast'), Len(Chains[v]) + 1, b)
               /\ Chains' = [Chains EXCEPT ![v] = Append(@, b)]
    BY <1>1, <1>2, <2>2, DecidedIsCommitted
  <2> QED BY <2>1, <2>2 DEF Advance, Extended
<1>4. /\ Ledger!Honest = Honest /\ Votes(cast)' = Votes(cast')
  BY DEF Ledger!Honest, Honest, Votes
<1>5. CASE cast' = cast
  <2>1. CASE Chains' = Chains
    BY <1>4, <1>5, <2>1 DEF Ledger!vars, Votes, Chains
  <2>2. ASSUME NEW b \in Blocks, Len(Chains[v]) < MaxHeight,
               Ledger!Committed(Votes(cast'), Len(Chains[v]) + 1, b),
               Chains' = [Chains EXCEPT ![v] = Append(@, b)]
        PROVE  Ledger!Finalize(v)
    BY <1>4, <1>5, <2>2 DEF Ledger!Finalize, Ledger!Extends, Votes, Chains
  <2> QED BY <1>3, <1>4, <2>1, <2>2 DEF Ledger!Next
<1>6. ASSUME NEW h \in 1 .. MaxHeight, NEW b \in Blocks, cast' = cast \cup {VoteFor(v, h, b)}
      PROVE  Ledger!Commit(v)
  <2>1. h \in Nat
    BY ConsensusAssumption
  <2>2. Votes(cast') = Votes(cast) \cup {Ledger!Vote(v, h, b)}
    BY <1>6, <2>1, VoteIsVote
  <2>3. Ledger!MayVote(v, h, b)
    <3> SUFFICES ASSUME NEW c \in Blocks, Ledger!Vote(v, h, c) \in Votes(cast) PROVE c = b
      BY DEF Ledger!MayVote, Votes
    <3>1. PICK m \in cast : m.signer = v /\ m.height = h /\ m.block = c
      BY DEF Votes, Ledger!Vote
    <3>2. m \in cast' /\ VoteFor(v, h, b) \in cast'
      BY <1>6
    <3>3. VoteFor(v, h, b).signer = v /\ VoteFor(v, h, b).height = h /\ VoteFor(v, h, b).block = b
      BY <2>1, VoteFields
    <3>4. SignedOnce(Pool', cast')
      BY DEF Inv, Common
    <3> QED BY <3>1, <3>2, <3>3, <3>4 DEF SignedOnce
  <2>4. Chains' = Chains \/ Ledger!Extends(v, Votes(cast'))
    BY <1>3 DEF Ledger!Extends, Chains
  <2> QED BY <1>4, <2>2, <2>3, <2>4 DEF Ledger!Commit, Votes, Chains
<1> QED BY <1>4, <1>5, <1>6 DEF Advance, Ledger!Next

LEMMA LedgerCatchUp ==
    ASSUME Inv, NEW v \in Honest, NEW w \in Honest, CatchUp(v, w)
    PROVE  Ledger!Next
<1>1. /\ node = [u \in Honest |-> node[u]] /\ node' = [node EXCEPT ![v] = node'[v]]
      /\ node'[v].chain = Append(node[v].chain, node[w].chain[Len(node[v].chain) + 1])
      /\ cast' = cast /\ Len(node[v].chain) < Len(node[w].chain)
  BY CatchUpInv DEF CatchUp, Inv
<1>2. \A u \in Honest : node'[u].chain = IF u = v THEN node'[v].chain ELSE node[u].chain
  BY <1>1
<1>3. Chains[v] = node[v].chain /\ Chains[w] = node[w].chain
  BY DEF Chains
<1>4. Chains' = [Chains EXCEPT ![v] = Append(@, Chains[w][Len(@) + 1])]
  <2>1. Chains' = [u \in Honest |-> node'[u].chain]
    BY DEF Chains
  <2> QED BY <1>1, <1>2, <1>3, <2>1 DEF Chains
<1>5. Ledger!CatchUp(v, w)
  BY <1>1, <1>3, <1>4 DEF Ledger!CatchUp, Chains
<1> QED BY <1>5 DEF Ledger!Next, Ledger!Honest, Honest

\* The engine implements Finality as long as no process restarts: whatever
\* rounds, locks, buffered messages and forged ones a height goes through,
\* a validator votes once for it, and a block joins a chain only with the
\* votes of a quorum or from a chain that holds it.
THEOREM EngineImplementsFinality == Unbroken => LedgerSpec
<1>1. Init => Ledger!Init
  BY LedgerInit
<1>2. ASSUME Inv, Inv', Effect PROVE Ledger!Next \/ UNCHANGED Ledger!vars
  <2>1. CASE \E v \in Honest : Advance(v)
    BY <1>2, <2>1, LedgerAdvance
  <2>2. CASE \E v, w \in Honest : CatchUp(v, w)
    BY <1>2, <2>2, LedgerCatchUp
  <2>3. CASE UNCHANGED <<node, cast>>
    BY <2>3 DEF Ledger!vars
  <2> QED BY <1>2, <2>1, <2>2, <2>3 DEF Effect
<1>3. Inv /\ Inv' /\ [Next]_vars /\ (restarts = 0)' => [Ledger!Next]_(Ledger!vars)
  BY <1>2, NextInv, StutterInv
<1> QED BY <1>1, <1>3, InvAlways, PTL DEF Spec, Unbroken, LedgerSpec, Ledger!Spec

\* Two blocks a quorum has voted for at a height are the same one, with less
\* than a third of the validators Byzantine: two quorums then have an honest
\* validator in common.
LEMMA OneDecided ==
    ASSUME N > 3 * Cardinality(Byz), NEW S, NEW V, Common(S, V),
           NEW h \in Nat, NEW b \in Blocks, NEW c \in Blocks, Decided(V, h, b), Decided(V, h, c)
    PROVE  b = c
<1>1. PICK P \in Quorums : P \subseteq Honest \cup Byz /\ \A w \in P \cap Honest : VoteFor(w, h, b) \in V
  BY DEF Decided
<1>2. PICK Q \in Quorums : Q \subseteq Honest \cup Byz /\ \A w \in Q \cap Honest : VoteFor(w, h, c) \in V
  BY DEF Decided
<1>3. P \cap Q \cap Honest # {}
  <2> SUFFICES ASSUME P \cap Q \cap Honest = {} PROVE FALSE
    OBVIOUS
  <2>1. P \cap Q \subseteq Byz
    BY <1>1
  <2>2. IsFiniteSet(Byz)
    BY ValidatorsFinite, ConsensusAssumption, FS_Subset
  <2>3. Cardinality(P \cap Q) <= Cardinality(Byz) /\ Cardinality(P \cap Q) >= 2 * Quorum - N
    BY <2>1, <2>2, QuorumsShare, FS_Subset
  <2>4. Cardinality(P \cap Q) \in Nat /\ Cardinality(Byz) \in Nat
    BY <2>2, QuorumsShare, FS_CardinalityType
  <2> QED BY <2>3, <2>4, QuorumSize, ConsensusAssumption
<1>4. PICK w \in Honest : VoteFor(w, h, b) \in V /\ VoteFor(w, h, c) \in V
  BY <1>1, <1>2, <1>3
<1>5. /\ VoteFor(w, h, b).signer = w /\ VoteFor(w, h, b).height = h /\ VoteFor(w, h, b).block = b
      /\ VoteFor(w, h, c).signer = w /\ VoteFor(w, h, c).height = h /\ VoteFor(w, h, c).block = c
  BY VoteFields
<1> QED BY <1>4, <1>5 DEF Common, SignedOnce

\* CONSENSUS.md section 5: with less than a third of the validators
\* Byzantine, and while no process restarts, no two distinct blocks are
\* finalized at a height.
THEOREM AgreementAlways ==
    ASSUME N > 3 * Cardinality(Byz)
    PROVE  Unbroken => []Agreement
<1>1. Inv => Agreement
  <2> SUFFICES ASSUME Inv, NEW v \in Honest, NEW w \in Honest, NEW h \in 1 .. Len(node[v].chain),
                      h <= Len(node[w].chain)
               PROVE  node[v].chain[h] = node[w].chain[h]
    BY DEF Agreement
  <2>1. /\ node[v].chain \in Seq(Blocks) /\ node[w].chain \in Seq(Blocks)
        /\ ChainDecided(node[v], cast) /\ ChainDecided(node[w], cast)
    BY PoolSane DEF Mine, NodeType
  <2>2. h \in Nat /\ h \in 1 .. Len(node[w].chain)
    BY <2>1
  <2>3. /\ node[v].chain[h] \in Blocks /\ node[w].chain[h] \in Blocks
        /\ Decided(cast, h, node[v].chain[h]) /\ Decided(cast, h, node[w].chain[h])
    BY <2>1, <2>2 DEF ChainDecided
  <2> QED BY <2>2, <2>3, OneDecided DEF Inv
<1> QED BY <1>1, InvAlways, PTL

-----------------------------------------------------------------------------
(* The timer.  This part does not ask whether processes restart.           *)

\* Unless messages are left to replay, work has a timer.
Timed(n) == n.replay = <<>> => (WorkPending(n) => n.timerArmed)

\* What touches neither the height nor the timer.
Leaves(n, x) ==
    Shaped(x) /\ x.height = n.height /\ x.replay = n.replay /\ x.timerArmed = n.timerArmed

\* A handler leaves work with a timer if it found it so, or began a height.
Times(n, x) ==
    Shaped(x) /\ (Timed(n) => Timed(x)) /\ (x.height # n.height => Timed(x))

LEMMA TimesTimes ==
    ASSUME NEW n, NEW x, NEW y, Times(n, x), Times(x, y)
    PROVE  Times(n, y)
BY DEF Times

LEMMA RecordOwnLeaves ==
    ASSUME NEW n, Shaped(n), NEW m
    PROVE  Leaves(n, RecordOwn(n, m)) /\ RecordOwn(n, m).ph = n.ph
<1>1. Leaves(n, Withdraw(n, m)) /\ Withdraw(n, m).ph = n.ph
  BY DEF Leaves, Shaped, Fields, Withdraw
<1>2. Leaves(n, Tally(n, m)) /\ Tally(n, m).ph = n.ph
  BY DEF Leaves, Shaped, Fields, Tally
<1>3. Leaves(n, n)
  BY DEF Leaves
<1> QED BY <1>1, <1>2, <1>3 DEF RecordOwn

LEMMA SendLeaves ==
    ASSUME NEW n, Shaped(n), NEW m
    PROVE  Leaves(n, Send(n, m)) /\ Send(n, m).ph = n.ph
BY DEF Leaves, Shaped, Fields, Send

LEMMA CastPrepareLeaves ==
    ASSUME NEW v, NEW n, Shaped(n), NEW b
    PROVE  Leaves(n, CastPrepare(v, n, b)) /\ CastPrepare(v, n, b).ph = "prePrepared"
<1> DEFINE m == Message("PREPARE", n.height, n.round, b, 0, v)
           x == [n EXCEPT !.ph = "prePrepared"]
           y == RecordOwn(x, m)
<1>1. Leaves(n, x) /\ x.ph = "prePrepared"
  BY DEF Leaves, Shaped, Fields
<1> HIDE DEF m
<1>2. Leaves(x, y) /\ y.ph = x.ph
  <2> HIDE DEF x
  <2> QED BY <1>1, RecordOwnLeaves DEF Leaves
<1>3. CastPrepare(v, n, b) = Send(y, m)
  BY DEF CastPrepare, m
<1> HIDE DEF x, y
<1>4. Leaves(y, Send(y, m)) /\ Send(y, m).ph = y.ph
  BY <1>2, SendLeaves DEF Leaves
<1> QED BY <1>1, <1>2, <1>3, <1>4 DEF Leaves

\* Whoever proposes runs a timer.
LEMMA BroadcastTimes ==
    ASSUME NEW v, NEW n, Shaped(n), NEW b
    PROVE  /\ Shaped(BroadcastProposal(v, n, b))
           /\ BroadcastProposal(v, n, b).height = n.height
           /\ BroadcastProposal(v, n, b).replay = n.replay
           /\ BroadcastProposal(v, n, b).timerArmed
<1> DEFINE m == Message("PROPOSAL", n.height, n.round, b, 0, v)
           w == [n EXCEPT !.proposal = b]
           x == Send(w, m)
           y == CastPrepare(v, x, b)
<1>1. Leaves(n, w)
  BY DEF Leaves, Shaped, Fields
<1>2. BroadcastProposal(v, n, b) = ArmTimer(y)
  BY DEF BroadcastProposal
<1> HIDE DEF m, w
<1>3. Leaves(w, x)
  BY <1>1, SendLeaves DEF Leaves
<1> HIDE DEF x
<1>4. Leaves(x, y)
  BY <1>3, CastPrepareLeaves DEF Leaves
<1> HIDE DEF y
<1>5. Shaped(ArmTimer(y)) /\ ArmTimer(y).height = y.height /\ ArmTimer(y).replay = y.replay
      /\ ArmTimer(y).timerArmed
  BY <1>4 DEF Leaves, Shaped, Fields, ArmTimer
<1> QED BY <1>1, <1>2, <1>3, <1>4, <1>5 DEF Leaves

LEMMA MaybeProposeTimes ==
    ASSUME NEW v, NEW n, Shaped(n), NEW x \in MaybePropose(v, n)
    PROVE  Times(n, x) /\ x.height = n.height /\ x.replay = n.replay
<1>1. CASE x = n
  BY <1>1 DEF Times
<1>2. CASE x = BroadcastProposal(v, n, n.locked)
  BY <1>2, BroadcastTimes DEF Times, Timed
<1>3. CASE n.ph = "idle" /\ n.locked = NoBlock /\ x = [n EXCEPT !.queue = 0]
  <2>1. Shaped(x) /\ x.height = n.height /\ x.replay = n.replay /\ x.timerArmed = n.timerArmed
        /\ x.ph = n.ph /\ x.locked = n.locked /\ x.peerActivity = n.peerActivity /\ x.queue = 0
    BY <1>3 DEF Shaped, Fields
  <2>2. WorkPending(x) => WorkPending(n)
    BY <1>3, <2>1 DEF WorkPending
  <2> QED BY <2>1, <2>2 DEF Times, Timed
<1>4. CASE \E q, b : x = BroadcastProposal(v, [n EXCEPT !.queue = q, !.candidate = Len(n.chain) + 1], b)
  <2>1. PICK q, b : x = BroadcastProposal(v, [n EXCEPT !.queue = q, !.candidate = Len(n.chain) + 1], b)
    BY <1>4
  <2> DEFINE y == [n EXCEPT !.queue = q, !.candidate = Len(n.chain) + 1]
  <2>2. Shaped(y) /\ y.height = n.height /\ y.replay = n.replay
    BY DEF Shaped, Fields
  <2>0. x = BroadcastProposal(v, y, b)
    BY <2>1
  <2> HIDE DEF y
  <2>3. Shaped(x) /\ x.height = y.height /\ x.replay = y.replay /\ x.timerArmed
    BY <2>0, <2>2, BroadcastTimes
  <2> QED BY <2>2, <2>3 DEF Times, Timed
<1>5. ASSUME NEW q, x \in ProposeQueued(v, n, q), n.ph = "idle", n.locked = NoBlock
      PROVE  Times(n, x) /\ x.height = n.height /\ x.replay = n.replay
  BY <1>3, <1>4, <1>5 DEF ProposeQueued
<1> QED BY <1>1, <1>2, <1>5 DEF MaybePropose

LEMMA ArmIfPendingTimes ==
    ASSUME NEW n, Shaped(n)
    PROVE  /\ Shaped(ArmTimerIfWorkPending(n)) /\ Timed(ArmTimerIfWorkPending(n))
           /\ ArmTimerIfWorkPending(n).height = n.height
<1> DEFINE y == ArmTimerIfWorkPending(n)
<1>1. /\ Shaped(y) /\ y.height = n.height
      /\ y.queue = n.queue /\ y.ph = n.ph /\ y.locked = n.locked
      /\ y.peerActivity = n.peerActivity
  BY DEF ArmTimerIfWorkPending, Shaped, Fields
<1>2. y.timerArmed = ~(n.queue = 0 /\ n.ph = "idle" /\ n.locked = NoBlock /\ ~n.peerActivity)
  BY DEF ArmTimerIfWorkPending, Shaped, Fields
<1> HIDE DEF y
<1>3. n.queue > 0 => n.queue # 0
  OBVIOUS
<1>4. WorkPending(n) => y.timerArmed
  BY <1>2, <1>3, Zenon DEF WorkPending
<1>5. WorkPending(y) => WorkPending(n)
  BY <1>1 DEF WorkPending
<1>6. Timed(y)
  BY <1>4, <1>5 DEF Timed
<1> QED BY <1>1, <1>6 DEF y

LEMMA SettleTimes ==
    ASSUME NEW v, NEW n, Shaped(n), NEW x \in Settle(v, n)
    PROVE  Shaped(x) /\ Timed(x)
<1> DEFINE y == ArmTimerIfWorkPending(n)
<1>1. x \in MaybePropose(v, y)
  BY DEF Settle
<1>2. Shaped(y) /\ Timed(y)
  BY ArmIfPendingTimes
<1> HIDE DEF y
<1> QED BY <1>1, <1>2, MaybeProposeTimes DEF Times

LEMMA StartHeightTimes ==
    ASSUME NEW v, NEW n, Shaped(n), NEW h, NEW x \in StartHeight(v, n, h)
    PROVE  Shaped(x) /\ Timed(x)
<1> DEFINE now == Those(n.future, {m \in Elements(n.future) : m.height = h})
           later == Those(n.future, {m \in Elements(n.future) : m.height > h})
           y == [NewRoundState(n, h) EXCEPT !.replay = now, !.future = later]
<1>1. x \in Settle(v, y) \/ (x = y /\ y.replay # <<>>)
  BY DEF StartHeight
<1>2. Shaped(y)
  <2> HIDE DEF now, later
  <2> QED BY DEF NewRoundState, Shaped, Fields
<1> HIDE DEF y
<1> QED BY <1>1, <1>2, SettleTimes DEF Timed

LEMMA FinalizeTimes ==
    ASSUME NEW v, NEW n, Shaped(n), NEW b, NEW x \in Finalize(v, n, b)
    PROVE  Times(n, x)
<1> DEFINE y == ResolveWaiters([n EXCEPT !.chain = Append(@, b)], n.height)
           z == ResolveWaiters(n, n.height)
<1>1. Shaped(y) /\ Shaped(z)
  BY DEF ResolveWaiters, Shaped, Fields
<1>2. x \in StartHeight(v, y, n.height + 1) \/ x \in StartHeight(v, z, n.height + 1) \/ x = n
  BY DEF Finalize
<1> HIDE DEF y, z
<1> QED BY <1>1, <1>2, StartHeightTimes DEF Times

LEMMA CheckCommitQuorumTimes ==
    ASSUME NEW v, NEW n, Shaped(n), NEW b, NEW x \in CheckCommitQuorum(v, n, b)
    PROVE  Times(n, x)
<1>1. x = n \/ x \in Finalize(v, n, b)
  BY DEF CheckCommitQuorum
<1> QED BY <1>1, FinalizeTimes DEF Times

\* Whoever locks has a block in hand, and so a timer.
LEMMA CheckPrepareQuorumTimes ==
    ASSUME NEW v, NEW n, Shaped(n), NEW b, NEW x \in CheckPrepareQuorum(v, n, b)
    PROVE  Times(n, x)
<1>1. CASE x = n
  BY <1>1 DEF Times
<1>2. CASE x # n
  <2> DEFINE m == Message("COMMIT", n.height, 0, b, 0, v)
             y == [Lock(n, b, n.round) EXCEPT !.ph = "prepared"]
             z == RecordOwn(y, m)
  <2>1. n.ph = "prePrepared" /\ x \in CheckCommitQuorum(v, Send(z, m), b)
    BY <1>2 DEF CheckPrepareQuorum
  <2>2. Leaves(n, y)
    BY DEF Leaves, Lock, Shaped, Fields
  <2> HIDE DEF m, y
  <2>3. Leaves(y, z)
    BY <2>2, RecordOwnLeaves DEF Leaves
  <2> HIDE DEF z
  <2>4. Leaves(z, Send(z, m))
    BY <2>3, SendLeaves DEF Leaves
  <2>5. Leaves(n, Send(z, m))
    BY <2>2, <2>3, <2>4 DEF Leaves
  <2>6. Times(n, Send(z, m))
    BY <2>1, <2>5 DEF Leaves, Times, Timed, WorkPending
  <2>7. Times(Send(z, m), x)
    BY <2>1, <2>5, CheckCommitQuorumTimes DEF Leaves
  <2> QED BY <2>6, <2>7, TimesTimes
<1> QED BY <1>1, <1>2

LEMMA ArmTimerTimes ==
    ASSUME NEW n, Shaped(n)
    PROVE  Times(n, ArmTimer(n)) /\ Timed(ArmTimer(n)) /\ ArmTimer(n).height = n.height
BY DEF ArmTimer, Times, Timed, Shaped, Fields

LEMMA CheckRoundChangeQuorumTimes ==
    ASSUME NEW v, NEW n, Shaped(n), NEW r, NEW x \in CheckRoundChangeQuorum(v, n, r)
    PROVE  Times(n, x)
<1>1. CASE x = n
  BY <1>1 DEF Times
<1>2. CASE x # n
  <2>1. PICK y : /\ y = EnterRound(n, r) \/ \E b : y = Lock(EnterRound(n, r), b, r)
                 /\ x \in MaybePropose(v, ArmTimer(y))
    BY <1>2 DEF CheckRoundChangeQuorum
  <2>2. Shaped(y) /\ y.height = n.height
    BY <2>1 DEF EnterRound, Lock, Shaped, Fields
  <2>3. Timed(ArmTimer(y)) /\ Shaped(ArmTimer(y)) /\ ArmTimer(y).height = y.height
    BY <2>2, ArmTimerTimes DEF Times
  <2>4. Times(ArmTimer(y), x) /\ x.height = ArmTimer(y).height
    BY <2>1, <2>3, MaybeProposeTimes
  <2> QED BY <2>2, <2>3, <2>4 DEF Times
<1> QED BY <1>1, <1>2

LEMMA OnProposalTimes ==
    ASSUME NEW v, NEW n, Shaped(n), NEW m, NEW x \in OnProposal(v, n, m)
    PROVE  Times(n, x)
<1>1. CASE x = n
  BY <1>1 DEF Times
<1>2. CASE x # n
  <2> DEFINE w == [n EXCEPT !.proposal = m.block]
             y == CastPrepare(v, w, m.block)
  <2>1. PICK p \in CheckPrepareQuorum(v, y, m.block) : x = ArmTimer(p)
    BY <1>2 DEF OnProposal
  <2>2. Shaped(w) /\ w.height = n.height
    BY DEF Shaped, Fields
  <2> HIDE DEF w
  <2>3. Shaped(y) /\ y.height = n.height
    BY <2>2, CastPrepareLeaves DEF Leaves
  <2> HIDE DEF y
  <2>4. Times(y, p)
    BY <2>1, <2>3, CheckPrepareQuorumTimes
  <2>5. Times(p, x) /\ Timed(x) /\ x.height = p.height
    BY <2>1, <2>4, ArmTimerTimes DEF Times
  <2> QED BY <2>3, <2>4, <2>5 DEF Times
<1> QED BY <1>1, <1>2

\* A message of the height under vote starts the timer.
LEMMA OnMessageTimes ==
    ASSUME NEW v, NEW n, Shaped(n), NEW m, NEW x \in OnMessage(v, n, m)
    PROVE  Times(n, x)
<1>1. CASE x = n
  BY <1>1 DEF Times
<1>2. CASE x = [n EXCEPT !.future = Append(@, m)]
  BY <1>2 DEF Times, Timed, WorkPending, Shaped, Fields
<1>3. CASE x = Withdraw(n, m)
  BY <1>3 DEF Withdraw, Times, Timed, WorkPending, Shaped, Fields
<1>4. CASE x \in Dispatch(v, ArmTimer([Tally(n, m) EXCEPT !.peerActivity = TRUE]), m)
  <2> DEFINE y == [Tally(n, m) EXCEPT !.peerActivity = TRUE]
             z == ArmTimer(y)
  <2>1. Shaped(y) /\ y.height = n.height
    BY DEF Tally, Shaped, Fields
  <2> HIDE DEF y
  <2>2. Shaped(z) /\ Timed(z) /\ z.height = n.height
    BY <2>1, ArmTimerTimes DEF Times
  <2> HIDE DEF z
  <2>3. x \in Dispatch(v, z, m)
    BY <1>4 DEF y, z
  <2>4. \/ x \in OnProposal(v, z, m) \/ x \in CheckPrepareQuorum(v, z, m.block)
        \/ x \in CheckCommitQuorum(v, z, m.block) \/ x \in CheckRoundChangeQuorum(v, z, m.round)
        \/ x = z
    BY <2>3 DEF Dispatch, OnRoundChange
  <2>5. Times(z, x)
    BY <2>2, <2>4, OnProposalTimes, CheckPrepareQuorumTimes, CheckCommitQuorumTimes,
       CheckRoundChangeQuorumTimes DEF Times
  <2> QED BY <2>2, <2>5 DEF Times
<1> QED BY <1>1, <1>2, <1>3, <1>4 DEF OnMessage

LEMMA OnRoundTimeoutTimes ==
    ASSUME NEW v, NEW n, Shaped(n), NEW x \in OnRoundTimeout(v, n)
    PROVE  Times(n, x)
<1> DEFINE m == Message("ROUND_CHANGE", n.height, n.round + 1, n.locked,
                        IF n.locked = NoBlock THEN 0 ELSE n.lockedRound, v)
           y == RecordOwn(n, m)
           z == Send(y, m)
           w == ArmTimer(z)
<1>1. x \in CheckRoundChangeQuorum(v, w, n.round + 1)
  BY DEF OnRoundTimeout
<1> HIDE DEF m
<1>2. Leaves(n, y)
  BY RecordOwnLeaves
<1> HIDE DEF y
<1>3. Leaves(y, z)
  BY <1>2, SendLeaves DEF Leaves
<1> HIDE DEF z
<1>4. Shaped(w) /\ Timed(w) /\ w.height = n.height
  BY <1>2, <1>3, ArmTimerTimes DEF Leaves, Times
<1> HIDE DEF w
<1> QED BY <1>1, <1>4, CheckRoundChangeQuorumTimes DEF Times

LEMMA OnSubmitTimes ==
    ASSUME NEW v, NEW n, Shaped(n), NEW x \in OnSubmit(v, n)
    PROVE  Times(n, x)
<1> DEFINE q == [n EXCEPT !.queue = @ + 1]
           y == ArmTimerIfWorkPending(q)
<1>1. PICK p \in MaybePropose(v, y) :
          x = p \/ \E c \in CheckPrepareQuorum(v, p, p.proposal) : x = ArmTimer(c)
  BY DEF OnSubmit
<1>2. Shaped(q) /\ q.height = n.height
  BY DEF Shaped, Fields
<1> HIDE DEF q
<1>3. Shaped(y) /\ Timed(y) /\ y.height = q.height
  BY <1>2, ArmIfPendingTimes
<1> HIDE DEF y
<1>4. Times(y, p) /\ p.height = y.height
  BY <1>1, <1>3, MaybeProposeTimes
<1>5. Shaped(p) /\ Timed(p) /\ p.height = n.height
  BY <1>2, <1>3, <1>4 DEF Times
<1>6. CASE x = p
  BY <1>5, <1>6 DEF Times
<1>7. CASE x # p
  <2>1. PICK c \in CheckPrepareQuorum(v, p, p.proposal) : x = ArmTimer(c)
    BY <1>1, <1>7
  <2>2. Times(p, c)
    BY <1>5, <2>1, CheckPrepareQuorumTimes
  <2> QED BY <2>1, <2>2, ArmTimerTimes DEF Times
<1> QED BY <1>6, <1>7

LEMMA OnHeadMovedTimes ==
    ASSUME NEW v, NEW n, Shaped(n), NEW h, NEW x \in OnHeadMoved(v, n, h)
    PROVE  Shaped(x) /\ Timed(x)
<1> DEFINE y == ResolveWaiters(n, h)
<1>1. Shaped(y)
  BY DEF ResolveWaiters, Shaped, Fields
<1>2. x \in StartHeight(v, y, h + 1)
  BY DEF OnHeadMoved
<1> HIDE DEF y
<1> QED BY <1>1, <1>2, StartHeightTimes

\* Whatever the event, the goroutine leaves work with a timer.
TimedInv ==
    /\ DOMAIN node = Honest
    /\ \A v \in Honest : Shaped(node[v]) /\ Timed(node[v])

LEMMA StepTimes ==
    ASSUME TimedInv, NEW v \in Honest, NEW n, Shaped(n), Timed(n), NEW taken, Step(v, n, taken)
    PROVE  TimedInv'
<1> DEFINE x == [n EXCEPT !.out = <<>>, !.synced = IF n.replay = <<>> THEN Current(n) ELSE @]
<1>1. node' = [node EXCEPT ![v] = x]
  BY DEF Step
<1>2. /\ Shaped(x)
      /\ x.replay = n.replay /\ x.queue = n.queue /\ x.ph = n.ph /\ x.locked = n.locked
      /\ x.peerActivity = n.peerActivity /\ x.timerArmed = n.timerArmed
  BY DEF Shaped, Fields
<1> HIDE DEF x
<1>3. Timed(x)
  BY <1>2 DEF Timed, WorkPending
<1> QED BY <1>1, <1>2, <1>3 DEF TimedInv

LEMMA ReplayTimes ==
    ASSUME TimedInv, NEW v \in Honest, Replay(v)
    PROVE  TimedInv'
<1> DEFINE n == [node[v] EXCEPT !.replay = Tail(@)]
           m == Head(node[v].replay)
<1>1. PICK x \in OnMessage(v, n, m) :
          IF x.height = n.height /\ x.replay = <<>>
            THEN \E y \in Settle(v, x) : Step(v, y, Untouched)
            ELSE Step(v, x, Untouched)
  BY DEF Replay
<1>2. Shaped(n)
  BY DEF TimedInv, Shaped, Fields
<1> HIDE DEF n, m
<1>3. Times(n, x)
  BY <1>2, OnMessageTimes
<1>4. CASE x.height = n.height /\ x.replay = <<>>
  <2>1. PICK y \in Settle(v, x) : Step(v, y, Untouched)
    BY <1>1, <1>4
  <2> QED BY <1>3, <2>1, SettleTimes, StepTimes DEF Times
<1>5. CASE x.height = n.height /\ x.replay # <<>>
  BY <1>1, <1>3, <1>5, StepTimes DEF Times, Timed
<1>6. CASE x.height # n.height
  BY <1>1, <1>3, <1>6, StepTimes DEF Times
<1> QED BY <1>4, <1>5, <1>6

LEMMA TimedStep ==
    ASSUME TimedInv, [Next]_vars
    PROVE  TimedInv'
<1>1. ASSUME NEW v \in Honest, Submit(v)
      PROVE  TimedInv'
  BY <1>1, OnSubmitTimes, StepTimes DEF Submit, TimedInv, Times
<1>2. ASSUME NEW v \in Honest, RoundTimeout(v)
      PROVE  TimedInv'
  BY <1>2, OnRoundTimeoutTimes, StepTimes DEF RoundTimeout, TimedInv, Times
<1>3. ASSUME NEW v \in Honest, HeadMoved(v)
      PROVE  TimedInv'
  BY <1>3, OnHeadMovedTimes, StepTimes DEF HeadMoved, TimedInv
<1>4. ASSUME NEW u \in Honest, NEW v \in Honest, Deliver(u, v)
      PROVE  TimedInv'
  <2>1. PICK n \in OnMessage(v, node[v], Head(link[u, v])) : \E taken : Step(v, n, taken)
    BY <1>4 DEF Deliver
  <2> QED BY <2>1, OnMessageTimes, StepTimes DEF TimedInv, Times
<1>5. ASSUME NEW v \in Honest, NEW w \in Honest, CatchUp(v, w)
      PROVE  TimedInv'
  <2> DEFINE x == [node[v] EXCEPT !.chain = Append(@, node[w].chain[Len(@) + 1])]
  <2>1. node' = [node EXCEPT ![v] = x]
    BY <1>5 DEF CatchUp
  <2>2. /\ Shaped(x)
        /\ x.replay = node[v].replay /\ x.queue = node[v].queue /\ x.ph = node[v].ph
        /\ x.locked = node[v].locked /\ x.peerActivity = node[v].peerActivity
        /\ x.timerArmed = node[v].timerArmed
    BY DEF TimedInv, Shaped, Fields
  <2> HIDE DEF x
  <2>3. Timed(x)
    BY <2>2 DEF Timed, WorkPending, TimedInv
  <2> QED BY <2>1, <2>2, <2>3 DEF TimedInv
<1>6. ASSUME NEW v \in Honest, NEW m, Forge(m, v)
      PROVE  TimedInv'
  BY <1>6, OnMessageTimes, StepTimes DEF Forge, TimedInv, Times
<1>7. ASSUME NEW v \in Honest, Restart(v)
      PROVE  TimedInv'
  <2>1. PICK n \in StartHeight(v, Boot(node[v]), Len(node[v].chain) + 1) : \E taken : Step(v, n, taken)
    BY <1>7 DEF Restart
  <2>2. Shaped(Boot(node[v]))
    BY DEF TimedInv, Boot, Shaped, Fields
  <2> QED BY <2>1, <2>2, StartHeightTimes, StepTimes
<1>8. ASSUME NEW u \in Honest, NEW v \in Honest, Lose(u, v)
      PROVE  TimedInv'
  BY <1>8 DEF Lose, TimedInv, Timed, WorkPending, Shaped
<1>9. CASE UNCHANGED vars
  BY <1>9 DEF vars, TimedInv, Timed, WorkPending, Shaped
<1> QED BY <1>1, <1>2, <1>3, <1>4, <1>5, <1>6, <1>7, <1>8, <1>9, ReplayTimes
        DEF Next, HeightNext

LEMMA TimedInit == Init => TimedInv
<1>1. /\ Shaped(GenesisNode)
      /\ GenesisNode.queue = 0 /\ GenesisNode.ph = "idle" /\ GenesisNode.locked = NoBlock
      /\ GenesisNode.peerActivity = FALSE
  BY DEF GenesisNode, Shaped, Fields
<1>2. Timed(GenesisNode)
  BY <1>1 DEF Timed, WorkPending
<1> QED BY <1>1, <1>2, Zenon DEF Init, TimedInv

\* Work always has a timer running, whatever is lost, forged or restarted.
THEOREM WorkIsTimedAlways == Spec => []WorkIsTimed
<1>1. TimedInv => WorkIsTimed
  BY DEF TimedInv, Timed, WorkIsTimed, Ready
<1> QED BY <1>1, TimedInit, TimedStep, PTL DEF Spec
=============================================================================
