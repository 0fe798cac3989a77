----------------------------- MODULE Voting_proofs -----------------------------
(***************************************************************************)
(* Module Voting, for every number of validators, quorum, Byzantine        *)
(* subset, set of blocks and bounds on rounds and restarts.  A restart     *)
(* that forgets a COMMIT counts against MaxFaulty; what assumes that there *)
(* is none says MaxFaulty = Cardinality(Byz).                              *)
(***************************************************************************)
EXTENDS Voting, FiniteSetTheorems, TLAPS

-----------------------------------------------------------------------------
(* Quorums.                                                                *)

\* VALIDATOR_SET has N members.
LEMMA ValidatorsFinite == IsFiniteSet(Validators) /\ Cardinality(Validators) = N
BY FS_Interval, VotingAssumption DEF Validators

\* The least a quorum size has to be: twice it exceeds N and the faulty.
LEMMA QuorumsOverlap ==
    /\ IsFiniteSet(Validators) /\ Byz \subseteq Validators
    /\ Quorum \in Nat
    /\ 2 * Quorum - Cardinality(Validators) > MaxFaulty
    /\ MaxFaulty \in Nat
BY ValidatorsFinite, VotingAssumption

\* The comment of DeriveQuorum, for every size: with f faulty validators of
\* more than 3f, a derived quorum is there when all of them are silent, two
\* of them share an honest validator, and with as many faulty as there may be
\* no smaller number does.
THEOREM DeriveQuorumSafe ==
    ASSUME NEW n \in Nat, NEW f \in Nat, n > 3 * f
    PROVE  /\ DeriveQuorum(n) <= n - f
           /\ 2 * DeriveQuorum(n) - n > f
           /\ \A q \in Nat : (n <= 3 * f + 3 /\ 2 * q - n > f) => q >= DeriveQuorum(n)
<1>1. DeriveQuorum(n) \in Nat /\ 3 * DeriveQuorum(n) <= 2 * n + 2 /\ 2 * n + 2 < 3 * DeriveQuorum(n) + 3
  BY DEF DeriveQuorum
<1>2. DeriveQuorum(n) <= n - f
  BY <1>1
<1>3. 2 * DeriveQuorum(n) - n > f
  BY <1>1
<1>4. \A q \in Nat : (n <= 3 * f + 3 /\ 2 * q - n > f) => q >= DeriveQuorum(n)
  BY <1>1
<1>5. QED
  BY <1>2, <1>3, <1>4

\* Two quorums have a validator in common that is not faulty: the counting
\* argument of DeriveQuorum and of CONSENSUS.md section 5.
LEMMA QuorumsShareCorrect ==
    ASSUME NEW P \in SUBSET Validators, NEW Q \in SUBSET Validators,
           NEW F \in SUBSET Validators, HasQuorum(P), HasQuorum(Q),
           Cardinality(F) <= MaxFaulty
    PROVE  \E v \in Validators \ F : v \in P /\ v \in Q
<1> USE QuorumsOverlap
<1>1. IsFiniteSet(P) /\ IsFiniteSet(Q) /\ IsFiniteSet(F)
  BY FS_Subset
<1>2. IsFiniteSet(P \cup Q) /\ IsFiniteSet(P \cap Q)
  BY <1>1, FS_Union, FS_Intersection
<1>3. /\ Cardinality(P) \in Nat /\ Cardinality(Q) \in Nat
      /\ Cardinality(P \cup Q) \in Nat /\ Cardinality(P \cap Q) \in Nat
      /\ Cardinality(Validators) \in Nat /\ Cardinality(F) \in Nat
  BY <1>1, <1>2, FS_CardinalityType
<1>4. Cardinality(P \cup Q) = Cardinality(P) + Cardinality(Q) - Cardinality(P \cap Q)
  BY <1>1, FS_Union
<1>5. Cardinality(P \cup Q) <= Cardinality(Validators)
  BY FS_Subset
<1>6. Cardinality(P \cap Q) > Cardinality(F)
  BY <1>3, <1>4, <1>5 DEF HasQuorum
<1>7. ~(P \cap Q \subseteq F)
  BY <1>1, <1>3, <1>6, FS_Subset
<1>8. QED
  BY <1>7

\* In particular an honest one.
LEMMA QuorumsShareHonest ==
    ASSUME NEW P \in SUBSET Validators, NEW Q \in SUBSET Validators,
           HasQuorum(P), HasQuorum(Q)
    PROVE  \E v \in Honest : v \in P /\ v \in Q
BY QuorumsShareCorrect, VotingAssumption DEF Honest

\* Hearing of more signatures does not lose a quorum.
LEMMA QuorumGrows ==
    ASSUME NEW P \in SUBSET Validators, NEW Q \in SUBSET Validators, P \subseteq Q, HasQuorum(P)
    PROVE  HasQuorum(Q)
<1>1. IsFiniteSet(P) /\ IsFiniteSet(Q)
  BY ValidatorsFinite, FS_Subset
<1>2. Cardinality(P) \in Nat /\ Cardinality(Q) \in Nat /\ Cardinality(P) <= Cardinality(Q)
  BY <1>1, FS_Subset, FS_CardinalityType
<1>3. QED
  BY <1>2, VotingAssumption DEF HasQuorum

-----------------------------------------------------------------------------
(* Type correctness.                                                       *)

\* A round change adopts a lock that was reported, so one of BlockOrNil.
LEMMA AdoptedLock ==
    ASSUME TypeOK, NEW r, NEW lock \in ReportedLocks(r)
    PROVE  lock \in BlockOrNil
<1>1. PICK S \in HeardChanges(r) : lock \in HighestLocks(S)
  BY DEF ReportedLocks
<1>2. QED
  BY <1>1 DEF TypeOK, HeardChanges, HighestLocks, Messages, BlockOrNil

\* newRoundState yields a state of the declared shapes.
LEMMA TypeInit == Init => TypeOK
<1> SUFFICES ASSUME Init PROVE TypeOK
  OBVIOUS
<1>1. 0 \in Rounds
  BY VotingAssumption DEF Rounds
<1>2. Forgeries \subseteq Messages
  <2>1. MaxRound \in Rounds
    BY VotingAssumption DEF Rounds
  <2>2. QED
    BY <1>1, <2>1, VotingAssumption
    DEF Forgeries, Messages, Proposal, Prepare, Commit, RoundChange, Message, BlockOrNil
<1>3. QED
  BY <1>1, <1>2 DEF Init, TypeOK, Phases, BlockOrNil

\* Every handler of the engine, and a restart, keeps the shapes.
LEMMA TypeStep == TypeOK /\ [Next]_vars => TypeOK'
<1> SUFFICES ASSUME TypeOK, [Next]_vars PROVE TypeOK'
  OBVIOUS
<1> USE VotingAssumption DEF TypeOK, Phases, BlockOrNil
<1>1. 0 \in Rounds /\ Honest \subseteq Validators
  BY DEF Rounds, Honest
<1>2. ASSUME NEW v \in Honest, Propose(v) PROVE TypeOK'
  <2>1. PICK b \in Blocks : BroadcastProposal(v, round[v], b)
    BY <1>2 DEF Propose
  <2>2. {Proposal(round[v], b, v), Prepare(round[v], b, v)} \subseteq Messages
    BY <1>1 DEF Proposal, Prepare, Message, Messages
  <2>3. QED
    BY <1>2, <2>1, <2>2 DEF Propose, BroadcastProposal, lives
<1>3. ASSUME NEW v \in Honest, OnProposal(v) PROVE TypeOK'
  <2>1. PICK b \in Blocks :
            /\ proposal' = [proposal EXCEPT ![v] = b]
            /\ msgs' = msgs \cup {Prepare(round[v], b, v)}
    BY <1>3 DEF OnProposal
  <2>2. Prepare(round[v], b, v) \in Messages
    BY <1>1 DEF Prepare, Message, Messages
  <2>3. QED
    BY <1>3, <2>1, <2>2 DEF OnProposal, lives
<1>4. ASSUME NEW v \in Honest, OnPrepareQuorum(v) PROVE TypeOK'
  <2>1. Commit(proposal[v], v) \in Messages
    BY <1>1 DEF Commit, Message, Messages
  <2>2. QED
    BY <1>4, <2>1 DEF OnPrepareQuorum, lives
<1>5. ASSUME NEW v \in Honest, OnCommitQuorum(v) PROVE TypeOK'
  BY <1>5 DEF OnCommitQuorum, state, lives
<1>6. ASSUME NEW v \in Honest, OnRoundTimeout(v) PROVE TypeOK'
  <2>1. round[v] + 1 \in Rounds
    BY <1>6 DEF OnRoundTimeout, Rounds
  <2>2. RoundChange(round[v] + 1, locked[v], lockedRound[v], v) \in Messages
    BY <1>1, <2>1 DEF RoundChange, Message, Messages
  <2>3. QED
    BY <1>6, <2>2 DEF OnRoundTimeout, state, lives
<1>7. ASSUME NEW v \in Honest, OnRoundChangeQuorum(v) PROVE TypeOK'
  <2>1. PICK r \in Rounds, lock \in BlockOrNil : EnterRound(v, r, lock)
    BY <1>7, AdoptedLock DEF OnRoundChangeQuorum
  <2>2. \A b \in Blocks : {Proposal(r, b, v), Prepare(r, b, v)} \subseteq Messages
    BY <1>1 DEF Proposal, Prepare, Message, Messages
  <2>3. proposal' \in [Honest -> BlockOrNil] /\ ph' \in [Honest -> Phases] /\ msgs' \subseteq Messages
    BY <2>1, <2>2 DEF EnterRound, BroadcastProposal
  <2>4. round' \in [Honest -> Rounds] /\ locked' \in [Honest -> BlockOrNil]
    BY <2>1 DEF EnterRound
  <2>5. lockedRound' \in [Honest -> Rounds]
    BY <2>1 DEF EnterRound
  <2>6. QED
    BY <1>7, <2>3, <2>4, <2>5 DEF OnRoundChangeQuorum, lives
<1>8. ASSUME NEW v \in Honest, Restart(v) PROVE TypeOK'
  BY <1>1, <1>8 DEF Restart
<1>9. ASSUME NEW v \in Honest, NEW w \in Honest, CatchUp(v, w) PROVE TypeOK'
  BY <1>9 DEF CatchUp, state, lives
<1>10. CASE UNCHANGED vars
  BY <1>10 DEF vars
<1>11. QED
  BY <1>2, <1>3, <1>4, <1>5, <1>6, <1>7, <1>8, <1>9, <1>10 DEF Next

\* Rounds, locks, proposals and messages keep their shapes, restarts
\* included: in particular an adopted lock is a block somebody reported.
THEOREM TypeCorrect == Spec => []TypeOK
BY TypeInit, TypeStep, PTL DEF Spec

-----------------------------------------------------------------------------
(* One COMMIT per validator and height, and agreement.                     *)

\* An action either leaves the COMMITs of honest validators alone or is
\* OnPrepareQuorum.
QuietStep(v) ==
    \/ Propose(v) \/ OnProposal(v) \/ OnCommitQuorum(v)
    \/ OnRoundTimeout(v) \/ OnRoundChangeQuorum(v)

\* Handlers are no restarts.
LEMMA HandlersRemember ==
    ASSUME NEW v \in Honest, QuietStep(v) \/ OnPrepareQuorum(v)
    PROVE  amnesiac' = amnesiac
BY DEF QuietStep, Propose, OnProposal, OnPrepareQuorum, OnCommitQuorum, OnRoundTimeout,
       OnRoundChangeQuorum, lives

\* A handler that broadcasts no COMMIT leaves the honest ones as they are.
LEMMA QuietCommits ==
    ASSUME NEW v \in Honest, QuietStep(v)
    PROVE  msgs \subseteq msgs' /\ HonestCommits' = HonestCommits
<1> USE DEF HonestCommits, Message
<1>1. CASE Propose(v)
  BY <1>1 DEF Propose, BroadcastProposal, Proposal, Prepare
<1>2. CASE OnProposal(v)
  BY <1>2 DEF OnProposal, Prepare
<1>3. CASE OnCommitQuorum(v)
  BY <1>3 DEF OnCommitQuorum
<1>4. CASE OnRoundTimeout(v)
  BY <1>4 DEF OnRoundTimeout, RoundChange
<1>5. CASE OnRoundChangeQuorum(v)
  <2>1. PICK r, lock : EnterRound(v, r, lock)
    BY <1>5 DEF OnRoundChangeQuorum
  <2>2. QED
    BY <2>1 DEF EnterRound, BroadcastProposal, Proposal, Prepare
<1>6. QED
  BY <1>1, <1>2, <1>3, <1>4, <1>5 DEF QuietStep

\* A quorum of COMMITs stays one when messages are added.
LEMMA CommittersGrow ==
    ASSUME TypeOK, TypeOK', msgs \subseteq msgs', NEW b, HasQuorum(Committers(b))
    PROVE  HasQuorum(Committers(b)')
<1>1. Committers(b) \in SUBSET Validators /\ Committers(b)' \in SUBSET Validators
  BY DEF TypeOK, Committers, Messages
<1>2. Committers(b) \subseteq Committers(b)'
  BY DEF Committers
<1>3. QED
  BY <1>1, <1>2, QuorumGrows

\* A height starts with no COMMIT, no proposal and no decision.
LEMMA InvInit == Init => Inv
<1> SUFFICES ASSUME Init PROVE Inv
  OBVIOUS
<1>1. HonestCommits = {}
  BY DEF Init, HonestCommits, Forgeries, Proposal, Prepare, Commit, RoundChange, Message, Honest
<1>2. CommitLock
  BY <1>1 DEF CommitLock
<1>3. VotedBlock /\ DecidedCommitted
  BY DEF Init, VotedBlock, DecidedCommitted, Undecided
<1>4. FaultsBounded
  BY VotingAssumption DEF Init, FaultsBounded
<1>5. QED
  BY <1>2, <1>3, <1>4, TypeInit DEF Inv

\* CommitLock, VotedBlock and DecidedCommitted, one action at a time.
LEMMA InvStep == Inv /\ [Next]_vars => Inv'
<1> SUFFICES ASSUME Inv, [Next]_vars PROVE Inv'
  OBVIOUS
<1> USE DEF TypeOK, BlockOrNil
<1>1. TypeOK /\ TypeOK' /\ CommitLock /\ VotedBlock /\ DecidedCommitted
  BY TypeStep DEF Inv
<1>2. ASSUME NEW v \in Honest, Propose(v) PROVE CommitLock' /\ VotedBlock' /\ DecidedCommitted'
  <2>1. HonestCommits' = HonestCommits /\ msgs \subseteq msgs'
    BY <1>2, QuietCommits DEF QuietStep
  <2>2. CommitLock'
    BY <1>1, <1>2, <2>1, HandlersRemember DEF Propose, CommitLock, QuietStep
  <2>3. VotedBlock'
    BY <1>1, <1>2 DEF Propose, BroadcastProposal, VotedBlock
  <2>4. DecidedCommitted'
    BY <1>1, <1>2, <2>1, CommittersGrow DEF Propose, DecidedCommitted, Undecided
  <2>5. QED
    BY <2>2, <2>3, <2>4
<1>3. ASSUME NEW v \in Honest, OnProposal(v) PROVE CommitLock' /\ VotedBlock' /\ DecidedCommitted'
  <2>1. HonestCommits' = HonestCommits /\ msgs \subseteq msgs'
    BY <1>3, QuietCommits DEF QuietStep
  <2>2. CommitLock'
    BY <1>1, <1>3, <2>1, HandlersRemember DEF OnProposal, CommitLock, QuietStep
  <2>3. VotedBlock'
    BY <1>1, <1>3 DEF OnProposal, AcceptableProposal, VotedBlock
  <2>4. DecidedCommitted'
    BY <1>1, <1>3, <2>1, CommittersGrow DEF OnProposal, DecidedCommitted, Undecided
  <2>5. QED
    BY <2>2, <2>3, <2>4
<1>4. ASSUME NEW v \in Honest, OnPrepareQuorum(v) PROVE CommitLock' /\ VotedBlock' /\ DecidedCommitted'
  <2>1. proposal[v] \in Blocks /\ locked[v] \in {NoBlock, proposal[v]}
    BY <1>1, <1>4 DEF OnPrepareQuorum, VotedBlock
  <2>2. HonestCommits' = HonestCommits \cup {Commit(proposal[v], v)} /\ msgs \subseteq msgs'
    BY <1>4 DEF OnPrepareQuorum, HonestCommits, Commit, Message
  <2>3. locked' = [locked EXCEPT ![v] = proposal[v]]
    BY <1>4 DEF OnPrepareQuorum
  <2>4. CommitLock'
    <3> SUFFICES ASSUME NEW m \in HonestCommits', m.signer \notin amnesiac \/ m.signer = v
                 PROVE  m.block \in Blocks /\ (m.signer \in amnesiac \/ locked'[m.signer] = m.block)
      BY <1>1, <1>4, <2>2, HandlersRemember DEF CommitLock, Commit, Message
    <3>1. CASE m = Commit(proposal[v], v)
      BY <1>1, <2>1, <2>3, <3>1 DEF Commit, Message
    <3>2. CASE m \in HonestCommits
      <4>1. m.block \in Blocks /\ (m.signer \in amnesiac \/ locked[m.signer] = m.block)
        BY <1>1, <3>2 DEF CommitLock
      <4>2. QED
        BY <1>1, <2>1, <2>3, <4>1, VotingAssumption
    <3>3. QED
      BY <2>2, <3>1, <3>2
  <2>5. VotedBlock'
    BY <1>1, <1>4 DEF OnPrepareQuorum, VotedBlock
  <2>6. DecidedCommitted'
    BY <1>1, <1>4, <2>2, CommittersGrow DEF OnPrepareQuorum, DecidedCommitted, Undecided
  <2>7. QED
    BY <2>4, <2>5, <2>6
<1>5. ASSUME NEW v \in Honest, OnCommitQuorum(v) PROVE CommitLock' /\ VotedBlock' /\ DecidedCommitted'
  <2>1. PICK b \in Blocks : HasQuorum(Committers(b)) /\ decided' = [decided EXCEPT ![v] = b]
    BY <1>5 DEF OnCommitQuorum
  <2>2. UNCHANGED <<state, msgs, amnesiac>>
    BY <1>5 DEF OnCommitQuorum, lives
  <2>3. CommitLock' /\ VotedBlock'
    BY <1>1, <2>2 DEF CommitLock, VotedBlock, HonestCommits, state
  <2>4. DecidedCommitted'
    BY <1>1, <2>1, <2>2 DEF DecidedCommitted, Undecided, Committers
  <2>5. QED
    BY <2>3, <2>4
<1>6. ASSUME NEW v \in Honest, OnRoundTimeout(v) PROVE CommitLock' /\ VotedBlock' /\ DecidedCommitted'
  <2>1. HonestCommits' = HonestCommits /\ msgs \subseteq msgs'
    BY <1>6, QuietCommits DEF QuietStep
  <2>2. CommitLock' /\ VotedBlock'
    BY <1>1, <1>6, <2>1, HandlersRemember DEF OnRoundTimeout, CommitLock, VotedBlock, state, QuietStep
  <2>3. DecidedCommitted'
    BY <1>1, <1>6, <2>1, CommittersGrow DEF OnRoundTimeout, DecidedCommitted, Undecided
  <2>4. QED
    BY <2>2, <2>3
<1>7. ASSUME NEW v \in Honest, OnRoundChangeQuorum(v) PROVE CommitLock' /\ VotedBlock' /\ DecidedCommitted'
  <2>1. HonestCommits' = HonestCommits /\ msgs \subseteq msgs'
    BY <1>7, QuietCommits DEF QuietStep
  <2>2. PICK r, lock : EnterRound(v, r, lock)
    BY <1>7 DEF OnRoundChangeQuorum
  <2>3. \A w \in Honest : locked[w] # NoBlock => locked'[w] = locked[w]
    BY <1>1, <2>2 DEF EnterRound
  <2>4. CommitLock'
    BY <1>1, <1>7, <2>1, <2>3, HandlersRemember, VotingAssumption DEF CommitLock, HonestCommits, QuietStep
  <2>5. VotedBlock'
    <3>1. CASE proposal' = [proposal EXCEPT ![v] = NoBlock] /\ ph' = [ph EXCEPT ![v] = "idle"]
      BY <1>1, <2>2, <3>1 DEF EnterRound, VotedBlock
    <3>2. ASSUME NEW b \in Blocks, BroadcastProposal(v, r, b),
                 locked'[v] # NoBlock => b = locked'[v]
          PROVE  VotedBlock'
      BY <1>1, <2>2, <3>2 DEF EnterRound, BroadcastProposal, VotedBlock
    <3>3. QED
      BY <1>1, <2>2, <3>1, <3>2 DEF EnterRound
  <2>6. DecidedCommitted'
    BY <1>1, <1>7, <2>1, CommittersGrow DEF OnRoundChangeQuorum, DecidedCommitted, Undecided
  <2>7. QED
    BY <2>4, <2>5, <2>6
<1>8. ASSUME NEW v \in Honest, Restart(v) PROVE CommitLock' /\ VotedBlock' /\ DecidedCommitted'
  <2>1. msgs' = msgs /\ decided' = decided /\ HonestCommits' = HonestCommits
    BY <1>8 DEF Restart, HonestCommits
  <2>2. /\ amnesiac \subseteq amnesiac'
        /\ \A m \in HonestCommits : m.signer = v => v \in amnesiac'
    BY <1>8 DEF Restart
  <2>3. \A w \in Honest : w # v => locked'[w] = locked[w]
    BY <1>1, <1>8 DEF Restart
  <2>4. CommitLock'
    BY <1>1, <2>1, <2>2, <2>3 DEF CommitLock, HonestCommits
  <2>5. VotedBlock'
    BY <1>1, <1>8 DEF Restart, VotedBlock
  <2>6. DecidedCommitted'
    BY <1>1, <2>1 DEF DecidedCommitted, Undecided, Committers
  <2>7. QED
    BY <2>4, <2>5, <2>6
<1>9. ASSUME NEW v \in Honest, NEW w \in Honest, CatchUp(v, w)
      PROVE  CommitLock' /\ VotedBlock' /\ DecidedCommitted'
  <2>1. CommitLock' /\ VotedBlock'
    BY <1>1, <1>9 DEF CatchUp, CommitLock, VotedBlock, HonestCommits, state, lives
  <2>2. DecidedCommitted'
    BY <1>1, <1>9 DEF CatchUp, DecidedCommitted, Undecided, Committers
  <2>3. QED
    BY <2>1, <2>2
<1>10. ASSUME UNCHANGED vars PROVE CommitLock' /\ VotedBlock' /\ DecidedCommitted'
  <2>1. UNCHANGED <<ph, proposal, locked, decided, msgs, amnesiac>>
    BY <1>10 DEF vars
  <2>2. CommitLock' /\ VotedBlock'
    BY <1>1, <2>1 DEF CommitLock, VotedBlock, HonestCommits
  <2>3. DecidedCommitted'
    BY <1>1, <2>1 DEF DecidedCommitted, Undecided, Committers
  <2>4. QED
    BY <2>2, <2>3
<1>11. CommitLock' /\ VotedBlock' /\ DecidedCommitted'
  BY <1>2, <1>3, <1>4, <1>5, <1>6, <1>7, <1>8, <1>9, <1>10 DEF Next
<1>12. FaultsBounded'
  <2>1. ASSUME NEW v \in Honest, Restart(v) PROVE FaultsBounded'
    BY <2>1 DEF Restart, FaultsBounded, Inv
  <2>2. CASE amnesiac' = amnesiac
    BY <2>2 DEF FaultsBounded, Inv
  <2>3. QED
    BY <2>1, <2>2, HandlersRemember DEF Next, QuietStep, CatchUp, lives, vars
<1>13. QED
  BY <1>1, <1>11, <1>12 DEF Inv

\* Two decided blocks share a committer that has forgotten nothing, and it is
\* locked on both.
LEMMA InvAgreement == Inv => Agreement
<1> SUFFICES ASSUME Inv, NEW v \in Honest, NEW w \in Honest, ~Undecided(v), ~Undecided(w)
             PROVE  decided[v] = decided[w]
  BY DEF Agreement
<1>1. /\ HasQuorum(Committers(decided[v])) /\ HasQuorum(Committers(decided[w]))
      /\ Committers(decided[v]) \in SUBSET Validators
      /\ Committers(decided[w]) \in SUBSET Validators
  BY DEF Inv, DecidedCommitted, TypeOK, Committers, Messages
<1>2. Byz \cup amnesiac \in SUBSET Validators /\ Cardinality(Byz \cup amnesiac) <= MaxFaulty
  BY VotingAssumption DEF Inv, TypeOK, FaultsBounded, Honest
<1>3. PICK u \in Validators \ (Byz \cup amnesiac) :
          u \in Committers(decided[v]) /\ u \in Committers(decided[w])
  BY <1>1, <1>2, QuorumsShareCorrect
<1>4. locked[u] = decided[v] /\ locked[u] = decided[w]
  BY <1>3 DEF Inv, CommitLock, Committers, HonestCommits, Honest
<1>5. QED
  BY <1>4

\* When Byzantine validators exhaust the fault assumption, none is left to
\* forget a COMMIT.
LEMMA NoneForgets == MaxFaulty = Cardinality(Byz) /\ Inv => amnesiac = {}
<1> SUFFICES ASSUME MaxFaulty = Cardinality(Byz), Inv, NEW v \in amnesiac PROVE FALSE
  OBVIOUS
<1>1. v \in Validators \ Byz /\ Byz \cup amnesiac \in SUBSET Validators
  BY VotingAssumption DEF Inv, TypeOK, Honest
<1>2. IsFiniteSet(Byz \cup amnesiac) /\ IsFiniteSet(Byz)
  BY <1>1, ValidatorsFinite, VotingAssumption, FS_Subset
<1>3. Cardinality(Byz) < Cardinality(Byz \cup amnesiac)
  <2>1. Cardinality(Byz \cup {v}) = Cardinality(Byz) + 1
    BY <1>1, <1>2, FS_AddElement
  <2>2. Cardinality(Byz \cup {v}) <= Cardinality(Byz \cup amnesiac)
    BY <1>2, FS_Subset
  <2>3. Cardinality(Byz) \in Nat /\ Cardinality(Byz \cup amnesiac) \in Nat
    BY <1>2, FS_CardinalityType
  <2>4. QED
    BY <2>1, <2>2, <2>3
<1>4. QED
  BY <1>2, <1>3, FS_CardinalityType DEF Inv, FaultsBounded

\* Type correctness, the lock, the bound on faults and the quorums behind
\* decisions hold throughout.
THEOREM InvAlways == Spec => []Inv
BY InvInit, InvStep, PTL DEF Spec

\* The blocks two honest validators hold at a height are the same block, over
\* any network, with any number of round changes, and with restarts, as long
\* as those that are Byzantine or forget a COMMIT are at most MaxFaulty.
THEOREM AgreementAlways == Spec => []Agreement
BY InvAlways, InvAgreement, PTL

\* CONSENSUS.md section 5 at one height: an honest validator broadcasts
\* COMMITs for one block only, unless a restart makes it forget one.
THEOREM CommitOnceAlways == MaxFaulty = Cardinality(Byz) => (Spec => []CommitOnce)
<1> SUFFICES ASSUME MaxFaulty = Cardinality(Byz) PROVE Spec => []CommitOnce
  OBVIOUS
<1>1. Inv => CommitOnce
  BY NoneForgets DEF Inv, CommitLock, CommitOnce
<1>2. QED
  BY InvAlways, <1>1, PTL

-----------------------------------------------------------------------------
(* One height implements module Finality.                                  *)

CastVote(b, v) == [signer |-> v, height |-> 1, block |-> b]

\* The instance meets the assumption of module Finality.
LEMMA PromiseAssumption == Promise!FinalityAssumption
BY QuorumsShareHonest, VotingAssumption
   DEF Promise!FinalityAssumption, Quorums, Promise!Honest, Honest

\* A quorum of COMMITs is what Finality asks of a block.
LEMMA QuorumCommitted ==
    ASSUME TypeOK, NEW b \in Blocks, HasQuorum(Committers(b))
    PROVE  Promise!Committed(CastVotes, 1, b)
<1>1. Committers(b) \in Quorums
  BY DEF TypeOK, Committers, Messages, Quorums
<1>2. \A v \in Committers(b) \ Byz : CastVote(b, v) \in CastVotes
  BY <1>1 DEF Committers, CastVotes, CastVote, HonestCommits, Honest, Quorums
<1>3. QED
  BY <1>1, <1>2 DEF Promise!Committed, Promise!Vote, CastVote

\* A handler that decides nothing and commits nothing is a stutter of Finality.
LEMMA QuietChain ==
    ASSUME NEW v \in Honest, QuietStep(v), ~OnCommitQuorum(v)
    PROVE  decided' = decided
BY DEF QuietStep, state, Propose, OnProposal, OnRoundTimeout, OnRoundChangeQuorum

\* A height starts as Finality does.
LEMMA PromiseInit == Init => Promise!Init
<1> SUFFICES ASSUME Init PROVE Promise!Init
  OBVIOUS
<1>1. HonestCommits = {}
  BY DEF Init, HonestCommits, Forgeries, Proposal, Prepare, Commit, RoundChange, Message, Honest
<1>2. CastVotes = {}
  BY <1>1 DEF CastVotes
<1>3. ChainOf = [v \in Honest |-> <<>>]
  BY DEF Init, ChainOf, Undecided
<1>4. QED
  BY <1>2, <1>3 DEF Promise!Init, Promise!Honest, Honest

\* A COMMIT maps to Commit, a quorum to Finalize, CatchUp to itself, and the
\* rest of the protocol to a stutter.
LEMMA PromiseStep ==
    MaxFaulty = Cardinality(Byz) /\ Inv /\ [Next]_vars => [Promise!Next]_(Promise!vars)
<1> SUFFICES ASSUME MaxFaulty = Cardinality(Byz), Inv, [Next]_vars
             PROVE  Promise!Next \/ (CastVotes' = CastVotes /\ ChainOf' = ChainOf)
  BY DEF Promise!vars
<1> USE DEF BlockOrNil
<1>1. TypeOK /\ CommitLock /\ VotedBlock /\ amnesiac = {}
  BY NoneForgets DEF Inv
<1>2. Promise!Honest = Honest
  BY DEF Promise!Honest, Honest
<1>3. ASSUME NEW v \in Honest, QuietStep(v), ~OnCommitQuorum(v)
      PROVE  CastVotes' = CastVotes /\ ChainOf' = ChainOf
  <2>1. HonestCommits' = HonestCommits /\ decided' = decided
    BY <1>3, QuietCommits, QuietChain
  <2>2. QED
    BY <2>1 DEF CastVotes, ChainOf, Undecided
<1>4. ASSUME NEW v \in Honest, OnPrepareQuorum(v) PROVE Promise!Commit(v)
  <2>1. proposal[v] \in Blocks /\ locked[v] \in {NoBlock, proposal[v]}
    BY <1>1, <1>4 DEF OnPrepareQuorum, VotedBlock
  <2>2. HonestCommits' = HonestCommits \cup {Commit(proposal[v], v)}
    BY <1>4 DEF OnPrepareQuorum, HonestCommits, Commit, Message
  <2>3. CastVotes' = CastVotes \cup {CastVote(proposal[v], v)}
    <3>1. Commit(proposal[v], v).signer = v /\ Commit(proposal[v], v).block = proposal[v]
      BY DEF Commit, Message
    <3>2. QED
      BY <2>2, <3>1 DEF CastVotes, CastVote
  <2>4. ChainOf' = ChainOf
    BY <1>4 DEF OnPrepareQuorum, ChainOf, Undecided
  <2>5. \A c \in Blocks : CastVote(c, v) \in CastVotes => c = proposal[v]
    <3> SUFFICES ASSUME NEW c \in Blocks, CastVote(c, v) \in CastVotes PROVE c = proposal[v]
      OBVIOUS
    <3>1. PICK m \in HonestCommits : m.signer = v /\ m.block = c
      BY DEF CastVotes, CastVote
    <3>2. locked[v] = c
      BY <1>1, <3>1 DEF CommitLock
    <3>3. QED
      BY <2>1, <3>2, VotingAssumption
  <2>6. Promise!MayVote(v, 1, proposal[v])
    BY <2>5 DEF Promise!MayVote, Promise!Vote, CastVote
  <2>7. QED
    BY <2>1, <2>3, <2>4, <2>6 DEF Promise!Commit, Promise!Vote, CastVote
<1>5. ASSUME NEW v \in Honest, OnCommitQuorum(v) PROVE Promise!Finalize(v)
  <2>1. PICK b \in Blocks : HasQuorum(Committers(b)) /\ decided' = [decided EXCEPT ![v] = b]
    BY <1>5 DEF OnCommitQuorum
  <2>2. Undecided(v) /\ msgs' = msgs
    BY <1>5 DEF OnCommitQuorum
  <2>3. CastVotes' = CastVotes
    BY <2>2 DEF CastVotes, HonestCommits
  <2>4. ChainOf[v] = <<>> /\ Len(ChainOf[v]) < 1 /\ Len(ChainOf[v]) + 1 = 1
    BY <2>2 DEF ChainOf
  <2>5. ChainOf' = [ChainOf EXCEPT ![v] = Append(@, b)]
    <3>1. b # NoBlock /\ decided'[v] = b
      BY <1>1, <2>1, VotingAssumption DEF TypeOK
    <3>2. \A w \in Honest \ {v} : decided'[w] = decided[w]
      BY <1>1, <2>1 DEF TypeOK
    <3>3. ChainOf' = [w \in Honest |-> IF w = v THEN <<b>> ELSE ChainOf[w]]
      BY <3>1, <3>2 DEF ChainOf, Undecided
    <3>4. Append(ChainOf[v], b) = <<b>>
      BY <2>4
    <3>5. QED
      BY <3>3, <3>4 DEF ChainOf
  <2>6. Promise!Committed(CastVotes, Len(ChainOf[v]) + 1, b)
    BY <1>1, <2>1, <2>4, QuorumCommitted
  <2>7. QED
    BY <2>3, <2>4, <2>5, <2>6 DEF Promise!Finalize, Promise!Extends
<1>6. ASSUME NEW v \in Honest, Restart(v) PROVE CastVotes' = CastVotes /\ ChainOf' = ChainOf
  BY <1>6 DEF Restart, CastVotes, HonestCommits, ChainOf, Undecided
<1>7. ASSUME NEW v \in Honest, NEW w \in Honest, CatchUp(v, w) PROVE Promise!CatchUp(v, w)
  <2>1. Undecided(v) /\ ~Undecided(w) /\ decided' = [decided EXCEPT ![v] = decided[w]] /\ msgs' = msgs
    BY <1>7 DEF CatchUp
  <2>2. ChainOf[v] = <<>> /\ ChainOf[w] = <<decided[w]>>
    BY <2>1 DEF ChainOf
  <2>3. CastVotes' = CastVotes
    BY <2>1 DEF CastVotes, HonestCommits
  <2>4. ChainOf' = [ChainOf EXCEPT ![v] = Append(@, ChainOf[w][Len(@) + 1])]
    <3>1. decided'[v] = decided[w] /\ decided[w] # NoBlock
      BY <1>1, <2>1 DEF TypeOK, Undecided
    <3>2. \A u \in Honest \ {v} : decided'[u] = decided[u]
      BY <1>1, <2>1 DEF TypeOK
    <3>3. ChainOf' = [u \in Honest |-> IF u = v THEN <<decided[w]>> ELSE ChainOf[u]]
      BY <3>1, <3>2 DEF ChainOf, Undecided
    <3>4. Append(ChainOf[v], ChainOf[w][Len(ChainOf[v]) + 1]) = <<decided[w]>>
      BY <2>2
    <3>5. QED
      BY <3>3, <3>4 DEF ChainOf
  <2>5. QED
    BY <2>2, <2>3, <2>4 DEF Promise!CatchUp
<1>8. ASSUME UNCHANGED vars PROVE CastVotes' = CastVotes /\ ChainOf' = ChainOf
  BY <1>8 DEF vars, CastVotes, HonestCommits, ChainOf, Undecided
<1>9. QED
  BY <1>2, <1>3, <1>4, <1>5, <1>6, <1>7, <1>8 DEF Next, QuietStep, Promise!Next

\* A height of the engine, with its rounds, locks, round changes, Byzantine
\* validators and unreliable network, is an implementation of Finality.
THEOREM ImplementsFinality == MaxFaulty = Cardinality(Byz) => (Spec => PromiseKept)
<1> SUFFICES ASSUME MaxFaulty = Cardinality(Byz) PROVE Spec => PromiseKept
  OBVIOUS
<1>1. Inv /\ [Next]_vars => [Promise!Next]_(Promise!vars)
  BY PromiseStep
<1>2. QED
  BY InvAlways, PromiseInit, <1>1, PTL DEF Spec, PromiseKept, Promise!Spec
=============================================================================
