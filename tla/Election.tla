-------------------------------- MODULE Election --------------------------------
(***************************************************************************)
(* The divisions of an election: one packages/hardhat/contracts/Voting.sol *)
(* per division and the NicRegistry.sol they share.  An action is one      *)
(* transaction that does not revert, both contracts' writes included.      *)
(*                                                                         *)
(* Per-election mappings are keyed by s_electionId, which only grows: the  *)
(* ones of the current election are kept.  Time is kept as what the        *)
(* contract compares it with: whether a division's deadline has passed.    *)
(***************************************************************************)
EXTENDS NicRegistry, FiniteSets

CONSTANTS
    Commitments,    \* leaves a voter can compute: [nullifier, secret]
    MaxCandidates,  \* longest candidate list set
    MaxElection     \* resetElection is not called beyond this electionId

ASSUME ElectionAssumption ==
    /\ \A c \in Commitments : c = [nullifier |-> c.nullifier, secret |-> c.secret]
    /\ MaxCandidates \in Nat /\ MaxElection \in Nat

VARIABLES
    phase,       \* s_phase
    expired,     \* block.timestamp has reached the end time of the phase
    electionId,  \* s_electionId
    officers,    \* s_isGnOfficer
    candidates,  \* the length of s_candidates
    nicEpoch,    \* s_nicEpoch
    voters,      \* s_voters[s_electionId]
    registered,  \* s_hasRegistered[s_electionId]
    leaves,      \* s_trees[s_electionId], each leaf with who inserted it
    nullifiers,  \* s_nullifierHashes[s_electionId]
    votes        \* s_voteCounts[s_electionId]

ballot == <<leaves, nullifiers, votes>>
roll == <<officers, voters, registered>>
stage == <<phase, expired, electionId, candidates, nicEpoch>>
vars == <<nicVars, ballot, roll, stage>>

NoVotes == [i \in 0 .. MaxCandidates - 1 |-> 0]

\* The phase every call acts on: _maybeAdvancePhase comes first, and
\* currentPhase() reports the same.
CurrentPhase(d) ==
    IF phase[d] \in {"Registration", "Voting"} /\ expired[d] THEN "Ended" ELSE phase[d]

Tree(d) == {l.commitment : l \in leaves[d]}

MoveTo(d, p) ==
    /\ phase' = [phase EXCEPT ![d] = p]
    /\ expired' = [expired EXCEPT ![d] = FALSE]

-----------------------------------------------------------------------------
(* Voting.sol, calls by the owner.                                         *)

SetCandidates(d) ==
    /\ CurrentPhase(d) = "Setup"
    /\ \E k \in 1 .. MaxCandidates : candidates' = [candidates EXCEPT ![d] = k]
    /\ UNCHANGED <<nicVars, ballot, roll, phase, expired, electionId, nicEpoch>>

SetGNOfficer(d) ==
    /\ \E o \in Officers, isOfficer \in BOOLEAN :
          officers' = [officers EXCEPT ![d] = IF isOfficer THEN @ \cup {o} ELSE @ \ {o}]
    /\ UNCHANGED <<nicVars, ballot, stage, voters, registered>>

AddVoters(d) ==
    /\ CurrentPhase(d) \in {"Setup", "Registration"}
    /\ \E v \in Devices, status \in BOOLEAN :
          voters' = [voters EXCEPT ![d] = IF status THEN @ \cup {v} ELSE @ \ {v}]
    /\ UNCHANGED <<nicVars, ballot, stage, officers, registered>>

\* The registry's epoch is pinned for as long as the election lasts.
StartRegistration(d) ==
    /\ CurrentPhase(d) = "Setup"
    /\ candidates[d] > 0
    /\ MoveTo(d, "Registration")
    /\ nicEpoch' = [nicEpoch EXCEPT ![d] = epoch]
    /\ UNCHANGED <<nicVars, ballot, roll, electionId, candidates>>

\* Mutant: the stored phase is tested before it is advanced.
StartVotingLate(d) ==
    /\ phase[d] = "Registration"
    /\ MoveTo(d, "Voting")
    /\ UNCHANGED <<nicVars, ballot, roll, electionId, candidates, nicEpoch>>

StartVoting(d) ==
    /\ CurrentPhase(d) = "Registration"
    /\ MoveTo(d, "Voting")
    /\ UNCHANGED <<nicVars, ballot, roll, electionId, candidates, nicEpoch>>

EndElection(d) ==
    /\ CurrentPhase(d) \in {"Registration", "Voting"}
    /\ MoveTo(d, "Ended")
    /\ UNCHANGED <<nicVars, ballot, roll, electionId, candidates, nicEpoch>>

\* From any phase.  The officers stay.
ResetElection(d) ==
    /\ electionId[d] < MaxElection
    /\ electionId' = [electionId EXCEPT ![d] = @ + 1]
    /\ candidates' = [candidates EXCEPT ![d] = 0]
    /\ nicEpoch' = [nicEpoch EXCEPT ![d] = 0]
    /\ MoveTo(d, "Setup")
    /\ voters' = [voters EXCEPT ![d] = {}]
    /\ registered' = [registered EXCEPT ![d] = {}]
    /\ leaves' = [leaves EXCEPT ![d] = {}]
    /\ nullifiers' = [nullifiers EXCEPT ![d] = {}]
    /\ votes' = [votes EXCEPT ![d] = NoVotes]
    /\ UNCHANGED <<nicVars, officers>>

(* Voting.sol, calls by voters.                                            *)

\* Mutant: registration stays open while votes are cast.
RegisterWhileVoting(d, v, c) ==
    /\ CurrentPhase(d) \in {"Registration", "Voting"}
    /\ v \in voters[d] /\ v \notin registered[d]
    /\ c \notin Tree(d)
    /\ registered' = [registered EXCEPT ![d] = @ \cup {v}]
    /\ leaves' = [leaves EXCEPT ![d] = @ \cup {[commitment |-> c, device |-> v, nic |-> binding[v].nic]}]
    /\ CommitDevice(d, v, nicEpoch[d])
    /\ UNCHANGED <<officers, voters, stage, nullifiers, votes>>

\* register: the local writes, then the registry's consent in the same
\* transaction.  nic is not stored by the contract: it is whom the leaf
\* belongs to.
Register(d, v, c) ==
    /\ CurrentPhase(d) = "Registration"
    /\ v \in voters[d] /\ v \notin registered[d]
    /\ c \notin Tree(d)
    /\ registered' = [registered EXCEPT ![d] = @ \cup {v}]
    /\ leaves' = [leaves EXCEPT ![d] = @ \cup {[commitment |-> c, device |-> v, nic |-> binding[v].nic]}]
    /\ CommitDevice(d, v, nicEpoch[d])
    /\ UNCHANGED <<officers, voters, stage, nullifiers, votes>>

\* Mutant: a spent nullifier is accepted.
VoteAgain(d, n) ==
    /\ CurrentPhase(d) = "Voting"
    /\ \E c \in Tree(d) : c.nullifier = n
    /\ nullifiers' = [nullifiers EXCEPT ![d] = @ \cup {n}]
    /\ \E i \in 0 .. candidates[d] - 1 : votes' = [votes EXCEPT ![d][i] = @ + 1]
    /\ UNCHANGED <<nicVars, roll, stage, leaves>>

\* vote: the verifier accepts exactly the proofs of a leaf of the tree with
\* this nullifier; the sender plays no part.
Vote(d, n) ==
    /\ CurrentPhase(d) = "Voting"
    /\ \E c \in Tree(d) : c.nullifier = n
    /\ n \notin nullifiers[d]
    /\ nullifiers' = [nullifiers EXCEPT ![d] = @ \cup {n}]
    /\ \E i \in 0 .. candidates[d] - 1 : votes' = [votes EXCEPT ![d][i] = @ + 1]
    /\ UNCHANGED <<nicVars, roll, stage, leaves>>

DeadlinePasses(d) ==
    /\ phase[d] \in {"Registration", "Voting"} /\ ~expired[d]
    /\ expired' = [expired EXCEPT ![d] = TRUE]
    /\ UNCHANGED <<nicVars, ballot, roll, phase, electionId, candidates, nicEpoch>>

-----------------------------------------------------------------------------
(* NicRegistry.sol, called by the owner and the GN officers.               *)

Authorise(d) ==
    /\ \E authorized \in BOOLEAN : SetVotingContract(d, authorized)
    /\ UNCHANGED <<ballot, roll, stage>>

EnrolVoter(d) ==
    /\ \E sender \in officers[d] \cup {Owner} : Enrol(sender, officers[d], d)
    /\ UNCHANGED <<ballot, roll, stage>>

\* clearNicHashes "MUST be paired with Voting.resetElection() on every
\* division, and the divisions must be reset first".
\* handleResetElection: the resets are best-effort, the clear comes whatever
\* they did.
NewEpoch ==
    /\ ClearNicHashes
    /\ UNCHANGED <<ballot, roll, stage>>

-----------------------------------------------------------------------------
Init ==
    /\ NicInit
    /\ phase = [d \in Divisions |-> "Setup"]
    /\ expired = [d \in Divisions |-> FALSE]
    /\ electionId = [d \in Divisions |-> 0]
    /\ officers = [d \in Divisions |-> {}]
    /\ candidates = [d \in Divisions |-> 0]
    /\ nicEpoch = [d \in Divisions |-> 0]
    /\ voters = [d \in Divisions |-> {}]
    /\ registered = [d \in Divisions |-> {}]
    /\ leaves = [d \in Divisions |-> {}]
    /\ nullifiers = [d \in Divisions |-> {}]
    /\ votes = [d \in Divisions |-> NoVotes]

Next ==
    \/ NewEpoch
    \/ \E d \in Divisions :
        \/ SetCandidates(d) \/ SetGNOfficer(d) \/ AddVoters(d)
        \/ StartRegistration(d) \/ StartVoting(d) \/ EndElection(d) \/ ResetElection(d)
        \/ \E v \in Devices, c \in Commitments : Register(d, v, c)
        \/ \E c \in Commitments : Vote(d, c.nullifier)
        \/ DeadlinePasses(d)
        \/ Authorise(d) \/ EnrolVoter(d)

Spec == Init /\ [][Next]_vars

-----------------------------------------------------------------------------
Leaf == [commitment : Commitments, device : Devices, nic : Nics]

\* The variables keep their shapes.
TypeOK ==
    /\ phase \in [Divisions -> {"Setup", "Registration", "Voting", "Ended"}]
    /\ expired \in [Divisions -> BOOLEAN]
    /\ electionId \in [Divisions -> 0 .. MaxElection]
    /\ officers \in [Divisions -> SUBSET Officers]
    /\ candidates \in [Divisions -> 0 .. MaxCandidates]
    /\ nicEpoch \in [Divisions -> 0 .. MaxEpoch]
    /\ voters \in [Divisions -> SUBSET Devices]
    /\ registered \in [Divisions -> SUBSET Devices]
    /\ leaves \in [Divisions -> SUBSET Leaf]
    /\ nullifiers \in [Divisions -> SUBSET {c.nullifier : c \in Commitments}]
    /\ votes \in [Divisions -> [0 .. MaxCandidates - 1 -> Nat]]

\* "One citizen, one leaf" within a division, whatever the owner does with
\* the registry and however often the citizen's device is re-issued.
OneLeafPerDivision ==
    \A d \in Divisions : \A l1, l2 \in leaves[d] : l1.nic = l2.nic => l1 = l2

\* Every leaf was claimed at the registry, in the epoch the window opened in.
LeavesClaimed ==
    \A d \in Divisions : \A l \in leaves[d] :
        /\ l.device \in registered[d]
        /\ [nic |-> l.nic, device |-> l.device, division |-> d, epoch |-> nicEpoch[d]] \in commits

\* A tree is filled in Registration and nullifiers are spent in Voting; only
\* a reset leads back.
BallotPhase ==
    \A d \in Divisions :
        /\ phase[d] = "Setup" => leaves[d] = {}
        /\ phase[d] \in {"Setup", "Registration"} => nullifiers[d] = {}

LeafPerDevice ==
    \A d \in Divisions : \A l1, l2 \in leaves[d] : l1.device = l2.device => l1 = l2

\* The divisions and the registry agree on who has registered: each leaf was
\* claimed in the epoch its registration opened in, by a phone that has no
\* other, and trees and votes are empty as long as the phase says so.
EInv == TypeOK /\ BallotPhase /\ LeavesClaimed /\ LeafPerDevice

\* The votes of all candidates, counted from the first one on.
Total(counts) ==
    LET below[k \in 0 .. MaxCandidates] == IF k = 0 THEN 0 ELSE below[k - 1] + counts[k - 1]
    IN  below[MaxCandidates]

\* A vote is one nullifier and a nullifier one vote, and there are never more
\* votes than leaves: nobody votes twice and no vote is lost.
VotesCounted ==
    \A d \in Divisions :
        /\ Total(votes[d]) = Cardinality(nullifiers[d])
        /\ Total(votes[d]) <= Cardinality(leaves[d])

\* Results are frozen: once an election has ended, by a call or by its
\* deadline, only a new election changes its tally, its tree or its phase.
ResultsFrozen ==
    [][\A d \in Divisions :
          CurrentPhase(d) = "Ended" /\ electionId'[d] = electionId[d]
          => /\ CurrentPhase(d)' = "Ended"
             /\ votes'[d] = votes[d] /\ leaves'[d] = leaves[d]]_vars

\* The root a proof is made against stays the root: the tree does not grow
\* while votes are cast.
RootStable ==
    [][\A d \in Divisions :
          nullifiers[d] # {} /\ electionId'[d] = electionId[d] => leaves'[d] = leaves[d]]_vars
=============================================================================
