--------------------------- MODULE Election_proofs ---------------------------
(***************************************************************************)
(* Proofs about the two contracts and those who use them, for any number   *)
(* of citizens, devices, divisions, officers, candidates and epochs.       *)
(*                                                                         *)
(* NicRegistry: one live device and one registration per citizen.          *)
(* Election, which extends it: what the two contracts guarantee together   *)
(* inside a division, whatever the owner does with the registry.           *)
(* ElectionAdmin: the page makes no step an election could not make, and   *)
(* whatever fails of a new election nobody has two leaves among the        *)
(* divisions of the registry.  Enrolment: whoever the desks and the        *)
(* citizens have enrolled is on the roll of a division unless a write of   *)
(* theirs is known to be missing.  Phone: what a phone keeps of the vote   *)
(* is enough to cast it once, whatever it lost on the way.                 *)
(***************************************************************************)
EXTENDS ElectionAdmin, Enrolment, Phone, Induction_proofs, FiniteSetTheorems, TLAPS


-----------------------------------------------------------------------------
(* The registry of NIC hashes.                                             *)

\* What reserveNicHash and reissueDevice write is a complete record.
LEMMA EnrolmentShape ==
    ASSUME NEW d \in Divisions, NEW v \in Devices, NEW b \in BOOLEAN, NEW k \in Nat
    PROVE  [votingContract |-> d, device |-> v, committed |-> b, issueCount |-> k] \in Enrolments
BY DEF Enrolments

\* An empty ledger satisfies the invariant.
LEMMA InitInv == NicInit => NicInv
BY NicRegistryAssumption
   DEF NicInit, NicInv, NicTypeOK, OneLiveDevice, OneCommit, CommitFinal, CommitsDated,
       Enrolled, Live, NoEnrolment, NoBinding

\* setVotingContract touches no enrolment.
LEMMA SetVotingContractInv ==
    ASSUME NicInv, NEW d \in Divisions, NEW b \in BOOLEAN, SetVotingContract(d, b)
    PROVE  NicInv'
BY DEF SetVotingContract, NicInv, NicTypeOK, OneLiveDevice, OneCommit, CommitFinal, CommitsDated,
       Enrolled

\* Nothing is dated after the epoch that ends.
LEMMA ClearNicHashesInv ==
    ASSUME NicInv, ClearNicHashes
    PROVE  NicInv'
<1> USE NicRegistryAssumption DEF ClearNicHashes, NicInv
<1>1. NicTypeOK'
  BY DEF NicTypeOK, Commits
<1>2. OneLiveDevice'
  BY DEF OneLiveDevice, Enrolled, Live, NoEnrolment, NoBinding
<1>3. OneCommit'
  BY DEF OneCommit
<1>4. \A c \in commits : c.epoch < epoch'
  BY DEF NicTypeOK, CommitsDated, Commits
<1>5. CommitFinal'
  <2>1. \A n \in Nics : enrolment'[n].committed = FALSE
    BY DEF NoEnrolment
  <2> QED BY <1>4, <2>1 DEF CommitFinal, NicTypeOK, Commits
<1>6. CommitsDated'
  BY <1>4 DEF CommitsDated, NicTypeOK, Commits
<1> QED BY <1>1, <1>2, <1>3, <1>5, <1>6

\* A citizen who is not enrolled has claimed nothing in this epoch.
LEMMA UnclaimedEnrolment ==
    ASSUME NicInv, NEW n \in Nics, ~enrolment[n].committed
    PROVE  \A c \in commits : c.nic = n => c.epoch # epoch
BY DEF NicInv, CommitsDated

\* reserveNicHash binds an unbound device to a citizen who has none.
LEMMA ReserveNicHashInv ==
    ASSUME NicInv, NEW sender, NEW gn, NEW n \in Nics, NEW d, NEW v \in Devices,
           ReserveNicHash(sender, gn, n, d, v)
    PROVE  NicInv'
<1> DEFINE e == [votingContract |-> d, device |-> v, committed |-> FALSE, issueCount |-> 0]
<1> USE NicRegistryAssumption DEF NicInv
<1>1. /\ d \in Divisions /\ ~Enrolled(n) /\ binding[v].status = "Unbound"
      /\ enrolment' = [enrolment EXCEPT ![n] = e]
      /\ binding' = [binding EXCEPT ![v] = Live(n)]
      /\ UNCHANGED <<epoch, authorised, commits>>
  BY DEF ReserveNicHash, MayEnrol, NicTypeOK
<1>2. binding[v] = NoBinding /\ enrolment[n] = NoEnrolment
  BY <1>1 DEF NicTypeOK, Bindings, Enrolments, Enrolled
<1>3. /\ \A m \in Nics : enrolment'[m] = IF m = n THEN e ELSE enrolment[m]
      /\ \A w \in Devices : binding'[w] = IF w = v THEN Live(n) ELSE binding[w]
  BY <1>1 DEF NicTypeOK
<1>4. NicTypeOK'
  BY <1>1 DEF NicTypeOK, Enrolments, Bindings, Live
<1>5. OneLiveDevice'
  <2> SUFFICES ASSUME NEW m \in Nics, NEW w \in Devices
               PROVE  binding'[w] = Live(m) <=>
                          enrolment'[m].votingContract # Zero /\ enrolment'[m].device = w
    BY DEF OneLiveDevice, Enrolled
  <2>1. binding[w] = Live(m) <=> enrolment[m].votingContract # Zero /\ enrolment[m].device = w
    BY DEF OneLiveDevice, Enrolled
  <2>2. CASE m = n
    BY <1>1, <1>2, <1>3, <2>1, <2>2 DEF Live, NoBinding, NoEnrolment
  <2>3. CASE m # n
    BY <1>1, <1>2, <1>3, <2>1, <2>3 DEF Live, NoBinding
  <2> QED BY <2>2, <2>3
<1>6. OneCommit'
  BY <1>1 DEF OneCommit
<1>7. ~enrolment[n].committed
  BY <1>2 DEF NoEnrolment
<1>8. CommitFinal' /\ CommitsDated'
  BY <1>1, <1>3, <1>7, UnclaimedEnrolment DEF CommitFinal, CommitsDated, NicTypeOK, Commits
<1> QED BY <1>4, <1>5, <1>6, <1>8

\* The old device is superseded in the step that makes the new one live.
LEMMA ReissueDeviceInv ==
    ASSUME NicInv, NEW sender, NEW gn, NEW n \in Nics, NEW d, NEW v \in Devices,
           ReissueDevice(sender, gn, n, d, v)
    PROVE  NicInv'
<1> DEFINE old == enrolment[n].device
<1> USE NicRegistryAssumption DEF NicInv
<1>1. /\ d \in Divisions /\ enrolment[n].votingContract = d /\ ~enrolment[n].committed
      /\ binding[v].status = "Unbound"
      /\ enrolment' = [enrolment EXCEPT ![n].device = v, ![n].issueCount = @ + 1]
      /\ binding' = [binding EXCEPT ![old].status = "Superseded", ![v] = Live(n)]
      /\ UNCHANGED <<epoch, authorised, commits>>
  BY DEF ReissueDevice, MayEnrol, NicTypeOK
<1>2. Enrolled(n) /\ enrolment[n] \in Enrolments /\ old \in Devices
  BY <1>1 DEF NicTypeOK, Enrolled, NoEnrolment, Enrolments
<1>3. binding[old] = Live(n) /\ binding[v] = NoBinding /\ old # v
  BY <1>1, <1>2 DEF NicTypeOK, OneLiveDevice, Bindings, Live
<1>4. /\ enrolment'[n] = [votingContract |-> d, device |-> v, committed |-> FALSE,
                          issueCount |-> enrolment[n].issueCount + 1]
      /\ \A m \in Nics : m # n => enrolment'[m] = enrolment[m]
  BY <1>1, <1>2 DEF NicTypeOK, Enrolments
<1>5. /\ binding'[v] = Live(n)
      /\ binding'[old] = [nic |-> n, status |-> "Superseded"]
      /\ \A w \in Devices \ {v, old} : binding'[w] = binding[w]
  BY <1>1, <1>2, <1>3 DEF NicTypeOK, Live
<1>6. NicTypeOK'
  <2>1. enrolment'[n] \in Enrolments
    <3>1. enrolment[n].issueCount + 1 \in Nat
      BY <1>2 DEF Enrolments
    <3> QED BY <1>1, <1>4, <3>1, EnrolmentShape
  <2>2. enrolment' \in [Nics -> Enrolments \cup {NoEnrolment}]
    BY <1>1, <1>4, <2>1 DEF NicTypeOK
  <2>3. binding' \in [Devices -> Bindings \cup {NoBinding}]
    BY <1>1, <1>5 DEF NicTypeOK, Bindings, Live
  <2> QED BY <1>1, <2>2, <2>3 DEF NicTypeOK
<1>7. OneLiveDevice'
  <2> SUFFICES ASSUME NEW m \in Nics, NEW w \in Devices
               PROVE  binding'[w] = Live(m) <=>
                          enrolment'[m].votingContract # Zero /\ enrolment'[m].device = w
    BY DEF OneLiveDevice, Enrolled
  <2>1. binding[w] = Live(m) <=> enrolment[m].votingContract # Zero /\ enrolment[m].device = w
    BY DEF OneLiveDevice, Enrolled
  <2>2. CASE m = n
    <3>1. enrolment'[n].votingContract # Zero /\ enrolment'[n].device = v
      BY <1>1, <1>4
    <3>2. binding'[w] = Live(n) <=> w = v
      <4>1. CASE w = v
        BY <1>5, <4>1
      <4>2. CASE w = old
        BY <1>3, <1>5, <4>2 DEF Live
      <4>3. CASE w \notin {v, old}
        BY <1>2, <1>5, <2>1, <2>2, <4>3
      <4> QED BY <4>1, <4>2, <4>3
    <3> QED BY <2>2, <3>1, <3>2
  <2>3. CASE m # n
    BY <1>3, <1>4, <1>5, <2>1, <2>3 DEF Live, NoBinding
  <2> QED BY <2>2, <2>3
<1>8. OneCommit'
  BY <1>1 DEF OneCommit
<1>9. CommitFinal' /\ CommitsDated'
  BY <1>1, <1>4, UnclaimedEnrolment DEF CommitFinal, CommitsDated, NicTypeOK, Commits
<1> QED BY <1>6, <1>7, <1>8, <1>9

\* What a successful call of commitDevice knows about the caller.
LEMMA CommitDeviceFacts ==
    ASSUME NicInv, NEW d, NEW v \in Devices, NEW e, CommitDevice(d, v, e)
    PROVE  LET n == binding[v].nic
           IN  /\ n \in Nics /\ d \in Divisions /\ e = epoch
               /\ enrolment[n] \in Enrolments /\ ~enrolment[n].committed
               /\ enrolment[n].votingContract = d /\ enrolment[n].device = v
               /\ enrolment' = [enrolment EXCEPT ![n].committed = TRUE]
               /\ commits' = commits \cup
                     {[nic |-> n, device |-> v, division |-> d, epoch |-> epoch]}
               /\ UNCHANGED <<epoch, binding, authorised>>
<1> DEFINE n == binding[v].nic
<1> USE NicRegistryAssumption DEF NicInv
<1>1. /\ d \in Divisions /\ binding[v].status = "Live" /\ enrolment[n].votingContract = d
      /\ e = epoch /\ ~enrolment[n].committed
      /\ enrolment' = [enrolment EXCEPT ![n].committed = TRUE]
      /\ commits' = commits \cup {[nic |-> n, device |-> v, division |-> d, epoch |-> epoch]}
      /\ UNCHANGED <<epoch, binding, authorised>>
  BY DEF CommitDevice, NicTypeOK
<1>2. n \in Nics /\ binding[v] = Live(n)
  BY <1>1 DEF NicTypeOK, Bindings, NoBinding, Live
<1>3. enrolment[n].device = v
  BY <1>2 DEF OneLiveDevice
<1>4. enrolment[n] \in Enrolments
  BY <1>1, <1>2 DEF NicTypeOK, NoEnrolment
<1> QED BY <1>1, <1>2, <1>3, <1>4

\* commitDevice claims a registration once, for the live device.
LEMMA CommitDeviceInv ==
    ASSUME NicInv, NEW d, NEW v \in Devices, NEW e, CommitDevice(d, v, e)
    PROVE  NicInv'
<1> DEFINE n == binding[v].nic
           c == [nic |-> n, device |-> v, division |-> d, epoch |-> epoch]
<1> USE DEF NicInv
<1>1. /\ n \in Nics /\ d \in Divisions
      /\ enrolment[n] \in Enrolments /\ ~enrolment[n].committed
      /\ enrolment[n].votingContract = d /\ enrolment[n].device = v
      /\ enrolment' = [enrolment EXCEPT ![n].committed = TRUE]
      /\ commits' = commits \cup {c}
      /\ UNCHANGED <<epoch, binding, authorised>>
  BY CommitDeviceFacts
<1>2. /\ \A m \in Nics : m # n => enrolment'[m] = enrolment[m]
      /\ enrolment'[n] = [votingContract |-> d, device |-> v, committed |-> TRUE,
                          issueCount |-> enrolment[n].issueCount]
  BY <1>1 DEF NicTypeOK, Enrolments
<1>3. NicTypeOK'
  <2>1. enrolment'[n] \in Enrolments
    <3>1. enrolment[n].issueCount \in Nat
      BY <1>1 DEF Enrolments
    <3> QED BY <1>1, <1>2, <3>1, EnrolmentShape
  <2>2. enrolment' \in [Nics -> Enrolments \cup {NoEnrolment}]
    BY <1>1, <1>2, <2>1 DEF NicTypeOK
  <2>3. c \in Commits
    BY <1>1 DEF Commits, NicTypeOK
  <2> QED BY <1>1, <2>2, <2>3 DEF NicTypeOK
<1>4. OneLiveDevice'
  BY <1>1, <1>2 DEF OneLiveDevice, Enrolled
<1>5. OneCommit'
  <2>1. \A x \in commits : ~(x.nic = c.nic /\ x.epoch = c.epoch)
    BY <1>1, UnclaimedEnrolment
  <2> QED BY <1>1, <2>1 DEF OneCommit
<1>6. CommitFinal' /\ CommitsDated'
  <2>1. c \in commits'
    BY <1>1
  <2>2. CommitFinal'
    <3> SUFFICES ASSUME NEW m \in Nics
                 PROVE  enrolment'[m].committed <=>
                          \E x \in commits' : /\ x.nic = m /\ x.epoch = epoch
                                              /\ x.device = enrolment'[m].device
                                              /\ x.division = enrolment'[m].votingContract
      BY <1>1 DEF CommitFinal
    <3>1. CASE m = n
      BY <1>2, <2>1, <3>1
    <3>2. CASE m # n
      BY <1>1, <1>2, <3>2 DEF CommitFinal
    <3> QED BY <3>1, <3>2
  <2>3. CommitsDated'
    BY <1>1, <1>2 DEF CommitsDated, NicTypeOK, Commits
  <2> QED BY <2>2, <2>3
<1> QED BY <1>3, <1>4, <1>5, <1>6

\* Every call that succeeds keeps the invariant.
LEMMA NextInv == NicInv /\ [NicNext]_nicVars => NicInv'
<1> SUFFICES ASSUME NicInv, [NicNext]_nicVars PROVE NicInv'
  OBVIOUS
<1>1. CASE UNCHANGED nicVars
  BY <1>1 DEF nicVars, NicInv, NicTypeOK, OneLiveDevice, OneCommit, CommitFinal, CommitsDated,
     Enrolled
<1>2. CASE ClearNicHashes
  BY <1>2, ClearNicHashesInv
<1>3. ASSUME NEW d \in Divisions, NEW b \in BOOLEAN, SetVotingContract(d, b) PROVE NicInv'
  BY <1>3, SetVotingContractInv
<1>4. ASSUME NEW d \in Divisions, NEW gn \in SUBSET Officers,
             NEW sender \in Officers \cup {Owner}, Enrol(sender, gn, d)
      PROVE  NicInv'
  BY <1>4, ReserveNicHashInv, ReissueDeviceInv DEF Enrol
<1>5. ASSUME NEW d \in Divisions, NEW v \in Devices, NEW e \in 0 .. MaxEpoch,
             CommitDevice(d, v, e)
      PROVE  NicInv'
  BY <1>5, CommitDeviceInv
<1> QED BY <1>1, <1>2, <1>3, <1>4, <1>5 DEF NicNext

\* NicRegistry.sol: at every moment a citizen has one live device and at most
\* one registration, and the registration is final, whatever sequence of
\* enrolments, re-issues, claims and epoch changes was made.
THEOREM OneCitizenOneRegistration == NicSpec => []NicInv
<1>1. NicInit => NicInv
  BY InitInv
<1>2. NicInv /\ [NicNext]_nicVars => NicInv'
  BY NextInv
<1> QED BY <1>1, <1>2, PTL DEF NicSpec

\* commitDevice and reissueDevice: a superseded device is never live again
\* within its epoch.
THEOREM SupersededStays == NicSpec => SupersededForever
<1> DEFINE Kept == \A v \in Devices :
        binding[v].status = "Superseded" /\ epoch' = epoch => binding'[v] = binding[v]
<1>1. NicInv /\ [NicNext]_nicVars => [Kept]_nicVars
  <2> SUFFICES ASSUME NicInv, NicNext, NEW v \in Devices,
                      binding[v].status = "Superseded", epoch' = epoch
               PROVE  binding'[v] = binding[v]
    OBVIOUS
  <2>1. CASE ClearNicHashes
    BY <2>1 DEF ClearNicHashes, NicInv, NicTypeOK
  <2>2. ASSUME NEW d \in Divisions, NEW b \in BOOLEAN, SetVotingContract(d, b)
        PROVE  binding'[v] = binding[v]
    BY <2>2 DEF SetVotingContract
  <2>3. ASSUME NEW d \in Divisions, NEW gn, NEW sender, NEW n \in Nics, NEW w \in Devices,
               ReserveNicHash(sender, gn, n, d, w)
        PROVE  binding'[v] = binding[v]
    <3>1. binding[w].status = "Unbound" /\ binding' = [binding EXCEPT ![w] = Live(n)]
      BY <2>3 DEF ReserveNicHash
    <3> QED BY <3>1 DEF NicInv, NicTypeOK
  <2>4. ASSUME NEW d \in Divisions, NEW gn, NEW sender, NEW n \in Nics, NEW w \in Devices,
               ReissueDevice(sender, gn, n, d, w)
        PROVE  binding'[v] = binding[v]
    <3> DEFINE old == enrolment[n].device
    <3>1. /\ Enrolled(n) /\ binding[w].status = "Unbound"
          /\ binding' = [binding EXCEPT ![old].status = "Superseded", ![w] = Live(n)]
      BY <2>4, NicRegistryAssumption DEF ReissueDevice, MayEnrol, NicInv, NicTypeOK, Enrolled
    <3>2. old \in Devices
      BY <3>1 DEF NicInv, NicTypeOK, Enrolled, Enrolments, NoEnrolment
    <3>3. binding[old] = Live(n)
      BY <3>1, <3>2 DEF NicInv, OneLiveDevice
    <3> QED BY <3>1, <3>2, <3>3 DEF NicInv, NicTypeOK, Live
  <2>5. ASSUME NEW d \in Divisions, NEW w \in Devices, NEW e, CommitDevice(d, w, e)
        PROVE  binding'[v] = binding[v]
    BY <2>5 DEF CommitDevice
  <2> QED BY <2>1, <2>2, <2>3, <2>4, <2>5 DEF NicNext, Enrol
<1> QED BY <1>1, OneCitizenOneRegistration, PTL DEF NicSpec, SupersededForever

-----------------------------------------------------------------------------
\* Freshly deployed divisions satisfy the invariant.
LEMMA ElectionInit == Init => EInv
BY ElectionAssumption, NicRegistryAssumption
   DEF Init, EInv, TypeOK, BallotPhase, LeavesClaimed, LeafPerDevice, NoVotes

\* One more vote leaves a table of counts a table of counts.
LEMMA OneMore ==
    ASSUME NEW S, NEW f \in [S -> Nat], NEW i \in S
    PROVE  [f EXCEPT ![i] = @ + 1] \in [S -> Nat]
OBVIOUS

\* Actions that write no ballot, no registration and no claim, move no
\* division to Setup or back to Registration, and keep the pinned epoch of
\* every division that has leaves.
LEMMA QuietStep ==
    ASSUME EInv, TypeOK', UNCHANGED <<leaves, nullifiers, registered>>, commits \subseteq commits',
           \A d \in Divisions :
               /\ phase'[d] = "Setup" => phase[d] = "Setup"
               /\ phase'[d] = "Registration" => phase[d] \in {"Setup", "Registration"}
               /\ leaves[d] # {} => nicEpoch'[d] = nicEpoch[d]
    PROVE  EInv'
<1>1. BallotPhase'
  BY DEF EInv, BallotPhase
<1>2. LeafPerDevice'
  BY DEF EInv, LeafPerDevice
<1>3. LeavesClaimed'
  <2> SUFFICES ASSUME NEW d \in Divisions, NEW l \in leaves[d]
               PROVE  /\ l.device \in registered[d]
                      /\ [nic |-> l.nic, device |-> l.device, division |-> d,
                          epoch |-> nicEpoch'[d]] \in commits'
    BY DEF LeavesClaimed
  <2> QED BY DEF EInv, LeavesClaimed
<1> QED BY <1>1, <1>2, <1>3 DEF EInv

\* register inserts one leaf, for the device whose claim the registry took.
LEMMA RegisterStep ==
    ASSUME EInv, NicInv, NEW d \in Divisions, NEW v \in Devices, NEW c \in Commitments,
           Register(d, v, c)
    PROVE  EInv'
<1> DEFINE n == binding[v].nic
           leaf == [commitment |-> c, device |-> v, nic |-> n]
           claim == [nic |-> n, device |-> v, division |-> d, epoch |-> epoch]
<1>1. /\ CurrentPhase(d) = "Registration" /\ v \notin registered[d]
      /\ registered' = [registered EXCEPT ![d] = @ \cup {v}]
      /\ leaves' = [leaves EXCEPT ![d] = @ \cup {leaf}]
      /\ CommitDevice(d, v, nicEpoch[d])
      /\ UNCHANGED <<officers, voters, stage, nullifiers, votes>>
  BY DEF Register
<1>2. n \in Nics /\ nicEpoch[d] = epoch /\ commits' = commits \cup {claim}
  BY <1>1, CommitDeviceFacts
<1>3. phase[d] = "Registration" /\ UNCHANGED <<phase, expired, electionId, candidates, nicEpoch>>
  BY <1>1 DEF CurrentPhase, stage
<1>4. leaf \in Leaf
  BY <1>2 DEF Leaf
<1>5. TypeOK'
  <2>1. registered' \in [Divisions -> SUBSET Devices]
    BY <1>1 DEF EInv, TypeOK
  <2>2. leaves' \in [Divisions -> SUBSET Leaf]
    BY <1>1, <1>4 DEF EInv, TypeOK
  <2> QED BY <1>1, <1>3, <2>1, <2>2 DEF EInv, TypeOK
<1>6. BallotPhase'
  BY <1>1, <1>3 DEF EInv, TypeOK, BallotPhase
<1>7. \A x \in Divisions : /\ leaves'[x] = IF x = d THEN leaves[x] \cup {leaf} ELSE leaves[x]
                           /\ registered[x] \subseteq registered'[x]
                           /\ x = d => v \in registered'[x]
  BY <1>1 DEF EInv, TypeOK
<1>8. LeavesClaimed'
  <2> SUFFICES ASSUME NEW x \in Divisions, NEW l \in leaves'[x]
               PROVE  /\ l.device \in registered'[x]
                      /\ [nic |-> l.nic, device |-> l.device, division |-> x,
                          epoch |-> nicEpoch[x]] \in commits'
    BY <1>3 DEF LeavesClaimed
  <2>1. CASE l \in leaves[x]
    BY <1>2, <1>7, <2>1 DEF EInv, LeavesClaimed
  <2>2. CASE x = d /\ l = leaf
    <3>1. l.nic = n /\ l.device = v /\ nicEpoch[x] = epoch /\ x = d
      BY <1>2, <2>2
    <3>2. claim \in commits' /\ v \in registered'[x]
      BY <1>2, <1>7, <2>2
    <3>3. [nic |-> l.nic, device |-> l.device, division |-> x, epoch |-> nicEpoch[x]] = claim
      BY <3>1
    <3> QED BY <3>1, <3>2, <3>3
  <2> QED BY <1>7, <2>1, <2>2
<1>9. LeafPerDevice'
  <2>1. \A l \in leaves[d] : l.device # v
    BY <1>1 DEF EInv, LeavesClaimed
  <2> SUFFICES ASSUME NEW x \in Divisions, NEW l1 \in leaves'[x], NEW l2 \in leaves'[x],
                      l1.device = l2.device
               PROVE  l1 = l2
    BY DEF LeafPerDevice
  <2>2. CASE l1 \in leaves[x] /\ l2 \in leaves[x]
    BY <2>2 DEF EInv, LeafPerDevice
  <2>3. CASE x = d /\ (l1 = leaf \/ l2 = leaf)
    <3>1. leaf.device = v
      OBVIOUS
    <3>2. \A l \in leaves'[d] : l.device = v => l = leaf
      BY <1>7, <2>1
    <3>3. l1.device = v /\ l2.device = v /\ x = d
      BY <2>3, <3>1
    <3>4. l1 = leaf /\ l2 = leaf
      BY <3>2, <3>3
    <3> QED BY <3>4
  <2> QED BY <1>7, <2>2, <2>3
<1> QED BY <1>5, <1>6, <1>8, <1>9 DEF EInv

\* vote spends a nullifier and touches no leaf.
LEMMA VoteStep ==
    ASSUME EInv, NEW d \in Divisions, NEW c \in Commitments, Vote(d, c.nullifier)
    PROVE  EInv'
<1>1. PICK i \in 0 .. candidates[d] - 1 : votes' = [votes EXCEPT ![d][i] = @ + 1]
  BY DEF Vote
<1>2. /\ CurrentPhase(d) = "Voting"
      /\ nullifiers' = [nullifiers EXCEPT ![d] = @ \cup {c.nullifier}]
      /\ UNCHANGED <<phase, expired, electionId, candidates, nicEpoch, officers, voters,
                     registered, leaves, commits>>
  BY DEF Vote, stage, roll, nicVars
<1>3. phase[d] = "Voting"
  BY <1>2 DEF CurrentPhase
<1>4. TypeOK'
  <2>1. candidates[d] \in 0 .. MaxCandidates
    BY DEF EInv, TypeOK
  <2>2. i \in 0 .. MaxCandidates - 1
    BY <2>1, ElectionAssumption
  <2>3. votes' \in [Divisions -> [0 .. MaxCandidates - 1 -> Nat]]
    <3> DEFINE Counts == [0 .. MaxCandidates - 1 -> Nat]
               counts == [votes[d] EXCEPT ![i] = @ + 1]
    <3>1. votes \in [Divisions -> Counts]
      BY DEF EInv, TypeOK
    <3>2. counts \in Counts
      BY <2>2, <3>1, OneMore
    <3>3. votes' = [votes EXCEPT ![d] = counts]
      BY <1>1
    <3> HIDE DEF Counts, counts
    <3>4. votes' \in [Divisions -> Counts]
      BY <3>1, <3>2, <3>3
    <3> QED BY <3>4 DEF Counts
  <2>4. nullifiers' \in [Divisions -> SUBSET {x.nullifier : x \in Commitments}]
    BY <1>2 DEF EInv, TypeOK
  <2> QED BY <1>2, <2>3, <2>4 DEF EInv, TypeOK
<1>5. BallotPhase'
  BY <1>2, <1>3 DEF EInv, TypeOK, BallotPhase
<1>6. LeavesClaimed' /\ LeafPerDevice'
  BY <1>2 DEF EInv, LeavesClaimed, LeafPerDevice
<1> QED BY <1>4, <1>5, <1>6 DEF EInv

\* resetElection starts the division over and touches no other.
LEMMA ResetStep ==
    ASSUME EInv, NEW d \in Divisions, ResetElection(d)
    PROVE  EInv'
<1>1. /\ electionId[d] < MaxElection
      /\ electionId' = [electionId EXCEPT ![d] = @ + 1]
      /\ candidates' = [candidates EXCEPT ![d] = 0]
      /\ nicEpoch' = [nicEpoch EXCEPT ![d] = 0]
      /\ phase' = [phase EXCEPT ![d] = "Setup"]
      /\ expired' = [expired EXCEPT ![d] = FALSE]
      /\ voters' = [voters EXCEPT ![d] = {}]
      /\ registered' = [registered EXCEPT ![d] = {}]
      /\ leaves' = [leaves EXCEPT ![d] = {}]
      /\ nullifiers' = [nullifiers EXCEPT ![d] = {}]
      /\ votes' = [votes EXCEPT ![d] = NoVotes]
      /\ UNCHANGED <<epoch, enrolment, binding, authorised, commits, officers>>
  BY DEF ResetElection, MoveTo, nicVars
<1>2. TypeOK'
  <2>1. NoVotes \in [0 .. MaxCandidates - 1 -> Nat]
    BY DEF NoVotes
  <2>2. electionId' \in [Divisions -> 0 .. MaxElection]
    BY <1>1, ElectionAssumption DEF EInv, TypeOK
  <2>3. candidates' \in [Divisions -> 0 .. MaxCandidates] /\ nicEpoch' \in [Divisions -> 0 .. MaxEpoch]
    BY <1>1, ElectionAssumption, NicRegistryAssumption DEF EInv, TypeOK
  <2> QED BY <1>1, <2>1, <2>2, <2>3 DEF EInv, TypeOK
<1>3. BallotPhase'
  BY <1>1 DEF EInv, TypeOK, BallotPhase
<1>4. \A x \in Divisions :
        IF x = d THEN leaves'[x] = {}
        ELSE /\ leaves'[x] = leaves[x] /\ registered'[x] = registered[x]
             /\ nicEpoch'[x] = nicEpoch[x]
  BY <1>1 DEF EInv, TypeOK
<1>5. LeavesClaimed'
  <2> SUFFICES ASSUME NEW x \in Divisions, NEW l \in leaves'[x]
               PROVE  /\ l.device \in registered'[x]
                      /\ [nic |-> l.nic, device |-> l.device, division |-> x,
                          epoch |-> nicEpoch'[x]] \in commits
    BY <1>1 DEF LeavesClaimed
  <2> QED BY <1>4 DEF EInv, LeavesClaimed
<1>6. LeafPerDevice'
  BY <1>4 DEF EInv, LeafPerDevice
<1> QED BY <1>2, <1>3, <1>5, <1>6 DEF EInv

\* The registry's steps, seen from the divisions.
LEMMA RegistryStep ==
    ASSUME EInv, NicInv, [NicNext]_nicVars, UNCHANGED <<ballot, roll, stage>>
    PROVE  EInv'
<1>1. commits \subseteq commits'
  <2>1. ASSUME NEW d, NEW v, NEW e, CommitDevice(d, v, e) PROVE commits \subseteq commits'
    BY <2>1 DEF CommitDevice
  <2>2. ASSUME NEW sender, NEW gn, NEW d, Enrol(sender, gn, d) PROVE commits \subseteq commits'
    BY <2>2 DEF Enrol, ReserveNicHash, ReissueDevice
  <2> QED BY <2>1, <2>2 DEF NicNext, nicVars, ClearNicHashes, SetVotingContract
<1>2. TypeOK'
  BY DEF EInv, TypeOK, ballot, roll, stage
<1> QED BY <1>1, <1>2, QuietStep DEF ballot, roll, stage

\* reserveNicHash and reissueDevice as a division allows them are registry calls.
LEMMA EnrolIsRegistryStep ==
    ASSUME EInv, NEW d \in Divisions, EnrolVoter(d)
    PROVE  NicNext
<1>1. officers[d] \in SUBSET Officers
  BY DEF EInv, TypeOK
<1>2. PICK sender \in officers[d] \cup {Owner} : Enrol(sender, officers[d], d)
  BY DEF EnrolVoter
<1>3. sender \in Officers \cup {Owner}
  BY <1>1, <1>2
<1> QED BY <1>1, <1>2, <1>3 DEF NicNext

\* register's call of commitDevice is a registry call.
LEMMA RegisterIsRegistryStep ==
    ASSUME EInv, NEW d \in Divisions, NEW v \in Devices, NEW c, Register(d, v, c)
    PROVE  NicNext
<1>1. nicEpoch[d] \in 0 .. MaxEpoch
  BY DEF EInv, TypeOK
<1>2. CommitDevice(d, v, nicEpoch[d])
  BY DEF Register
<1> QED BY <1>1, <1>2 DEF NicNext

\* Every transaction is a registry transaction or leaves the registry alone.
LEMMA NextIsRegistryStep ==
    ASSUME EInv, [Next]_vars
    PROVE  [NicNext]_nicVars
<1>1. CASE UNCHANGED vars
  BY <1>1 DEF vars
<1>2. CASE NewEpoch
  BY <1>2 DEF NewEpoch, NicNext
<1>3. ASSUME NEW d \in Divisions, Authorise(d) PROVE NicNext
  BY <1>3 DEF Authorise, NicNext
<1>4. ASSUME NEW d \in Divisions,
             \/ SetCandidates(d) \/ SetGNOfficer(d) \/ AddVoters(d) \/ StartRegistration(d)
             \/ StartVoting(d) \/ EndElection(d) \/ ResetElection(d) \/ DeadlinePasses(d)
      PROVE  UNCHANGED nicVars
  BY <1>4 DEF SetCandidates, SetGNOfficer, AddVoters, StartRegistration, StartVoting,
     EndElection, ResetElection, DeadlinePasses
<1>5. ASSUME NEW d \in Divisions, NEW n, Vote(d, n) PROVE UNCHANGED nicVars
  BY <1>5 DEF Vote
<1> QED BY <1>1, <1>2, <1>3, <1>4, <1>5, EnrolIsRegistryStep, RegisterIsRegistryStep DEF Next

\* The owner's calls, and deadlines, keep the invariant.
LEMMA OwnerStep ==
    ASSUME EInv, NicInv, NEW d \in Divisions,
           \/ SetCandidates(d) \/ SetGNOfficer(d) \/ AddVoters(d) \/ StartRegistration(d)
           \/ StartVoting(d) \/ EndElection(d) \/ DeadlinePasses(d)
    PROVE  EInv'
<1> USE NicRegistryAssumption, ElectionAssumption
<1>1. CASE SetCandidates(d)
  <2>1. TypeOK'
    BY <1>1 DEF SetCandidates, EInv, TypeOK, ballot, roll
  <2> QED BY <1>1, <2>1, QuietStep DEF SetCandidates, ballot, roll, nicVars
<1>2. CASE SetGNOfficer(d)
  <2>1. officers' \in [Divisions -> SUBSET Officers]
    BY <1>2 DEF SetGNOfficer, EInv, TypeOK
  <2>2. TypeOK'
    BY <1>2, <2>1 DEF SetGNOfficer, EInv, TypeOK, ballot, stage
  <2> QED BY <1>2, <2>2, QuietStep DEF SetGNOfficer, ballot, stage, nicVars
<1>3. CASE AddVoters(d)
  <2>1. voters' \in [Divisions -> SUBSET Devices]
    BY <1>3 DEF AddVoters, EInv, TypeOK
  <2>2. TypeOK'
    BY <1>3, <2>1 DEF AddVoters, EInv, TypeOK, ballot, stage
  <2> QED BY <1>3, <2>2, QuietStep DEF AddVoters, ballot, stage, nicVars
<1>4. CASE StartRegistration(d)
  <2>1. /\ phase[d] = "Setup" /\ phase' = [phase EXCEPT ![d] = "Registration"]
        /\ expired' = [expired EXCEPT ![d] = FALSE] /\ nicEpoch' = [nicEpoch EXCEPT ![d] = epoch]
        /\ UNCHANGED <<nicVars, ballot, roll, electionId, candidates>>
    BY <1>4 DEF StartRegistration, CurrentPhase, MoveTo
  <2>2. TypeOK'
    BY <2>1 DEF EInv, TypeOK, NicInv, NicTypeOK, ballot, roll, nicVars
  <2>3. \A x \in Divisions :
            /\ phase'[x] = "Setup" => phase[x] = "Setup"
            /\ phase'[x] = "Registration" => phase[x] \in {"Setup", "Registration"}
            /\ leaves[x] # {} => nicEpoch'[x] = nicEpoch[x]
    BY <2>1 DEF EInv, TypeOK, BallotPhase
  <2> QED BY <2>1, <2>2, <2>3, QuietStep DEF ballot, roll, nicVars
<1>5. CASE StartVoting(d) \/ EndElection(d)
  <2>1. PICK p \in {"Voting", "Ended"} : phase' = [phase EXCEPT ![d] = p]
    BY <1>5 DEF StartVoting, EndElection, MoveTo
  <2>2. /\ expired' = [expired EXCEPT ![d] = FALSE]
        /\ UNCHANGED <<nicVars, ballot, roll, electionId, candidates, nicEpoch>>
    BY <1>5 DEF StartVoting, EndElection, MoveTo
  <2>3. TypeOK'
    BY <2>1, <2>2 DEF EInv, TypeOK, ballot, roll
  <2>4. \A x \in Divisions :
            /\ phase'[x] = "Setup" => phase[x] = "Setup"
            /\ phase'[x] = "Registration" => phase[x] \in {"Setup", "Registration"}
    BY <2>1 DEF EInv, TypeOK
  <2> QED BY <2>2, <2>3, <2>4, QuietStep DEF ballot, roll, nicVars
<1>6. CASE DeadlinePasses(d)
  <2>1. TypeOK'
    BY <1>6 DEF DeadlinePasses, EInv, TypeOK, ballot, roll
  <2> QED BY <1>6, <2>1, QuietStep DEF DeadlinePasses, ballot, roll, nicVars
<1> QED BY <1>1, <1>2, <1>3, <1>4, <1>5, <1>6

\* Every transaction keeps the invariant.
LEMMA ElectionStep ==
    ASSUME EInv, NicInv, [Next]_vars
    PROVE  EInv'
<1>1. [NicNext]_nicVars
  BY NextIsRegistryStep
<1>2. CASE UNCHANGED vars
  BY <1>1, <1>2, RegistryStep DEF vars
<1>3. CASE NewEpoch
  BY <1>1, <1>3, RegistryStep DEF NewEpoch
<1>4. ASSUME NEW d \in Divisions, Authorise(d) \/ EnrolVoter(d) PROVE EInv'
  BY <1>1, <1>4, RegistryStep DEF Authorise, EnrolVoter
<1>5. ASSUME NEW d \in Divisions, NEW v \in Devices, NEW c \in Commitments, Register(d, v, c)
      PROVE  EInv'
  BY <1>5, RegisterStep
<1>6. ASSUME NEW d \in Divisions, NEW c \in Commitments, Vote(d, c.nullifier) PROVE EInv'
  BY <1>6, VoteStep
<1> QED BY <1>2, <1>3, <1>4, <1>5, <1>6, OwnerStep, ResetStep DEF Next

-----------------------------------------------------------------------------
\* Voting.sol and NicRegistry.sol deployed together: whatever the divisions
\* do, the registry they share behaves as NicRegistry alone does, so all
\* that is proved of it holds in every election.
THEOREM RegistryImplemented == Spec => NicSpec
<1>1. Init => NicInit /\ EInv /\ NicInv
  BY ElectionInit, InitInv DEF Init
<1>2. EInv /\ NicInv /\ [Next]_vars => EInv' /\ NicInv' /\ [NicNext]_nicVars
  BY ElectionStep, NextIsRegistryStep, NextInv
<1> QED BY <1>1, <1>2, PTL DEF Spec, NicSpec

\* Voting.sol and NicRegistry.sol: every leaf is claimed once, by one device,
\* in the epoch of its election, whatever the order of their transactions.
THEOREM ElectionInvariant == Spec => [](EInv /\ NicInv)
<1>1. Init => EInv /\ NicInv
  BY ElectionInit, InitInv DEF Init
<1>2. EInv /\ NicInv /\ [Next]_vars => EInv' /\ NicInv'
  BY ElectionStep, NextIsRegistryStep, NextInv
<1> QED BY <1>1, <1>2, PTL DEF Spec

\* A citizen claims once per epoch, and the claim names the device.
LEMMA OneLeaf == EInv /\ NicInv => OneLeafPerDivision
<1> SUFFICES ASSUME EInv, NicInv, NEW d \in Divisions,
                    NEW l1 \in leaves[d], NEW l2 \in leaves[d], l1.nic = l2.nic
             PROVE  l1 = l2
  BY DEF OneLeafPerDivision
<1> DEFINE Claim(l) == [nic |-> l.nic, device |-> l.device, division |-> d,
                        epoch |-> nicEpoch[d]]
<1>1. Claim(l1) \in commits /\ Claim(l2) \in commits
  BY DEF EInv, LeavesClaimed
<1>2. Claim(l1) = Claim(l2)
  BY <1>1 DEF NicInv, OneCommit
<1>3. l1.device = l2.device
  BY <1>2
<1> QED BY <1>3 DEF EInv, LeafPerDevice

\* NicRegistry.sol, Registration: one citizen has one leaf in a division's
\* tree, however often the device was re-issued and the registry cleared.
THEOREM OneLeafAlways == Spec => []OneLeafPerDivision
BY OneLeaf, ElectionInvariant, PTL

\* Voting.sol, vote and register: from the first vote on, the tree the proofs
\* are made against does not change until the next election.
THEOREM RootStaysStable == Spec => RootStable
<1> DEFINE Stable == \A d \in Divisions :
        nullifiers[d] # {} /\ electionId'[d] = electionId[d] => leaves'[d] = leaves[d]
<1>1. EInv /\ [Next]_vars => [Stable]_vars
  <2> SUFFICES ASSUME EInv, Next, NEW d \in Divisions,
                      nullifiers[d] # {}, electionId'[d] = electionId[d]
               PROVE  leaves'[d] = leaves[d]
    OBVIOUS
  <2>1. ASSUME NEW x \in Divisions, NEW v, NEW c, Register(x, v, c)
        PROVE  leaves'[d] = leaves[d]
    <3>1. phase[x] = "Registration"
      BY <2>1 DEF Register, CurrentPhase
    <3>2. x # d
      BY <3>1 DEF EInv, BallotPhase
    <3> QED BY <2>1, <3>2 DEF Register, EInv, TypeOK
  <2>2. ASSUME NEW x \in Divisions, ResetElection(x)
        PROVE  leaves'[d] = leaves[d]
    <3>1. x # d
      BY <2>2 DEF ResetElection, EInv, TypeOK
    <3> QED BY <2>2, <3>1 DEF ResetElection, EInv, TypeOK
  <2>3. CASE NewEpoch
    BY <2>3 DEF NewEpoch, ballot
  <2>4. ASSUME NEW x \in Divisions,
               \/ SetCandidates(x) \/ SetGNOfficer(x) \/ AddVoters(x) \/ StartRegistration(x)
               \/ StartVoting(x) \/ EndElection(x) \/ DeadlinePasses(x)
               \/ Authorise(x) \/ EnrolVoter(x)
        PROVE  leaves'[d] = leaves[d]
    BY <2>4 DEF SetCandidates, SetGNOfficer, AddVoters, StartRegistration, StartVoting,
       EndElection, DeadlinePasses, Authorise, EnrolVoter, ballot
  <2>5. ASSUME NEW x \in Divisions, NEW n, Vote(x, n) PROVE leaves'[d] = leaves[d]
    BY <2>5 DEF Vote
  <2> QED BY <2>1, <2>2, <2>3, <2>4, <2>5 DEF Next
<1> QED BY <1>1, ElectionInvariant, PTL DEF Spec, RootStable

-----------------------------------------------------------------------------
(* The counts of a ballot paper add up to the votes that were cast.        *)

\* What the recursive definition of Total says of a row of counts.
LEMMA TotalDef ==
    ASSUME NEW counts \in [0 .. MaxCandidates - 1 -> Nat]
    PROVE  \E below \in [0 .. MaxCandidates -> Nat] :
              /\ below[0] = 0
              /\ \A k \in 0 .. MaxCandidates - 1 : below[k + 1] = below[k] + counts[k]
              /\ Total(counts) = below[MaxCandidates]
<1> DEFINE Sums(f, n) == /\ f[0] = 0
                         /\ \A k \in 0 .. n - 1 : f[k + 1] = f[k] + counts[k]
           T == {n \in 0 .. MaxCandidates : \E f \in [0 .. n -> Nat] : Sums(f, n)}
           M == MaxCandidates
<1>0. M \in Nat
  BY ElectionAssumption
<1>1. 0 \in T
  <2>1. \E f \in [0 .. 0 -> Nat] : Sums(f, 0)
    <3>1. [k \in 0 .. 0 |-> 0] \in [0 .. 0 -> Nat] /\ Sums([k \in 0 .. 0 |-> 0], 0)
      OBVIOUS
    <3> QED BY <3>1
  <2> QED BY <1>0, <2>1
<1>2. ASSUME NEW n \in 0 .. M - 1, n \in T PROVE n + 1 \in T
  <2>1. PICK f \in [0 .. n -> Nat] : Sums(f, n)
    BY <1>2
  <2> DEFINE g == [k \in 0 .. n + 1 |-> IF k = n + 1 THEN f[n] + counts[n] ELSE f[k]]
  <2>2. g \in [0 .. n + 1 -> Nat]
    BY <1>0
  <2>3. Sums(g, n + 1)
    BY <1>0, <2>1
  <2>4. n + 1 \in 0 .. M
    BY <1>0
  <2>5. \E h \in [0 .. n + 1 -> Nat] : Sums(h, n + 1)
    <3> HIDE DEF g, Sums
    <3> QED BY <2>2, <2>3
  <2> QED BY <2>4, <2>5
<1>3. M \in T
  <2> HIDE DEF T
  <2>1. \A k \in 0 .. M : k \in T
    BY <1>0, <1>1, <1>2, UpTo
  <2> QED BY <1>0, <2>1
<1>4. PICK f \in [0 .. M -> Nat] : Sums(f, M)
  BY <1>3
<1> DEFINE Body(b) == [k \in 0 .. M |-> IF k = 0 THEN 0 ELSE b[k - 1] + counts[k - 1]]
           below == CHOOSE b : b = Body(b)
<1>5. f = Body(f)
  <2>1. ASSUME NEW k \in 0 .. M PROVE f[k] = IF k = 0 THEN 0 ELSE f[k - 1] + counts[k - 1]
    <3>1. CASE k = 0
      BY <1>4, <3>1
    <3>2. CASE k # 0
      <4>1. k - 1 \in 0 .. M - 1 /\ (k - 1) + 1 = k
        BY <1>0, <3>2
      <4> QED BY <1>4, <3>2, <4>1
    <3> QED BY <3>1, <3>2
  <2> QED BY <2>1
<1>6. below = Body(below)
  BY <1>5
<1>7. /\ below[0] = 0
      /\ \A k \in 0 .. M - 1 : below[k + 1] = below[k] + counts[k]
  <2> HIDE DEF below
  <2>1. ASSUME NEW k \in 0 .. M PROVE below[k] = IF k = 0 THEN 0 ELSE below[k - 1] + counts[k - 1]
    BY <1>6
  <2> QED BY <1>0, <2>1
<1>8. \A k \in 0 .. M : below[k] = f[k]
  <2> DEFINE S == {k \in 0 .. M : below[k] = f[k]}
  <2> HIDE DEF below
  <2>1. 0 \in S
    BY <1>0, <1>4, <1>7
  <2>2. \A k \in 0 .. M - 1 : k \in S => k + 1 \in S
    BY <1>0, <1>4, <1>7
  <2>3. \A k \in 0 .. M : k \in S
    <3> HIDE DEF S
    <3> QED BY <1>0, <2>1, <2>2, UpTo
  <2> QED BY <2>3
<1>9. Total(counts) = below[M]
  BY DEF Total
<1> HIDE DEF below
<1>10. Total(counts) = f[M]
  BY <1>0, <1>8, <1>9
<1> QED BY <1>4, <1>10

\* One more vote for one candidate is one more in all.
LEMMA TotalOneMore ==
    ASSUME NEW counts \in [0 .. MaxCandidates - 1 -> Nat], NEW i \in 0 .. MaxCandidates - 1
    PROVE  Total([counts EXCEPT ![i] = @ + 1]) = Total(counts) + 1
<1> DEFINE M == MaxCandidates
           more == [counts EXCEPT ![i] = @ + 1]
<1>0. M \in Nat /\ more \in [0 .. M - 1 -> Nat]
  BY ElectionAssumption
<1>1. PICK b \in [0 .. M -> Nat] : /\ b[0] = 0
                                  /\ \A k \in 0 .. M - 1 : b[k + 1] = b[k] + counts[k]
                                  /\ Total(counts) = b[M]
  BY TotalDef
<1>2. PICK c \in [0 .. M -> Nat] : /\ c[0] = 0
                                  /\ \A k \in 0 .. M - 1 : c[k + 1] = c[k] + more[k]
                                  /\ Total(more) = c[M]
  <2> HIDE DEF more
  <2> QED BY <1>0, TotalDef
<1> DEFINE T == {k \in 0 .. M : c[k] = b[k] + (IF k <= i THEN 0 ELSE 1)}
<1>3. 0 \in T
  BY <1>0, <1>1, <1>2
<1>4. ASSUME NEW k \in 0 .. M - 1, k \in T PROVE k + 1 \in T
  <2>1. more[k] = IF k = i THEN counts[k] + 1 ELSE counts[k]
    OBVIOUS
  <2>2. c[k + 1] = b[k] + (IF k <= i THEN 0 ELSE 1) + more[k] /\ b[k + 1] = b[k] + counts[k]
    BY <1>1, <1>2, <1>4
  <2>3. b[k] \in Nat /\ counts[k] \in Nat /\ k \in Nat /\ i \in Nat /\ k + 1 \in 0 .. M
    BY <1>0
  <2>4. c[k + 1] = b[k + 1] + (IF k + 1 <= i THEN 0 ELSE 1)
    <3> HIDE DEF more
    <3> QED BY <2>1, <2>2, <2>3
  <2> QED BY <2>3, <2>4
<1>5. M \in T
  <2> HIDE DEF T
  <2>1. \A k \in 0 .. M : k \in T
    BY <1>0, <1>3, <1>4, UpTo
  <2> QED BY <1>0, <2>1
<1>6. c[M] = b[M] + 1
  BY <1>0, <1>5
<1> QED BY <1>1, <1>2, <1>6

\* A row of zeros adds up to nothing.
LEMMA TotalNone == NoVotes \in [0 .. MaxCandidates - 1 -> Nat] /\ Total(NoVotes) = 0
<1>0. MaxCandidates \in Nat /\ NoVotes \in [0 .. MaxCandidates - 1 -> Nat]
  BY ElectionAssumption DEF NoVotes
<1>1. PICK b \in [0 .. MaxCandidates -> Nat] :
         /\ b[0] = 0
         /\ \A k \in 0 .. MaxCandidates - 1 : b[k + 1] = b[k] + NoVotes[k]
         /\ Total(NoVotes) = b[MaxCandidates]
  BY <1>0, TotalDef
<1> DEFINE T == {k \in 0 .. MaxCandidates : b[k] = 0}
<1>2. 0 \in T
  BY <1>0, <1>1
<1>3. \A k \in 0 .. MaxCandidates - 1 : k \in T => k + 1 \in T
  BY <1>0, <1>1 DEF NoVotes
<1>4. MaxCandidates \in T
  <2> HIDE DEF T
  <2>1. \A k \in 0 .. MaxCandidates : k \in T
    BY <1>0, <1>2, <1>3, UpTo
  <2> QED BY <1>0, <2>1
<1> QED BY <1>0, <1>1, <1>4

-----------------------------------------------------------------------------
\* Spent nullifiers are of leaves, there are finitely many of both, and the
\* counts add up to the nullifiers.
BallotCounted ==
    \A d \in Divisions :
        /\ IsFiniteSet(leaves[d])
        /\ \A n \in nullifiers[d] : \E l \in leaves[d] : l.commitment.nullifier = n
        /\ IsFiniteSet(nullifiers[d])
        /\ Total(votes[d]) = Cardinality(nullifiers[d])

\* Nothing is spent, and nothing counted, in a new election.
LEMMA CountedInit == Init => BallotCounted
BY TotalNone, FS_EmptySet DEF Init, BallotCounted

\* vote spends a nullifier that was not, and counts one vote.
LEMMA CountedVote ==
    ASSUME EInv, BallotCounted, NEW d \in Divisions, NEW n, Vote(d, n)
    PROVE  BallotCounted'
<1>1. PICK i \in 0 .. candidates[d] - 1 : votes' = [votes EXCEPT ![d][i] = @ + 1]
  BY DEF Vote
<1>2. i \in 0 .. MaxCandidates - 1 /\ votes[d] \in [0 .. MaxCandidates - 1 -> Nat]
  BY ElectionAssumption DEF EInv, TypeOK
<1>3. votes'[d] = [votes[d] EXCEPT ![i] = @ + 1] /\ \A x \in Divisions \ {d} : votes'[x] = votes[x]
  BY <1>1 DEF EInv, TypeOK
<1>4. Total(votes'[d]) = Total(votes[d]) + 1
  BY <1>2, <1>3, TotalOneMore
<1>5. /\ nullifiers'[d] = nullifiers[d] \cup {n} /\ n \notin nullifiers[d]
      /\ \A x \in Divisions \ {d} : nullifiers'[x] = nullifiers[x]
      /\ leaves' = leaves /\ \E l \in leaves[d] : l.commitment.nullifier = n
  BY DEF Vote, Tree, EInv, TypeOK
<1>6. /\ IsFiniteSet(nullifiers'[d])
      /\ Cardinality(nullifiers'[d]) = Cardinality(nullifiers[d]) + 1
  <2>1. IsFiniteSet(nullifiers[d])
    BY DEF BallotCounted
  <2>2. n \notin nullifiers[d]
    BY <1>5
  <2>3. /\ IsFiniteSet(nullifiers[d] \cup {n})
        /\ Cardinality(nullifiers[d] \cup {n}) = Cardinality(nullifiers[d]) + 1
    BY <2>1, <2>2, FS_AddElement
  <2> QED BY <1>5, <2>3
<1> SUFFICES ASSUME NEW x \in Divisions
             PROVE  /\ IsFiniteSet(leaves'[x])
                    /\ \A m \in nullifiers'[x] : \E l \in leaves'[x] : l.commitment.nullifier = m
                    /\ IsFiniteSet(nullifiers'[x])
                    /\ Total(votes'[x]) = Cardinality(nullifiers'[x])
  BY DEF BallotCounted
<1>7. CASE x = d
  BY <1>4, <1>5, <1>6, <1>7 DEF BallotCounted
<1>8. CASE x # d
  BY <1>3, <1>5, <1>8 DEF BallotCounted
<1> QED BY <1>7, <1>8

\* Other calls spend and count nothing; a reset begins again from nothing.
LEMMA CountedStep ==
    ASSUME EInv, BallotCounted, [Next]_vars
    PROVE  BallotCounted'
<1>1. ASSUME NEW d \in Divisions, NEW c \in Commitments, Vote(d, c.nullifier) PROVE BallotCounted'
  BY <1>1, CountedVote
<1>2. ASSUME NEW d \in Divisions, ResetElection(d) PROVE BallotCounted'
  <2>1. \A x \in Divisions :
           /\ leaves'[x] = IF x = d THEN {} ELSE leaves[x]
           /\ nullifiers'[x] = IF x = d THEN {} ELSE nullifiers[x]
           /\ votes'[x] = IF x = d THEN NoVotes ELSE votes[x]
    BY <1>2 DEF ResetElection, EInv, TypeOK
  <2> QED BY <2>1, TotalNone, FS_EmptySet DEF BallotCounted
<1>3. ASSUME NEW d \in Divisions, NEW v \in Devices, NEW c \in Commitments, Register(d, v, c)
      PROVE  BallotCounted'
  <2> DEFINE leaf == [commitment |-> c, device |-> v, nic |-> binding[v].nic]
  <2>1. nullifiers' = nullifiers /\ votes' = votes
    BY <1>3 DEF Register
  <2>2. \A x \in Divisions : leaves'[x] = IF x = d THEN leaves[x] \cup {leaf} ELSE leaves[x]
    BY <1>3 DEF Register, EInv, TypeOK
  <2>3. ASSUME NEW x \in Divisions PROVE IsFiniteSet(leaves'[x])
    <3>1. IsFiniteSet(leaves[x])
      BY DEF BallotCounted
    <3>2. IsFiniteSet(leaves[x] \cup {leaf})
      <4> HIDE DEF leaf
      <4> QED BY <3>1, FS_AddElement
    <3> QED BY <2>2, <3>1, <3>2
  <2> QED BY <2>1, <2>2, <2>3 DEF BallotCounted
<1>4. ASSUME UNCHANGED <<leaves, nullifiers, votes>> PROVE BallotCounted'
  BY <1>4 DEF BallotCounted
<1>5. CASE UNCHANGED vars
  BY <1>4, <1>5 DEF vars, ballot
<1>6. CASE NewEpoch
  BY <1>4, <1>6 DEF NewEpoch, ballot
<1>7. ASSUME NEW d \in Divisions,
             \/ SetCandidates(d) \/ SetGNOfficer(d) \/ AddVoters(d) \/ StartRegistration(d)
             \/ StartVoting(d) \/ EndElection(d) \/ DeadlinePasses(d)
             \/ Authorise(d) \/ EnrolVoter(d)
      PROVE  BallotCounted'
  BY <1>4, <1>7 DEF SetCandidates, SetGNOfficer, AddVoters, StartRegistration, StartVoting,
     EndElection, DeadlinePasses, Authorise, EnrolVoter, ballot
<1> QED BY <1>1, <1>2, <1>3, <1>5, <1>6, <1>7 DEF Next

\* Voting.sol, vote: the counts of a division add up to the nullifiers spent
\* in it, and these are at most as many as the citizens it registered, for
\* any number of candidates, voters and elections.
THEOREM VotesCountedAlways == Spec => []VotesCounted
<1>1. Init => EInv /\ NicInv /\ BallotCounted
  BY ElectionInit, InitInv, CountedInit DEF Init
<1>2. EInv /\ NicInv /\ BallotCounted /\ [Next]_vars => EInv' /\ NicInv' /\ BallotCounted'
  BY ElectionStep, NextIsRegistryStep, NextInv, CountedStep
<1>3. BallotCounted => VotesCounted
  <2> SUFFICES ASSUME BallotCounted, NEW d \in Divisions
               PROVE  Cardinality(nullifiers[d]) <= Cardinality(leaves[d])
    <3> QED BY DEF BallotCounted, VotesCounted
  <2> DEFINE Of(l) == l.commitment.nullifier
             image == {Of(l) : l \in leaves[d]}
  <2>1. IsFiniteSet(image) /\ Cardinality(image) <= Cardinality(leaves[d])
    <3>1. IsFiniteSet(leaves[d])
      BY DEF BallotCounted
    <3>2. [l \in leaves[d] |-> Of(l)] \in Surjection(leaves[d], image)
      BY DEF Surjection
    <3> HIDE DEF Of, image
    <3> QED BY <3>1, <3>2, FS_Surjection
  <2>2. nullifiers[d] \subseteq image
    BY DEF BallotCounted
  <2>3. Cardinality(nullifiers[d]) <= Cardinality(image)
    BY <2>1, <2>2, FS_Subset
  <2>4. /\ Cardinality(nullifiers[d]) \in Nat /\ Cardinality(image) \in Nat
        /\ Cardinality(leaves[d]) \in Nat
    BY <2>1, FS_CardinalityType DEF BallotCounted
  <2> QED BY <2>1, <2>3, <2>4
<1> QED BY <1>1, <1>2, <1>3, PTL DEF Spec

-----------------------------------------------------------------------------
\* Voting.sol, _maybeAdvancePhase: an election that has ended, by a call or by
\* its deadline, keeps its tally, its tree and its phase until the next one.
THEOREM ResultsStayFrozen == Spec => ResultsFrozen
<1> DEFINE Frozen == \A d \in Divisions :
        CurrentPhase(d) = "Ended" /\ electionId'[d] = electionId[d]
        => /\ CurrentPhase(d)' = "Ended"
           /\ votes'[d] = votes[d] /\ leaves'[d] = leaves[d]
<1>1. EInv /\ [Next]_vars => [Frozen]_vars
  <2> SUFFICES ASSUME EInv, Next, NEW d \in Divisions,
                      CurrentPhase(d) = "Ended", electionId'[d] = electionId[d]
               PROVE  CurrentPhase(d)' = "Ended" /\ votes'[d] = votes[d] /\ leaves'[d] = leaves[d]
    OBVIOUS
  <2>1. ASSUME UNCHANGED <<phase[d], expired[d], votes[d], leaves[d]>>
        PROVE  CurrentPhase(d)' = "Ended" /\ votes'[d] = votes[d] /\ leaves'[d] = leaves[d]
    BY <2>1 DEF CurrentPhase
  <2>2. ASSUME NEW x \in Divisions, NEW v, NEW c, Register(x, v, c)
        PROVE  UNCHANGED <<phase[d], expired[d], votes[d], leaves[d]>>
    <3>1. x # d
      BY <2>2 DEF Register
    <3> QED BY <2>2, <3>1 DEF Register, stage, EInv, TypeOK
  <2>3. ASSUME NEW x \in Divisions, NEW n, Vote(x, n)
        PROVE  UNCHANGED <<phase[d], expired[d], votes[d], leaves[d]>>
    <3>1. x # d
      BY <2>3 DEF Vote
    <3> QED BY <2>3, <3>1 DEF Vote, stage, EInv, TypeOK
  <2>4. ASSUME NEW x \in Divisions,
               \/ StartRegistration(x) \/ StartVoting(x) \/ EndElection(x) \/ ResetElection(x)
        PROVE  UNCHANGED <<phase[d], expired[d], votes[d], leaves[d]>>
    <3>1. x # d
      BY <2>4 DEF StartRegistration, StartVoting, EndElection, ResetElection, CurrentPhase, EInv, TypeOK
    <3> QED BY <2>4, <3>1 DEF StartRegistration, StartVoting, EndElection, ResetElection, MoveTo,
            ballot, EInv, TypeOK
  <2>5. ASSUME NEW x \in Divisions, DeadlinePasses(x)
        PROVE  CurrentPhase(d)' = "Ended" /\ votes'[d] = votes[d] /\ leaves'[d] = leaves[d]
    BY <2>5 DEF DeadlinePasses, CurrentPhase, ballot, EInv, TypeOK
  <2>6. ASSUME \/ NewEpoch
               \/ \E x \in Divisions : \/ SetCandidates(x) \/ SetGNOfficer(x) \/ AddVoters(x)
                                      \/ Authorise(x) \/ EnrolVoter(x)
        PROVE  UNCHANGED <<phase[d], expired[d], votes[d], leaves[d]>>
    BY <2>6 DEF NewEpoch, SetCandidates, SetGNOfficer, AddVoters, Authorise, EnrolVoter, ballot, stage
  <2> QED BY <2>1, <2>2, <2>3, <2>4, <2>5, <2>6 DEF Next
<1> QED BY <1>1, ElectionInvariant, PTL DEF Spec, ResultsFrozen

-----------------------------------------------------------------------------
(* The page that closes one election and opens the next.                   *)

\* The page works on divisions that were listed.  What has never been in the
\* registry is empty; what is in it was filled under the current epoch; and
\* there is nothing in it when the NIC records are about to be released.
Kinds == {"idle", "candidates", "registration", "voting", "end", "new"}

Current ==
    /\ listed \subseteq ever /\ ever \subseteq Divisions
    /\ job \in [kind : Kinds, todo : SUBSET ever, step : 1 .. 3]
    /\ job.step = 3 => listed = {}
    /\ \A d \in Divisions \ ever : leaves[d] = {} /\ voters[d] = {}
    /\ \A d \in listed : leaves[d] # {} => nicEpoch[d] = epoch

AInv == EInv /\ NicInv /\ Current

-----------------------------------------------------------------------------
\* Every step of the page and of those who go on meanwhile is one of the
\* contracts', or none.
LEMMA AdminStepIsElectionStep ==
    ASSUME [AdminNext]_adminVars
    PROVE  [Next]_vars
<1>1. CASE UNCHANGED adminVars
  BY <1>1 DEF adminVars
<1>2. ASSUME NEW d \in Divisions, OnSelected(d) PROVE Next
  BY <1>2 DEF OnSelected, Next
<1>3. ASSUME NEW d \in Divisions, AddDivision(d) PROVE Next
  BY <1>3 DEF AddDivision, Authorise, Next
<1>4. ASSUME NEW d \in Divisions, JobCalls(d) PROVE Next
  BY <1>4 DEF JobCalls, CallOf, Next
<1>5. ASSUME NEW d \in Divisions,
             \/ \E v \in Devices, c \in Commitments : Register(d, v, c)
             \/ \E c \in Commitments : Vote(d, c.nullifier)
             \/ DeadlinePasses(d) \/ EnrolVoter(d)
      PROVE  Next
  BY <1>5 DEF Next
<1>6. CASE ReleaseNics
  BY <1>6 DEF ReleaseNics, NewEpoch, Next
<1>7. ASSUME \/ StartJob \/ JobEnds \/ ListNotCleared \/ NicsNotReleased
             \/ \E answered \in BOOLEAN : ClearList(answered)
             \/ \E d \in Divisions : JobSkips(d)
      PROVE  UNCHANGED vars
  BY <1>7 DEF StartJob, JobEnds, ListNotCleared, NicsNotReleased, ClearList, JobSkips
<1> QED BY <1>1, <1>2, <1>3, <1>4, <1>5, <1>6, <1>7 DEF AdminNext

-----------------------------------------------------------------------------
\* The page's own variables, in a step that leaves the contracts alone.
LEMMA PageStep ==
    ASSUME Current, UNCHANGED vars,
           \/ StartJob \/ JobEnds \/ ListNotCleared \/ NicsNotReleased
           \/ \E answered \in BOOLEAN : ClearList(answered)
           \/ \E d \in Divisions : JobSkips(d)
    PROVE  Current'
<1> USE DEF Current, Idle, Kinds
<1>1. UNCHANGED <<leaves, voters, nicEpoch, epoch>>
  BY DEF vars, nicVars, ballot, roll, stage
<1>2. CASE StartJob
  BY <1>1, <1>2 DEF StartJob
<1>3. CASE JobEnds
  BY <1>1, <1>3 DEF JobEnds, Onward, ResetOrder
<1>4. CASE ListNotCleared
  BY <1>1, <1>4 DEF ListNotCleared
<1>5. CASE NicsNotReleased
  BY <1>1, <1>5 DEF NicsNotReleased, Onward, ResetOrder, Step
<1>6. ASSUME NEW answered \in BOOLEAN, ClearList(answered) PROVE Current'
  BY <1>1, <1>6 DEF ClearList, Onward, ResetOrder
<1>7. ASSUME NEW d \in Divisions, JobSkips(d) PROVE Current'
  BY <1>1, <1>7 DEF JobSkips
<1> QED BY <1>2, <1>3, <1>4, <1>5, <1>6, <1>7

\* A call on a division of the registry.
LEMMA OwnerCall ==
    ASSUME Current, TypeOK, NEW d \in Divisions, d \in ever,
           listed' = listed, ever' = ever, job'.step = job.step,
           job' \in [kind : Kinds, todo : SUBSET ever, step : 1 .. 3],
           \/ SetCandidates(d) \/ AddVoters(d) \/ StartRegistration(d) \/ StartVoting(d)
           \/ EndElection(d) \/ ResetElection(d)
    PROVE  Current'
<1>1. CASE SetCandidates(d) \/ StartVoting(d) \/ EndElection(d)
  BY <1>1 DEF Current, SetCandidates, StartVoting, EndElection, nicVars, ballot, roll
<1>2. CASE AddVoters(d)
  BY <1>2 DEF Current, TypeOK, AddVoters, nicVars, ballot, stage
<1>3. CASE StartRegistration(d)
  BY <1>3 DEF Current, TypeOK, StartRegistration, nicVars, ballot, roll
<1>4. CASE ResetElection(d)
  BY <1>4 DEF Current, TypeOK, ResetElection, nicVars
<1> QED BY <1>1, <1>2, <1>3, <1>4

\* What the officers, the voters and the clock do.
LEMMA OthersStep ==
    ASSUME AInv, NEW d \in Divisions, UNCHANGED <<listed, ever, job>>,
           \/ \E v \in Devices, c \in Commitments : Register(d, v, c)
           \/ \E c \in Commitments : Vote(d, c.nullifier)
           \/ DeadlinePasses(d) \/ EnrolVoter(d)
    PROVE  Current'
<1> USE DEF AInv, Current
<1>1. ASSUME NEW v \in Devices, NEW c \in Commitments, Register(d, v, c) PROVE Current'
  <2>1. /\ voters[d] # {} /\ nicEpoch[d] = epoch
        /\ UNCHANGED <<voters, nicEpoch, epoch>>
        /\ \A x \in Divisions \ {d} : leaves'[x] = leaves[x]
    BY <1>1 DEF Register, CommitDevice, stage, EInv, TypeOK
  <2>2. d \in ever
    BY <2>1
  <2> QED BY <2>1, <2>2
<1>2. ASSUME NEW c \in Commitments, Vote(d, c.nullifier) PROVE Current'
  BY <1>2 DEF Vote, nicVars, roll, stage
<1>3. CASE DeadlinePasses(d)
  BY <1>3 DEF DeadlinePasses, nicVars, ballot, roll
<1>4. CASE EnrolVoter(d)
  BY <1>4 DEF EnrolVoter, Enrol, ReserveNicHash, ReissueDevice, ballot, roll, stage
<1> QED BY <1>1, <1>2, <1>3, <1>4

\* Every step of the page and the owner.
LEMMA AdminStep ==
    ASSUME AInv, [AdminNext]_adminVars
    PROVE  AInv'
<1>1. [Next]_vars
  BY AdminStepIsElectionStep
<1>2. EInv' /\ NicInv'
  BY <1>1, ElectionStep, NextIsRegistryStep, NextInv DEF AInv
<1>3. Current'
  <2>1. CASE UNCHANGED adminVars
    BY <2>1 DEF adminVars, vars, nicVars, ballot, roll, stage, AInv, Current
  <2>2. ASSUME NEW d \in Divisions, OnSelected(d) PROVE Current'
    BY <2>2, OwnerCall DEF OnSelected, AInv, EInv, Current
  <2>3. ASSUME NEW d \in Divisions, AddDivision(d) PROVE Current'
    BY <2>3 DEF AddDivision, SetVotingContract, AInv, Current, Idle, Kinds, ballot, roll, stage
  <2>4. ASSUME NEW d \in Divisions, JobCalls(d) PROVE Current'
    <3>1. d \in ever /\ job'.step = job.step /\ job' \in [kind : Kinds, todo : SUBSET ever, step : 1 .. 3]
      BY <2>4 DEF JobCalls, AInv, Current
    <3> QED BY <2>4, <3>1, OwnerCall DEF JobCalls, CallOf, AInv, EInv
  <2>5. ASSUME NEW d \in Divisions, UNCHANGED <<listed, ever, job>>,
               \/ \E v \in Devices, c \in Commitments : Register(d, v, c)
               \/ \E c \in Commitments : Vote(d, c.nullifier)
               \/ DeadlinePasses(d) \/ EnrolVoter(d)
        PROVE  Current'
    BY <2>5, OthersStep
  <2>6. CASE ReleaseNics
    <3>1. job.step = 3 /\ listed = {}
      BY <2>6 DEF ReleaseNics, Step, ResetOrder, AInv, Current
    <3> QED BY <2>6, <3>1 DEF ReleaseNics, ClearNicHashes, Onward, ResetOrder, Idle, Kinds, AInv,
       Current, ballot, roll, stage
  <2>7. ASSUME \/ StartJob \/ JobEnds \/ ListNotCleared \/ NicsNotReleased
               \/ \E answered \in BOOLEAN : ClearList(answered)
               \/ \E d \in Divisions : JobSkips(d)
        PROVE  Current'
    <3>1. UNCHANGED vars
      BY <2>7 DEF StartJob, JobEnds, ListNotCleared, NicsNotReleased, ClearList, JobSkips
    <3> QED BY <2>7, <3>1, PageStep DEF AInv
  <2> QED BY <2>1, <2>2, <2>3, <2>4, <2>5, <2>6, <2>7 DEF AdminNext
<1> QED BY <1>2, <1>3 DEF AInv

\* The page has not been opened.
LEMMA AdminInitInv == AdminInit => AInv
<1> SUFFICES ASSUME AdminInit PROVE AInv
  OBVIOUS
<1>1. EInv /\ NicInv
  BY ElectionInit, InitInv DEF AdminInit, Init
<1>2. Current
  BY DEF AdminInit, Init, Current, Idle, Kinds
<1> QED BY <1>1, <1>2 DEF AInv

-----------------------------------------------------------------------------
\* AdminElectionProvider.tsx: whatever the page does, and whichever of its
\* calls fail, the contracts go through a behaviour of module Election.
THEOREM PageImplementsElection == AdminSpec => Spec
<1>1. AdminInit => Init
  BY DEF AdminInit
<1>2. [AdminNext]_adminVars => [Next]_vars
  BY AdminStepIsElectionStep
<1> QED BY <1>1, <1>2, PTL DEF AdminSpec, Spec

\* handleResetElection: one citizen, one leaf among the divisions listed,
\* because the list is emptied before the NIC records are released.
THEOREM ListedOneLeafAlways == AdminSpec => []ListedOneLeaf
<1>1. AInv => ListedOneLeaf
  <2> SUFFICES ASSUME AInv, NEW d1 \in listed, NEW d2 \in listed,
                      NEW l1 \in leaves[d1], NEW l2 \in leaves[d2], l1.nic = l2.nic
               PROVE  d1 = d2 /\ l1 = l2
    BY DEF ListedOneLeaf
  <2> DEFINE Claim(l, d) == [nic |-> l.nic, device |-> l.device, division |-> d, epoch |-> nicEpoch[d]]
  <2>1. d1 \in Divisions /\ d2 \in Divisions /\ nicEpoch[d1] = epoch /\ nicEpoch[d2] = epoch
    BY DEF AInv, Current
  <2>2. Claim(l1, d1) \in commits /\ Claim(l2, d2) \in commits
    BY <2>1 DEF AInv, EInv, LeavesClaimed
  <2>3. Claim(l1, d1) = Claim(l2, d2)
    BY <2>1, <2>2 DEF AInv, NicInv, OneCommit
  <2>4. d1 = d2 /\ l1.device = l2.device
    BY <2>3
  <2> QED BY <2>1, <2>4 DEF AInv, EInv, LeafPerDevice
<1> QED BY <1>1, AdminInitInv, AdminStep, PTL DEF AdminSpec

-----------------------------------------------------------------------------
(* Enrolment: the desks and the links.                                      *)

Desks == [pc : {"form", "reserve", "reissue", "allow"}, nic : Nics \cup {Zero},
          device : Devices \cup {Zero}, previous : Devices \cup {Zero},
          planned : 0 .. MaxEpoch, landed : 0 .. MaxEpoch]
Invites == [status : {"none", "pending", "claimed"}, division : Divisions \cup {Zero},
            epoch : 0 .. MaxEpoch]
Asked == [pc : {"idle", "reserve", "allow", "claim", "done"}, nic : Nics \cup {Zero},
          device : Devices \cup {Zero}, division : Divisions \cup {Zero}, landed : 0 .. MaxEpoch]
Resets == [pc : {"idle", "ballots", "nics"}, todo : SUBSET Divisions]
Links == [nic : Nics, division : Divisions]

EnrolTypeOK ==
    /\ allowlist \in [Divisions -> SUBSET Devices]
    /\ desk \in [Officers -> Desks]
    /\ invite \in [Nics -> Invites]
    /\ links \subseteq Links
    /\ request \in [Requests -> Asked]
    /\ reset \in Resets
    /\ stale \subseteq Divisions \X Devices

\* The phone has been bound, and to a citizen of this division.
Given(v, n, d) ==
    /\ v \in Devices /\ n \in Nics
    /\ binding[v].status # "Unbound" /\ binding[v].nic = n
    /\ enrolment[n].votingContract = d

\* What a page that is between its two writes, or waits for a confirmation,
\* knows of the registry, unless an epoch has begun since it learnt it.
DeskInv(o) ==
    LET s == desk[o]
    IN  /\ s.nic # Zero => s.device # Zero
        /\ s.pc # "form" \/ s.previous # Zero => s.nic # Zero
        /\ s.planned <= epoch /\ s.landed <= epoch
        /\ s.previous # Zero /\ s.planned = epoch => Given(s.previous, s.nic, DivisionOf[o])
        /\ s.pc = "allow" /\ s.landed = epoch => Given(s.device, s.nic, DivisionOf[o])
        /\ s.pc = "allow" /\ s.previous # Zero /\ s.planned = epoch =>
               s.landed = epoch /\ s.previous # enrolment[s.nic].device

\* The same of a request.
RequestInv(r) ==
    LET q == request[r]
    IN  /\ q.pc \notin {"idle", "done"} =>
               q.nic # Zero /\ q.device # Zero /\ q.division # Zero
        /\ q.landed <= epoch
        /\ q.pc = "allow" /\ q.landed = epoch => Given(q.device, q.nic, q.division)
        /\ q.pc = "claim" /\ q.landed = epoch => Enrolled(q.nic)

\* An entry of a roll is of an epoch before, or of a phone that was given.
Entry(d, v) == <<d, v>> \in stale \/ Given(v, binding[v].nic, d)

RollInv == \A d \in Divisions : \A v \in allowlist[d] : Entry(d, v)

\* Somebody is about to put this very phone on this very roll.
Awaited(n, d, v) ==
    \/ \E o \in Officers : /\ desk[o].pc = "allow" /\ desk[o].nic = n /\ desk[o].device = v
                          /\ DivisionOf[o] = d
    \/ \E r \in Requests : /\ request[r].pc = "allow" /\ request[r].nic = n
                          /\ request[r].device = v /\ request[r].division = d

\* The roll of a citizen's division is behind nothing.
Caught(n) ==
    Enrolled(n) /\ n \notin gaps /\ ~Awaited(n, enrolment[n].votingContract, enrolment[n].device)
    => enrolment[n].device \in allowlist[enrolment[n].votingContract]

LiveInv == \A n \in Nics : Caught(n)

InviteInv ==
    \A n \in Nics : /\ invite[n].epoch <= epoch
                    /\ invite[n].status = "claimed" /\ invite[n].epoch = epoch => Enrolled(n)

DesksInv ==
    /\ \A o \in Officers : DeskInv(o)
    /\ \A r \in Requests : RequestInv(r)
    /\ RollInv /\ LiveInv /\ InviteInv

EnrolIInv == NicInv /\ EnrolTypeOK /\ DesksInv

\* What every step but a reset leaves standing: a division never changes under
\* a citizen, a bound phone stays bound to whom it was bound, and one that is
\* no longer the citizen's phone does not become it again.
Stands ==
    /\ epoch' = epoch
    /\ \A n \in Nics : Enrolled(n) => enrolment'[n].votingContract = enrolment[n].votingContract
    /\ \A v \in Devices : binding[v].status # "Unbound" =>
           binding'[v].status # "Unbound" /\ binding'[v].nic = binding[v].nic
    /\ \A n \in Nics, v \in Devices :
           binding[v].status # "Unbound" /\ enrolment[n].device # v => enrolment'[n].device # v

\* A phone was bound to a citizen, and nothing else changed.
Issued(n, d, v) ==
    /\ Stands
    /\ n \in Nics /\ v \in Devices
    /\ binding[v].status = "Unbound" /\ binding'[v] = Live(n)
    /\ enrolment'[n].device = v /\ enrolment'[n].votingContract = d
    /\ \A m \in Nics \ {n} : enrolment'[m] = enrolment[m]

\* What reserveNicHash does, as the rest of the proof needs it.
LEMMA ReserveIssues ==
    ASSUME NicInv, NEW sender, NEW gn, NEW n \in Nics, NEW d, NEW v \in Devices,
           ReserveNicHash(sender, gn, n, d, v)
    PROVE  Issued(n, d, v)
<1> DEFINE e == [votingContract |-> d, device |-> v, committed |-> FALSE, issueCount |-> 0]
<1>1. /\ ~Enrolled(n) /\ binding[v].status = "Unbound" /\ epoch' = epoch
      /\ enrolment' = [enrolment EXCEPT ![n] = e]
      /\ binding' = [binding EXCEPT ![v] = Live(n)]
  BY DEF ReserveNicHash
<1>2. /\ \A m \in Nics : enrolment'[m] = IF m = n THEN e ELSE enrolment[m]
      /\ \A w \in Devices : binding'[w] = IF w = v THEN Live(n) ELSE binding[w]
  BY <1>1 DEF NicInv, NicTypeOK
<1>3. Stands
  BY <1>1, <1>2 DEF Stands, Enrolled
<1> QED BY <1>1, <1>2, <1>3 DEF Issued

\* The same of reissueDevice.
LEMMA ReissueIssues ==
    ASSUME NicInv, NEW sender, NEW gn, NEW n \in Nics, NEW d, NEW v \in Devices,
           ReissueDevice(sender, gn, n, d, v)
    PROVE  Issued(n, d, v)
<1> DEFINE old == enrolment[n].device
<1> USE NicRegistryAssumption
<1>1. /\ d \in Divisions /\ enrolment[n].votingContract = d /\ binding[v].status = "Unbound"
      /\ epoch' = epoch
      /\ enrolment' = [enrolment EXCEPT ![n].device = v, ![n].issueCount = @ + 1]
      /\ binding' = [binding EXCEPT ![old].status = "Superseded", ![v] = Live(n)]
  BY DEF ReissueDevice, MayEnrol, NicInv, NicTypeOK
<1>2. Enrolled(n) /\ enrolment[n] \in Enrolments /\ old \in Devices
  BY <1>1 DEF NicInv, NicTypeOK, Enrolled, NoEnrolment, Enrolments
<1>3. binding[old] = Live(n) /\ old # v
  BY <1>1, <1>2 DEF NicInv, NicTypeOK, OneLiveDevice, Live
<1>4. /\ enrolment'[n].votingContract = d /\ enrolment'[n].device = v
      /\ \A m \in Nics : m # n => enrolment'[m] = enrolment[m]
  BY <1>1, <1>2 DEF NicInv, NicTypeOK, Enrolments
<1>5. /\ binding'[v] = Live(n)
      /\ binding'[old] = [nic |-> n, status |-> "Superseded"]
      /\ \A w \in Devices \ {v, old} : binding'[w] = binding[w]
  BY <1>1, <1>2, <1>3 DEF NicInv, NicTypeOK, Live
<1>6. \A w \in Devices : binding[w].status # "Unbound" =>
          binding'[w].status # "Unbound" /\ binding'[w].nic = binding[w].nic
  <2> SUFFICES ASSUME NEW w \in Devices, binding[w].status # "Unbound"
               PROVE  binding'[w].status # "Unbound" /\ binding'[w].nic = binding[w].nic
    OBVIOUS
  <2>1. CASE w = old
    BY <1>3, <1>5, <2>1 DEF Live
  <2>2. CASE w # old
    BY <1>1, <1>5, <2>2
  <2> QED BY <2>1, <2>2
<1>7. \A m \in Nics : Enrolled(m) => enrolment'[m].votingContract = enrolment[m].votingContract
  BY <1>1, <1>4
<1>8. \A m \in Nics, w \in Devices :
          binding[w].status # "Unbound" /\ enrolment[m].device # w => enrolment'[m].device # w
  BY <1>1, <1>4
<1>9. Stands
  BY <1>1, <1>6, <1>7, <1>8 DEF Stands
<1> QED BY <1>1, <1>4, <1>5, <1>9 DEF Issued

\* A registration moves neither phone nor division.
LEMMA CommitStands ==
    ASSUME NicInv, NEW d, NEW v \in Devices, NEW e, CommitDevice(d, v, e)
    PROVE  /\ Stands
           /\ \A n \in Nics : /\ enrolment'[n].device = enrolment[n].device
                              /\ enrolment'[n].votingContract = enrolment[n].votingContract
<1> DEFINE n == binding[v].nic
<1>1. /\ n \in Nics /\ enrolment[n] \in Enrolments
      /\ enrolment' = [enrolment EXCEPT ![n].committed = TRUE]
      /\ UNCHANGED <<epoch, binding>>
  BY CommitDeviceFacts
<1>2. \A m \in Nics : /\ enrolment'[m].device = enrolment[m].device
                      /\ enrolment'[m].votingContract = enrolment[m].votingContract
  BY <1>1 DEF NicInv, NicTypeOK, Enrolments
<1>3. Stands
  BY <1>1, <1>2 DEF Stands
<1> QED BY <1>2, <1>3

\* A phone that was given stays given.
LEMMA GivenStands ==
    ASSUME Stands, NEW v, NEW n, NEW d \in Divisions, Given(v, n, d)
    PROVE  Given(v, n, d)'
BY NicRegistryAssumption DEF Stands, Given, Enrolled

\* So what a page or a request knows stays true while it does nothing.
LEMMA DeskStands ==
    ASSUME Stands, EnrolTypeOK, NEW o \in Officers, DeskInv(o), desk'[o] = desk[o]
    PROVE  DeskInv(o)'
<1> DEFINE s == desk[o]
<1>1. DivisionOf[o] \in Divisions /\ epoch' = epoch
  BY EnrolmentAssumption DEF Stands
<1>2. s.previous # Zero /\ s.planned = epoch => Given(s.previous, s.nic, DivisionOf[o])'
  BY <1>1, GivenStands DEF DeskInv
<1>3. s.pc = "allow" /\ s.landed = epoch => Given(s.device, s.nic, DivisionOf[o])'
  BY <1>1, GivenStands DEF DeskInv
<1>4. s.pc = "allow" /\ s.previous # Zero /\ s.planned = epoch =>
          s.landed = epoch /\ s.previous # enrolment'[s.nic].device
  <2> SUFFICES ASSUME s.pc = "allow", s.previous # Zero, s.planned = epoch
               PROVE  s.landed = epoch /\ s.previous # enrolment'[s.nic].device
    OBVIOUS
  <2>1. /\ Given(s.previous, s.nic, DivisionOf[o]) /\ s.previous # enrolment[s.nic].device
        /\ s.landed = epoch
    BY DEF DeskInv
  <2> QED BY <2>1 DEF Stands, Given
<1>5. /\ s.nic # Zero => s.device # Zero
      /\ s.pc # "form" \/ s.previous # Zero => s.nic # Zero
      /\ s.planned <= epoch /\ s.landed <= epoch
  BY DEF DeskInv
<1> QED BY <1>1, <1>2, <1>3, <1>4, <1>5 DEF DeskInv, Given

\* The same of a request.
LEMMA RequestStands ==
    ASSUME Stands, EnrolTypeOK, NEW r \in Requests, RequestInv(r), request'[r] = request[r]
    PROVE  RequestInv(r)'
<1> DEFINE q == request[r]
<1>1. q \in Asked /\ epoch' = epoch
  BY DEF EnrolTypeOK, Stands
<1>2. q.pc \notin {"idle", "done"} => q.nic \in Nics /\ q.device \in Devices /\ q.division \in Divisions
  BY <1>1, NicRegistryAssumption DEF RequestInv, Asked
<1>3. q.pc = "allow" /\ q.landed = epoch => Given(q.device, q.nic, q.division)'
  BY <1>1, <1>2, GivenStands DEF RequestInv
<1>4. q.pc = "claim" /\ q.landed = epoch => enrolment'[q.nic].votingContract # Zero
  BY <1>2 DEF RequestInv, Stands, Enrolled
<1>5. q.landed <= epoch
  BY DEF RequestInv
<1> QED BY <1>1, <1>2, <1>3, <1>4, <1>5 DEF RequestInv, Enrolled

\* A roll that did not change runs ahead of nothing.
LEMMA RollStands ==
    ASSUME Stands, EnrolTypeOK, RollInv, UNCHANGED <<allowlist, stale>>
    PROVE  RollInv'
<1> SUFFICES ASSUME NEW d \in Divisions, NEW v \in allowlist[d] PROVE Entry(d, v)'
  BY DEF RollInv
<1>1. Entry(d, v)
  BY DEF RollInv
<1>2. PICK n : n = binding[v].nic
  OBVIOUS
<1>3. CASE <<d, v>> \in stale
  BY <1>3 DEF Entry
<1>4. CASE Given(v, n, d)
  <2>1. Given(v, n, d)'
    BY <1>4, GivenStands
  <2> QED BY <2>1 DEF Entry, Given
<1> QED BY <1>1, <1>2, <1>3, <1>4 DEF Entry

\* Nor did an invite that did not change lose its citizen.
LEMMA InviteStands ==
    ASSUME Stands, NEW n \in Nics, invite'[n] = invite[n],
           invite[n].epoch <= epoch,
           invite[n].status = "claimed" /\ invite[n].epoch = epoch => Enrolled(n)
    PROVE  /\ invite'[n].epoch <= epoch'
           /\ invite'[n].status = "claimed" /\ invite'[n].epoch = epoch' => Enrolled(n)'
BY DEF Stands, Enrolled

\* No citizen's phone or division changed.
SamePhones ==
    \A n \in Nics : /\ enrolment'[n].device = enrolment[n].device
                    /\ enrolment'[n].votingContract = enrolment[n].votingContract

\* Whoever was about to put a phone on the roll still is, or has left a gap.
StillAwaited ==
    /\ gaps \subseteq gaps'
    /\ \A o \in Officers : desk[o].pc = "allow" => desk'[o] = desk[o] \/ desk[o].nic \in gaps'
    /\ \A r \in Requests : request[r].pc = "allow" => request'[r] = request[r] \/ request[r].nic \in gaps'

\* What is awaited stays so until it is given up.
LEMMA AwaitedStill ==
    ASSUME StillAwaited, NEW n, NEW d, NEW v, Awaited(n, d, v), n \notin gaps'
    PROVE  Awaited(n, d, v)'
BY DEF StillAwaited, Awaited

\* A citizen whom a step does not touch is none the worse for it.
LEMMA CaughtStill ==
    ASSUME StillAwaited, UNCHANGED allowlist, NEW n \in Nics, Caught(n),
           enrolment'[n].device = enrolment[n].device,
           enrolment'[n].votingContract = enrolment[n].votingContract
    PROVE  Caught(n)'
<1> SUFFICES ASSUME Enrolled(n)', n \notin gaps',
                    ~Awaited(n, enrolment[n].votingContract, enrolment[n].device)'
             PROVE  enrolment'[n].device \in allowlist'[enrolment'[n].votingContract]
  BY DEF Caught
<1>1. PICK v, d : v = enrolment[n].device /\ d = enrolment[n].votingContract
  OBVIOUS
<1>2. enrolment'[n].device = v /\ enrolment'[n].votingContract = d
  BY <1>1
<1>3. ~Awaited(n, d, v)'
  BY <1>2
<1>4. ~Awaited(n, d, v)
  BY <1>3, AwaitedStill
<1>5. Enrolled(n) /\ n \notin gaps
  BY <1>1, <1>2 DEF Enrolled, StillAwaited
<1> QED BY <1>1, <1>2, <1>4, <1>5 DEF Caught

\* A step that leaves phones and roll alone opens no gap of its own.
LEMMA LiveQuiet ==
    ASSUME LiveInv, SamePhones, UNCHANGED allowlist, StillAwaited
    PROVE  LiveInv'
BY CaughtStill DEF LiveInv, SamePhones

\* Nor does one that binds a phone, if somebody goes on to put it on the roll
\* or the gap is recorded.
LEMMA LiveIssued ==
    ASSUME LiveInv, NEW n, NEW d, NEW v, Issued(n, d, v), UNCHANGED allowlist, StillAwaited,
           n \in gaps' \/ Awaited(n, d, v)'
    PROVE  LiveInv'
<1> SUFFICES ASSUME NEW m \in Nics PROVE Caught(m)'
  BY DEF LiveInv
<1>1. CASE m = n
  <2>1. enrolment'[m].device = v /\ enrolment'[m].votingContract = d
    BY <1>1 DEF Issued
  <2> QED BY <1>1, <2>1 DEF Caught
<1>2. CASE m # n
  BY <1>2, CaughtStill DEF Issued, LiveInv
<1> QED BY <1>1, <1>2

\* A citizen who is enrolled has a phone, and it is bound to nobody else.
LEMMA PhoneOfCitizen ==
    ASSUME NicInv, NEW m \in Nics, Enrolled(m)
    PROVE  /\ enrolment[m].device \in Devices /\ enrolment[m].votingContract \in Divisions
           /\ binding[enrolment[m].device] = Live(m)
<1>1. enrolment[m] \in Enrolments
  BY DEF NicInv, NicTypeOK, Enrolled, NoEnrolment
<1> QED BY <1>1 DEF NicInv, OneLiveDevice, Enrolments

\* A phone is put on the roll, and the one it replaces taken off; whom that
\* leaves without a phone, and of which epoch the phone is, is observed.
Put(n, d, v, p, landed, others) ==
    /\ landed = epoch => Given(v, n, d)
    /\ Holders(d, p) \subseteq others
    /\ allowlist' = [allowlist EXCEPT ![d] = (@ \ {p}) \cup {v}]
    /\ Observe(d, v, landed, others)
    /\ UNCHANGED nicVars

\* A device put on the roll was given to its citizen.
LEMMA RollPut ==
    ASSUME EnrolTypeOK, RollInv, NEW n, NEW d \in Divisions, NEW v, NEW p, NEW landed, NEW others,
           Put(n, d, v, p, landed, others)
    PROVE  RollInv'
<1> SUFFICES ASSUME NEW c \in Divisions, NEW w \in allowlist'[c] PROVE Entry(c, w)'
  BY DEF RollInv
<1>1. w \in allowlist[c] \/ (w = v /\ c = d)
  BY DEF Put, EnrolTypeOK
<1>2. Given(w, binding[w].nic, c)' <=> Given(w, binding[w].nic, c)
  BY DEF Put, nicVars, Given
<1>3. CASE w = v /\ c = d
  <2>1. CASE landed = epoch
    BY <1>2, <1>3, <2>1 DEF Put, Given, Entry
  <2>2. CASE landed # epoch
    BY <1>3, <2>2 DEF Put, Observe, Entry
  <2> QED BY <2>1, <2>2
<1>4. CASE w \in allowlist[c] /\ ~(w = v /\ c = d)
  <2>1. Entry(c, w)
    BY <1>4 DEF RollInv
  <2>2. <<c, w>> \in stale => <<c, w>> \in stale'
    BY <1>4 DEF Put, Observe
  <2> QED BY <1>2, <2>1, <2>2 DEF Entry
<1> QED BY <1>1, <1>3, <1>4

\* With it the live device of its citizen is on the roll.
LEMMA LivePut ==
    ASSUME NicInv, EnrolTypeOK, LiveInv, NEW n, NEW d \in Divisions, NEW v, NEW p, NEW landed,
           NEW others, Put(n, d, v, p, landed, others),
           \A m, c, w : Awaited(m, c, w) => Awaited(m, c, w)' \/ (m = n /\ c = d /\ w = v)
    PROVE  LiveInv'
<1> SUFFICES ASSUME NEW m \in Nics PROVE Caught(m)'
  BY DEF LiveInv
<1>1. PICK w, c : w = enrolment[m].device /\ c = enrolment[m].votingContract
  OBVIOUS
<1>2. UNCHANGED enrolment
  BY DEF Put, nicVars
<1> SUFFICES ASSUME Enrolled(m), m \notin gaps', ~Awaited(m, c, w)'
             PROVE  w \in allowlist'[c]
  BY <1>1, <1>2 DEF Caught, Enrolled
<1>3. c \in Divisions
  BY <1>1, PhoneOfCitizen
<1>4. CASE w = v /\ c = d
  BY <1>3, <1>4 DEF Put, EnrolTypeOK
<1>5. CASE ~(w = v /\ c = d)
  <2>1. m \notin Holders(d, v)
    BY <1>1, <1>5 DEF Holders
  <2>2. m \notin gaps /\ m \notin Holders(d, p)
    BY <2>1 DEF Put, Observe
  <2>3. ~Awaited(m, c, w)
    BY <1>5
  <2>4. w \in allowlist[c]
    BY <1>1, <2>2, <2>3 DEF LiveInv, Caught
  <2>5. ~(w = p /\ c = d)
    BY <1>1, <2>2 DEF Holders
  <2> QED BY <1>3, <2>4, <2>5 DEF Put, EnrolTypeOK
<1> QED BY <1>4, <1>5

-----------------------------------------------------------------------------
\* A step that changes no more than one page and no request.
OneDesk(o) ==
    /\ \A p \in Officers \ {o} : desk'[p] = desk[p]
    /\ UNCHANGED request

\* A step that changes no more than one request and no page.
OneRequest(r) ==
    /\ \A s \in Requests \ {r} : request'[s] = request[s]
    /\ UNCHANGED desk

\* A step of one desk leaves the other desks and the requests true.
LEMMA DeskAlone ==
    ASSUME Stands, EnrolTypeOK, DesksInv, NEW o \in Officers, OneDesk(o), DeskInv(o)'
    PROVE  (\A p \in Officers : DeskInv(p)') /\ (\A r \in Requests : RequestInv(r)')
<1>1. ASSUME NEW p \in Officers PROVE DeskInv(p)'
  <2>1. CASE p = o
    BY <2>1
  <2>2. CASE p # o
    BY <2>2, DeskStands DEF DesksInv, OneDesk
  <2> QED BY <2>1, <2>2
<1>2. ASSUME NEW r \in Requests PROVE RequestInv(r)'
  BY RequestStands DEF DesksInv, OneDesk
<1> QED BY <1>1, <1>2

\* A step of one request leaves the desks and the other requests true.
LEMMA RequestAlone ==
    ASSUME Stands, EnrolTypeOK, DesksInv, NEW r \in Requests, OneRequest(r), RequestInv(r)'
    PROVE  (\A p \in Officers : DeskInv(p)') /\ (\A s \in Requests : RequestInv(s)')
<1>1. ASSUME NEW p \in Officers PROVE DeskInv(p)'
  BY DeskStands DEF DesksInv, OneRequest
<1>2. ASSUME NEW s \in Requests PROVE RequestInv(s)'
  <2>1. CASE s = r
    BY <2>1
  <2>2. CASE s # r
    BY <2>2, RequestStands DEF DesksInv, OneRequest
  <2> QED BY <2>1, <2>2
<1> QED BY <1>1, <1>2

\* With the registry as it stands the invites stay true.
LEMMA InvitesStand ==
    ASSUME Stands, DesksInv, UNCHANGED invite
    PROVE  InviteInv'
BY InviteStands DEF DesksInv, InviteInv

\* With the registry as it was, everything stands.
LEMMA SameRegistry ==
    ASSUME UNCHANGED nicVars
    PROVE  Stands /\ SamePhones
BY DEF nicVars, Stands, SamePhones

\* What a page does before its first write, and when that write fails.
LEMMA PageStands ==
    ASSUME NicInv, EnrolTypeOK, DesksInv, NEW o \in Officers,
           (\E n \in Nics, v \in Devices : FillForm(o, n, v))
           \/ Submit(o) \/ Confirm(o) \/ RegistryFails(o)
    PROVE  DesksInv'
<1>1. UNCHANGED <<nicVars, allowlist, invite, links, request, gaps, stale>> /\ desk[o].pc # "allow"
  <2>1. UNCHANGED <<nicVars, allowlist, invite, links, request, seen>> /\ desk[o].pc # "allow"
    BY DEF FillForm, Submit, Confirm, RegistryFails
  <2> QED BY <2>1 DEF seen
<1>2. OneDesk(o)
  <2>1. desk \in [Officers -> Desks]
    BY DEF EnrolTypeOK
  <2>2. \A p \in Officers \ {o} : desk'[p] = desk[p]
    BY <2>1 DEF FillForm, Submit, Confirm, RegistryFails, Stops
  <2> QED BY <1>1, <2>2 DEF OneDesk
<1>3. Stands /\ SamePhones
  BY <1>1, SameRegistry
<1>4. StillAwaited
  BY <1>1, <1>2 DEF StillAwaited, OneDesk
<1>0. epoch \in Nat /\ epoch' = epoch
  BY <1>1 DEF NicInv, NicTypeOK, nicVars
<1>5. DeskInv(o)'
  <2>1. CASE \E n \in Nics, v \in Devices : FillForm(o, n, v)
    <3>1. /\ desk'[o].pc = "form" /\ desk'[o].previous = Zero /\ desk'[o].device # Zero
          /\ desk'[o].planned = 0 /\ desk'[o].landed = 0
      BY <2>1, NicRegistryAssumption DEF FillForm, Form, EnrolTypeOK
    <3>2. desk'[o].planned <= epoch' /\ desk'[o].landed <= epoch'
      BY <1>0, <3>1
    <3> QED BY <3>1, <3>2 DEF DeskInv
  <2>2. CASE Submit(o)
    <3> DEFINE n == desk[o].nic
    <3>1. /\ desk'[o].pc \in {"form", "reserve"} /\ desk'[o].nic = n
          /\ desk'[o].device = desk[o].device /\ n # Zero
          /\ desk'[o].previous = IF Plan(o) = "reissue" THEN enrolment[n].device ELSE Zero
          /\ desk'[o].planned \in {0, epoch} /\ desk'[o].landed = desk[o].landed
      BY <2>2 DEF Submit, EnrolTypeOK, Desks
    <3>2. desk[o].device # Zero /\ n \in Nics /\ desk[o].landed <= epoch
      BY <3>1 DEF DesksInv, DeskInv, EnrolTypeOK, Desks
    <3>3. ASSUME Plan(o) = "reissue"
          PROVE  Given(enrolment[n].device, n, DivisionOf[o])'
      <4>1. Enrolled(n) /\ enrolment[n].votingContract = DivisionOf[o]
        BY <3>3 DEF Plan, Enrolled
      <4>2. enrolment[n].device \in Devices /\ binding[enrolment[n].device] = Live(n)
        BY <3>2, <4>1, PhoneOfCitizen
      <4>3. Given(enrolment[n].device, n, DivisionOf[o])
        BY <3>2, <4>1, <4>2 DEF Given, Live
      <4> QED BY <1>1, <3>1, <4>3 DEF nicVars, Given
    <3>4. desk'[o].previous # Zero => Given(desk[o].previous, n, DivisionOf[o])'
      <4> SUFFICES ASSUME desk'[o].previous # Zero PROVE Given(desk[o].previous, n, DivisionOf[o])'
        OBVIOUS
      <4>1. Plan(o) = "reissue" /\ desk'[o].previous = enrolment[n].device /\ enrolment' = enrolment
        BY <1>1, <3>1 DEF nicVars
      <4> QED BY <3>1, <3>3, <4>1 DEF Given
    <3> QED BY <1>0, <1>1, <3>1, <3>2, <3>4 DEF DeskInv, nicVars
  <2>3. CASE Confirm(o)
    <3>1. /\ desk'[o].pc = "reissue" /\ desk'[o].nic = desk[o].nic /\ desk[o].previous # Zero
          /\ desk'[o].device = desk[o].device /\ desk'[o].previous = desk[o].previous
          /\ desk'[o].planned = desk[o].planned /\ desk'[o].landed = desk[o].landed
      BY <2>3 DEF Confirm, EnrolTypeOK, Desks
    <3> QED BY <1>1, <3>1 DEF DesksInv, DeskInv, nicVars, Given
  <2>4. CASE RegistryFails(o)
    <3>1. /\ desk'[o].pc = "form" /\ desk'[o].nic = desk[o].nic
          /\ desk'[o].device = desk[o].device /\ desk'[o].previous = desk[o].previous
          /\ desk'[o].planned = desk[o].planned /\ desk'[o].landed = 0
      BY <2>4 DEF RegistryFails, Stops, EnrolTypeOK, Desks
    <3> QED BY <1>0, <1>1, <3>1 DEF DesksInv, DeskInv, nicVars, Given
  <2> QED BY <2>1, <2>2, <2>3, <2>4
<1>6. RollInv' /\ LiveInv' /\ InviteInv'
  BY <1>1, <1>3, <1>4, RollStands, LiveQuiet, InvitesStand DEF DesksInv
<1> QED BY <1>2, <1>3, <1>5, <1>6, DeskAlone DEF DesksInv

\* The page's first write lands, answered or not.
LEMMA WriteRegistryStands ==
    ASSUME NicInv, EnrolTypeOK, DesksInv, NEW o \in Officers, WriteRegistry(o)
    PROVE  NicInv' /\ DesksInv'
<1> DEFINE s == desk[o]
           d == DivisionOf[o]
<1>1. d \in Divisions /\ s \in Desks
  BY EnrolmentAssumption DEF EnrolTypeOK
<1>2. s.pc \in {"reserve", "reissue"} /\ UNCHANGED <<allowlist, invite, links, request, stale>>
  BY DEF WriteRegistry
<1>3. s.nic \in Nics /\ s.device \in Devices
  BY <1>1, <1>2 DEF DesksInv, DeskInv, Desks
<1>4. ReserveNicHash(o, Gn(d), s.nic, d, s.device) \/ ReissueDevice(o, Gn(d), s.nic, d, s.device)
  BY DEF WriteRegistry
<1>5. NicInv' /\ Issued(s.nic, d, s.device)
  BY <1>3, <1>4, ReserveNicHashInv, ReissueDeviceInv, ReserveIssues, ReissueIssues
<1>6. /\ OneDesk(o) /\ Stands
      /\ desk'[o].nic = s.nic /\ desk'[o].device = s.device /\ desk'[o].previous = s.previous
      /\ desk'[o].planned = s.planned
      /\ \/ desk'[o].pc = "allow" /\ desk'[o].landed = epoch /\ gaps' = gaps
         \/ desk'[o].pc = "form" /\ desk'[o].landed = 0 /\ gaps' = gaps \cup {s.nic}
  BY <1>2, <1>5 DEF WriteRegistry, Stops, OneDesk, EnrolTypeOK, Desks, Issued
<1>7. StillAwaited
  BY <1>2, <1>6 DEF StillAwaited, OneDesk
<1>8. Given(s.device, s.nic, d)'
  BY <1>3, <1>5, <1>6 DEF Issued, Given, Live
<1>9. DeskInv(o)'
  <2> DEFINE current == s.previous # Zero /\ s.planned = epoch
  <2>1. current => Given(s.previous, s.nic, d) /\ Given(s.previous, s.nic, d)'
    BY <1>1, <1>6, GivenStands DEF DesksInv, DeskInv
  <2>2. current => s.previous # s.device
    BY <1>5, <2>1 DEF Issued, Given
  <2>3. current => s.previous # enrolment'[s.nic].device
    BY <1>5, <2>2 DEF Issued
  <2>4. epoch \in Nat /\ epoch' = epoch /\ s.planned <= epoch
    BY <1>6 DEF NicInv, NicTypeOK, Stands, DesksInv, DeskInv
  <2> QED BY <1>3, <1>6, <1>8, <2>1, <2>3, <2>4, NicRegistryAssumption DEF DeskInv, Given
<1>10. s.nic \in gaps' \/ Awaited(s.nic, d, s.device)'
  BY <1>6 DEF Awaited
<1>11. RollInv' /\ LiveInv' /\ InviteInv'
  BY <1>2, <1>5, <1>6, <1>7, <1>10, RollStands, LiveIssued, InvitesStand DEF DesksInv
<1> QED BY <1>5, <1>6, <1>9, <1>11, DeskAlone DEF DesksInv

\* A page that stops goes on knowing what it was to have confirmed.
LEMMA StoppedStands ==
    ASSUME NicInv, EnrolTypeOK, DesksInv, UNCHANGED nicVars, NEW o \in Officers, Stops(o)
    PROVE  DeskInv(o)'
<1>1. /\ desk'[o].pc = "form" /\ desk'[o].nic = desk[o].nic
      /\ desk'[o].device = desk[o].device /\ desk'[o].previous = desk[o].previous
      /\ desk'[o].planned = desk[o].planned /\ desk'[o].landed = 0
  BY DEF Stops, EnrolTypeOK, Desks
<1>2. epoch \in Nat
  BY DEF NicInv, NicTypeOK
<1> QED BY <1>1, <1>2 DEF DesksInv, DeskInv, nicVars, Given

\* Its second write lands: one phone on, the other off.
LEMMA WriteAllowlistStands ==
    ASSUME NicInv, EnrolTypeOK, DesksInv, NEW o \in Officers, WriteAllowlist(o)
    PROVE  DesksInv'
<1> DEFINE s == desk[o]
           d == DivisionOf[o]
<1>1. d \in Divisions /\ s \in Desks
  BY EnrolmentAssumption DEF EnrolTypeOK
<1>2. /\ s.pc = "allow" /\ UNCHANGED <<nicVars, invite, links, request>>
      /\ allowlist' = [allowlist EXCEPT ![d] = (@ \ {s.previous}) \cup {s.device}]
      /\ Observe(d, s.device, s.landed, Bereft(o))
      /\ OneDesk(o)
  BY DEF WriteAllowlist, Stops, OneDesk, EnrolTypeOK
<1>3. Put(s.nic, d, s.device, s.previous, s.landed, Bereft(o))
  <2>1. s.landed = epoch => Given(s.device, s.nic, d)
    BY <1>2 DEF DesksInv, DeskInv
  <2>2. Holders(d, s.previous) \subseteq Bereft(o)
    <3> SUFFICES ASSUME s.planned = epoch, NEW m \in Nics,
                        enrolment[m].votingContract = d, enrolment[m].device = s.previous
                 PROVE  FALSE
      BY DEF Bereft, Holders
    <3>1. Enrolled(m)
      BY <1>1, NicRegistryAssumption DEF Enrolled
    <3>2. s.previous \in Devices /\ binding[s.previous].nic = m
      <4>1. s.previous \in Devices /\ binding[s.previous] = Live(m)
        BY <3>1, PhoneOfCitizen
      <4> QED BY <4>1 DEF Live
    <3>3. s.previous # Zero
      BY <3>2, NicRegistryAssumption
    <3>4. Given(s.previous, s.nic, d) /\ s.previous # enrolment[s.nic].device
      BY <1>2, <3>3 DEF DesksInv, DeskInv
    <3> QED BY <3>2, <3>4 DEF Given
  <2> QED BY <1>2, <2>1, <2>2 DEF Put
<1>4. Stands
  BY <1>2, SameRegistry
<1>5. DeskInv(o)'
  <2>1. epoch \in Nat /\ epoch' = epoch
    BY <1>2 DEF NicInv, NicTypeOK, nicVars
  <2>2. CASE desk' = [desk EXCEPT ![o] = EmptyForm]
    <3>1. desk'[o] = Form(Zero, Zero)
      BY <2>2 DEF EmptyForm, EnrolTypeOK
    <3>2. /\ desk'[o].pc = "form" /\ desk'[o].nic = Zero /\ desk'[o].previous = Zero
          /\ desk'[o].planned = 0 /\ desk'[o].landed = 0
      BY <3>1 DEF Form
    <3> QED BY <2>1, <3>2 DEF DeskInv
  <2>3. CASE Stops(o)
    BY <1>2, <2>1, <2>3, StoppedStands
  <2> QED BY <2>2, <2>3 DEF WriteAllowlist
<1>6. RollInv'
  BY <1>1, <1>3, RollPut DEF DesksInv
<1>7. \A m, c, w : Awaited(m, c, w) => Awaited(m, c, w)' \/ (m = s.nic /\ c = d /\ w = s.device)
  BY <1>2 DEF Awaited, OneDesk
<1>8. LiveInv'
  BY <1>1, <1>3, <1>7, LivePut DEF DesksInv
<1>9. InviteInv'
  BY <1>2, <1>4, InvitesStand
<1> QED BY <1>2, <1>4, <1>5, <1>6, <1>8, <1>9, DeskAlone DEF DesksInv

\* Its second write fails, and a gap is left.
LEMMA AllowlistFailsStands ==
    ASSUME NicInv, EnrolTypeOK, DesksInv, NEW o \in Officers, AllowlistFails(o)
    PROVE  DesksInv'
<1> DEFINE s == desk[o]
<1>1. /\ s.pc = "allow" /\ UNCHANGED <<nicVars, allowlist, invite, links, request, stale>>
      /\ gaps' = gaps \cup {s.nic}
      /\ OneDesk(o)
  BY DEF AllowlistFails, Stops, OneDesk, EnrolTypeOK
<1>2. Stands /\ SamePhones
  BY <1>1, SameRegistry
<1>3. StillAwaited
  BY <1>1 DEF StillAwaited, OneDesk
<1>4. DeskInv(o)'
  BY <1>1, StoppedStands DEF AllowlistFails
<1>5. RollInv' /\ LiveInv' /\ InviteInv'
  BY <1>1, <1>2, <1>3, RollStands, LiveQuiet, InvitesStand DEF DesksInv
<1> QED BY <1>1, <1>2, <1>4, <1>5, DeskAlone DEF DesksInv

-----------------------------------------------------------------------------
\* The steps of a new election that change neither roll nor registry.
Clears ==
    StartReset \/ ListCleared \/ EnrolmentsKept \/ \E d \in Divisions : ResetSkips(d)

\* An import, a link that expires, a division that is authorised, a phone that
\* registers, a new election's step that changes no contract: no page and no
\* request moves.
LEMMA OthersStand ==
    ASSUME NicInv, EnrolTypeOK, DesksInv,
           \/ \E n \in Nics, d \in Divisions : ImportRow(n, d)
           \/ \E l \in links : LinkExpires(l)
           \/ \E d \in Divisions : AuthoriseDivision(d)
           \/ \E d \in Divisions, v \in Devices : RegisterPhone(d, v)
           \/ Clears
    PROVE  DesksInv'
<1>1. UNCHANGED <<allowlist, desk, request, gaps, stale>>
  BY DEF ImportRow, LinkExpires, AuthoriseDivision, RegisterPhone, Clears, StartReset, ResetSkips,
     ListCleared, EnrolmentsKept, seen
<1>2. Stands /\ SamePhones
  <2>1. CASE UNCHANGED nicVars
    BY <2>1, SameRegistry
  <2>2. CASE \E d \in Divisions : AuthoriseDivision(d)
    BY <2>2 DEF AuthoriseDivision, SetVotingContract, Stands, SamePhones
  <2>3. CASE \E d \in Divisions, v \in Devices : RegisterPhone(d, v)
    BY <2>3, CommitStands DEF RegisterPhone, SamePhones
  <2> QED BY <2>1, <2>2, <2>3 DEF ImportRow, LinkExpires, Clears, StartReset, ResetSkips,
            ListCleared, EnrolmentsKept
<1>3. StillAwaited
  BY <1>1 DEF StillAwaited
<1>4. RollInv' /\ LiveInv'
  BY <1>1, <1>2, <1>3, RollStands, LiveQuiet DEF DesksInv
<1>5. (\A p \in Officers : DeskInv(p)') /\ (\A r \in Requests : RequestInv(r)')
  BY <1>1, <1>2, DeskStands, RequestStands DEF DesksInv
<1>6. InviteInv'
  <2>1. CASE UNCHANGED invite
    BY <1>2, <2>1, InvitesStand
  <2>2. ASSUME NEW n \in Nics, NEW d \in Divisions, ImportRow(n, d)
        PROVE  InviteInv'
    <3> SUFFICES ASSUME NEW m \in Nics
                 PROVE  /\ invite'[m].epoch <= epoch'
                        /\ invite'[m].status = "claimed" /\ invite'[m].epoch = epoch' => Enrolled(m)'
      BY DEF InviteInv
    <3>1. CASE m = n
      BY <1>2, <2>2, <3>1 DEF ImportRow, EnrolTypeOK, Stands, NicInv, NicTypeOK
    <3>2. CASE m # n
      <4>1. invite'[m] = invite[m]
        BY <2>2, <3>2 DEF ImportRow, EnrolTypeOK
      <4> QED BY <1>2, <4>1, InviteStands DEF DesksInv, InviteInv
    <3> QED BY <3>1, <3>2
  <2> QED BY <2>1, <2>2 DEF LinkExpires, AuthoriseDivision, RegisterPhone, Clears, StartReset,
            ResetSkips, ListCleared, EnrolmentsKept
<1> QED BY <1>4, <1>5, <1>6 DEF DesksInv

-----------------------------------------------------------------------------
\* What a request does before its first write, when one of its writes fails,
\* and when it marks the invite.
LEMMA RequestMovesStand ==
    ASSUME NicInv, EnrolTypeOK, DesksInv, NEW r \in Requests,
           \/ \E l \in links, v \in Devices : OpenLink(r, l, v)
           \/ ReserveForLinkFails(r)
           \/ ClaimInvite(r)
    PROVE  DesksInv'
<1>1. UNCHANGED <<nicVars, allowlist, desk, links, gaps, stale>> /\ request[r].pc # "allow"
  <2>1. UNCHANGED <<nicVars, allowlist, desk, links, seen>> /\ request[r].pc # "allow"
    BY DEF OpenLink, ReserveForLinkFails, ClaimInvite
  <2> QED BY <2>1 DEF seen
<1>0. epoch \in Nat /\ epoch' = epoch
  BY <1>1 DEF NicInv, NicTypeOK, nicVars
<1>2. OneRequest(r)
  <2>1. request \in [Requests -> Asked]
    BY DEF EnrolTypeOK
  <2>2. \A p \in Requests \ {r} : request'[p] = request[p]
    BY <2>1 DEF OpenLink, ReserveForLinkFails, ClaimInvite
  <2> QED BY <1>1, <2>2 DEF OneRequest
<1>3. Stands /\ SamePhones
  BY <1>1, SameRegistry
<1>4. StillAwaited
  BY <1>1, <1>2 DEF StillAwaited, OneRequest
<1>5. RequestInv(r)'
  <2>1. CASE \E l \in links, v \in Devices : OpenLink(r, l, v)
    <3>1. PICK l \in links, v \in Devices : OpenLink(r, l, v)
      BY <2>1
    <3>2. l.nic \in Nics /\ l.division \in Divisions
      BY DEF EnrolTypeOK, Links
    <3>3. /\ request'[r].pc = "reserve" /\ request'[r].nic = l.nic /\ request'[r].device = v
          /\ request'[r].division = l.division /\ request'[r].landed = 0
      BY <3>1 DEF OpenLink, EnrolTypeOK, Asks
    <3>4. request'[r].landed <= epoch'
      BY <1>0, <3>3
    <3> QED BY <3>2, <3>3, <3>4, NicRegistryAssumption DEF RequestInv
  <2>2. CASE ReserveForLinkFails(r) \/ ClaimInvite(r)
    <3>1. request'[r].pc = "done" /\ request'[r].landed = 0
      BY <2>2 DEF ReserveForLinkFails, ClaimInvite, EnrolTypeOK, Answered, Asks
    <3> QED BY <1>0, <3>1 DEF RequestInv
  <2> QED BY <2>1, <2>2
<1>6. RollInv' /\ LiveInv'
  BY <1>1, <1>3, <1>4, RollStands, LiveQuiet DEF DesksInv
<1>7. InviteInv'
  <2>1. CASE UNCHANGED invite
    BY <1>3, <2>1, InvitesStand
  <2>2. CASE ClaimInvite(r)
    <3> DEFINE n == request[r].nic
    <3> SUFFICES ASSUME NEW m \in Nics
                 PROVE  /\ invite'[m].epoch <= epoch'
                        /\ invite'[m].status = "claimed" /\ invite'[m].epoch = epoch' => Enrolled(m)'
      BY DEF InviteInv
    <3>1. CASE m = n
      <4>1. CASE UNCHANGED invite
        BY <1>3, <3>1, <4>1, InviteStands DEF DesksInv, InviteInv
      <4>2. CASE invite' = [invite EXCEPT ![n].status = "claimed", ![n].epoch = request[r].landed]
        <5>1. invite'[m].epoch = request[r].landed
          BY <3>1, <4>2 DEF EnrolTypeOK, Invites
        <5>2. /\ request[r].landed <= epoch
              /\ request[r].landed = epoch => Enrolled(m)
          BY <2>2, <3>1 DEF ClaimInvite, DesksInv, RequestInv
        <5> QED BY <1>0, <1>1, <5>1, <5>2 DEF nicVars, Enrolled
      <4> QED BY <2>2, <4>1, <4>2 DEF ClaimInvite
    <3>2. CASE m # n
      <4>1. invite'[m] = invite[m]
        BY <2>2, <3>2 DEF ClaimInvite, EnrolTypeOK
      <4> QED BY <1>3, <4>1, InviteStands DEF DesksInv, InviteInv
    <3> QED BY <3>1, <3>2
  <2> QED BY <2>1, <2>2 DEF OpenLink, ReserveForLinkFails
<1> QED BY <1>2, <1>3, <1>5, <1>6, <1>7, RequestAlone DEF DesksInv

\* The request's first write lands, answered or not.
LEMMA ReserveForLinkStands ==
    ASSUME NicInv, EnrolTypeOK, DesksInv, NEW r \in Requests, ReserveForLink(r)
    PROVE  NicInv' /\ DesksInv'
<1> DEFINE q == request[r]
<1>1. q \in Asked /\ q.pc = "reserve" /\ UNCHANGED <<allowlist, desk, invite, links, stale>>
  BY DEF ReserveForLink, EnrolTypeOK
<1>2. q.nic \in Nics /\ q.device \in Devices /\ q.division \in Divisions
  BY <1>1 DEF DesksInv, RequestInv, Asked
<1>3. NicInv' /\ Issued(q.nic, q.division, q.device)
  BY <1>2, ReserveNicHashInv, ReserveIssues DEF ReserveForLink
<1>4. /\ OneRequest(r) /\ Stands
      /\ \/ /\ request'[r].pc = "allow" /\ request'[r].landed = epoch /\ gaps' = gaps
            /\ request'[r].nic = q.nic /\ request'[r].device = q.device
            /\ request'[r].division = q.division
         \/ /\ request'[r].pc = "done" /\ request'[r].landed = 0 /\ gaps' = gaps \cup {q.nic}
  <2>1. request \in [Requests -> Asked] /\ Stands
    BY <1>3 DEF EnrolTypeOK, Issued
  <2>2. CASE request' = [request EXCEPT ![r].pc = "allow", ![r].landed = epoch] /\ gaps' = gaps
    BY <1>1, <2>1, <2>2 DEF OneRequest, Asked
  <2>3. CASE request' = [request EXCEPT ![r] = Answered] /\ gaps' = gaps \cup {q.nic}
    BY <1>1, <2>1, <2>3 DEF OneRequest, Answered, Asks
  <2> QED BY <2>2, <2>3 DEF ReserveForLink
<1>5. StillAwaited
  BY <1>1, <1>4 DEF StillAwaited, OneRequest
<1>6. PICK n, v, d : n = q.nic /\ v = q.device /\ d = q.division
  OBVIOUS
<1>7. Given(v, n, d)'
  BY <1>2, <1>3, <1>6 DEF Issued, Given, Live
<1>8. RequestInv(r)'
  <2>1. epoch \in Nat /\ epoch' = epoch
    BY <1>4 DEF NicInv, NicTypeOK, Stands
  <2> QED BY <1>2, <1>4, <1>6, <1>7, <2>1, NicRegistryAssumption DEF RequestInv
<1>9. n \in gaps' \/ Awaited(n, d, v)'
  BY <1>4, <1>6 DEF Awaited
<1>10. RollInv' /\ LiveInv' /\ InviteInv'
  BY <1>1, <1>3, <1>4, <1>5, <1>6, <1>9, RollStands, LiveIssued, InvitesStand DEF DesksInv
<1> QED BY <1>3, <1>4, <1>8, <1>10, RequestAlone DEF DesksInv

\* Its second, made or failed.
LEMMA AllowForLinkStands ==
    ASSUME NicInv, EnrolTypeOK, DesksInv, NEW r \in Requests, AllowForLink(r)
    PROVE  DesksInv'
<1> DEFINE q == request[r]
<1>1. /\ q \in Asked /\ q.pc = "allow" /\ UNCHANGED <<nicVars, desk, invite, links>>
      /\ OneRequest(r) /\ q.division \in Divisions
  BY NicRegistryAssumption DEF AllowForLink, EnrolTypeOK, OneRequest, Asked, DesksInv, RequestInv
<1>2. q.landed = epoch => Given(q.device, q.nic, q.division)
  BY <1>1 DEF DesksInv, RequestInv
<1>3. Stands /\ SamePhones /\ InviteInv' /\ epoch \in Nat /\ epoch' = epoch
  BY <1>1, SameRegistry, InvitesStand DEF NicInv, NicTypeOK, nicVars
<1>4. CASE /\ allowlist' = [allowlist EXCEPT ![q.division] = @ \cup {q.device}]
           /\ request' = [request EXCEPT ![r].pc = "claim"]
           /\ Observe(q.division, q.device, q.landed, {})
  <2>1. allowlist' = [allowlist EXCEPT ![q.division] = (@ \ {Zero}) \cup {q.device}]
    <3>1. allowlist[q.division] \ {Zero} = allowlist[q.division]
      BY <1>1, NicRegistryAssumption DEF EnrolTypeOK
    <3> QED BY <1>4, <3>1
  <2>2. Holders(q.division, Zero) = {}
    <3> SUFFICES ASSUME NEW m \in Nics, enrolment[m].votingContract = q.division,
                        enrolment[m].device = Zero
                 PROVE  FALSE
      BY DEF Holders
    <3>1. Enrolled(m)
      BY <1>1, NicRegistryAssumption DEF Enrolled
    <3> QED BY <3>1, PhoneOfCitizen, NicRegistryAssumption
  <2>3. Put(q.nic, q.division, q.device, Zero, q.landed, {})
    BY <1>1, <1>2, <1>4, <2>1, <2>2 DEF Put
  <2>4. \A m, c, w : Awaited(m, c, w) =>
            Awaited(m, c, w)' \/ (m = q.nic /\ c = q.division /\ w = q.device)
    BY <1>1 DEF Awaited, OneRequest
  <2>5. RollInv' /\ LiveInv'
    BY <1>1, <2>3, <2>4, RollPut, LivePut DEF DesksInv
  <2>6. RequestInv(r)'
    <3>1. /\ request'[r].pc = "claim" /\ request'[r].nic = q.nic /\ request'[r].device = q.device
          /\ request'[r].division = q.division /\ request'[r].landed = q.landed
      BY <1>1, <1>4 DEF EnrolTypeOK, Asked
    <3>2. q.nic # Zero /\ q.device # Zero /\ q.division # Zero /\ q.landed <= epoch
      BY <1>1 DEF DesksInv, RequestInv
    <3>3. q.landed = epoch => Enrolled(q.nic)
      BY <1>1, <1>2, NicRegistryAssumption DEF Given, Enrolled
    <3> QED BY <1>1, <1>3, <3>1, <3>2, <3>3 DEF RequestInv, Enrolled, nicVars
  <2> QED BY <1>1, <1>3, <2>5, <2>6, RequestAlone DEF DesksInv
<1>5. CASE /\ request' = [request EXCEPT ![r] = Answered]
           /\ gaps' = gaps \cup {q.nic}
           /\ UNCHANGED <<allowlist, stale>>
  <2>1. StillAwaited
    BY <1>1, <1>5 DEF StillAwaited, OneRequest
  <2>2. RequestInv(r)'
    <3>1. request'[r].pc = "done" /\ request'[r].landed = 0
      BY <1>5 DEF EnrolTypeOK, Answered, Asks
    <3> QED BY <1>3, <3>1 DEF RequestInv
  <2>3. RollInv' /\ LiveInv'
    BY <1>3, <1>5, <2>1, RollStands, LiveQuiet DEF DesksInv
  <2> QED BY <1>1, <1>3, <2>2, <2>3, RequestAlone DEF DesksInv
<1> QED BY <1>4, <1>5 DEF AllowForLink

\* The reset of one division leaves its citizens without a phone on the roll,
\* and says so.
LEMMA ResetDivisionStands ==
    ASSUME NicInv, EnrolTypeOK, DesksInv, NEW d \in Divisions, ResetDivision(d)
    PROVE  DesksInv'
<1>1. /\ UNCHANGED <<nicVars, desk, invite, links, request>>
      /\ allowlist' = [allowlist EXCEPT ![d] = {}]
      /\ gaps' = gaps \cup {n \in Nics : enrolment[n].votingContract = d}
      /\ stale' = {e \in stale : e[1] # d}
  BY DEF ResetDivision
<1>2. Stands
  BY <1>1, SameRegistry
<1>3. (\A p \in Officers : DeskInv(p)') /\ (\A r \in Requests : RequestInv(r)')
  BY <1>1, <1>2, DeskStands, RequestStands DEF DesksInv
<1>4. RollInv'
  <2> SUFFICES ASSUME NEW c \in Divisions, NEW v \in allowlist'[c] PROVE Entry(c, v)'
    BY DEF RollInv
  <2>1. c # d /\ v \in allowlist[c]
    BY <1>1 DEF EnrolTypeOK
  <2>2. Entry(c, v)
    BY <2>1 DEF DesksInv, RollInv
  <2>3. <<c, v>> \in stale => <<c, v>> \in stale'
    BY <1>1, <2>1
  <2>4. Given(v, binding[v].nic, c) => Given(v, binding[v].nic, c)'
    BY <1>1 DEF nicVars, Given
  <2> QED BY <2>2, <2>3, <2>4 DEF Entry
<1>5. LiveInv'
  <2> SUFFICES ASSUME NEW m \in Nics, Enrolled(m), m \notin gaps',
                      ~Awaited(m, enrolment[m].votingContract, enrolment[m].device)
               PROVE  enrolment[m].device \in allowlist'[enrolment[m].votingContract]
    BY <1>1 DEF LiveInv, Caught, nicVars, Enrolled, Awaited
  <2>1. m \notin gaps /\ enrolment[m].votingContract # d
    BY <1>1
  <2>2. enrolment[m].votingContract \in Divisions
    BY PhoneOfCitizen
  <2> QED BY <1>1, <2>1, <2>2 DEF EnrolTypeOK, DesksInv, LiveInv, Caught
<1>6. InviteInv'
  BY <1>1, <1>2, InvitesStand
<1> QED BY <1>3, <1>4, <1>5, <1>6 DEF DesksInv

\* An epoch begins: nobody is enrolled, every entry of a roll is of an epoch
\* before, and so is all that a page, a request or an invite knows.
LEMMA ReleaseStands ==
    ASSUME NicInv, EnrolTypeOK, DesksInv, ReleaseEnrolments
    PROVE  DesksInv'
<1>1. /\ UNCHANGED <<allowlist, desk, invite, links, request>>
      /\ stale' = {e \in Divisions \X Devices : e[2] \in allowlist[e[1]]}
      /\ enrolment' = [n \in Nics |-> NoEnrolment] /\ epoch' = epoch + 1
  BY DEF ReleaseEnrolments, ClearNicHashes
<1>2. epoch \in Nat
  BY DEF NicInv, NicTypeOK
<1>3. ASSUME NEW o \in Officers PROVE DeskInv(o)'
  <2>1. /\ desk[o].planned \in Nat /\ desk[o].planned <= epoch
        /\ desk[o].landed \in Nat /\ desk[o].landed <= epoch
    BY DEF EnrolTypeOK, Desks, DesksInv, DeskInv
  <2>2. /\ desk[o].planned <= epoch' /\ desk[o].planned # epoch'
        /\ desk[o].landed <= epoch' /\ desk[o].landed # epoch'
    BY <1>1, <1>2, <2>1
  <2> QED BY <1>1, <2>2 DEF DesksInv, DeskInv
<1>4. ASSUME NEW r \in Requests PROVE RequestInv(r)'
  <2>1. request[r].landed \in Nat /\ request[r].landed <= epoch
    BY DEF EnrolTypeOK, Asked, DesksInv, RequestInv
  <2>2. request[r].landed <= epoch' /\ request[r].landed # epoch'
    BY <1>1, <1>2, <2>1
  <2> QED BY <1>1, <2>2 DEF DesksInv, RequestInv
<1>5. RollInv'
  BY <1>1 DEF RollInv, Entry, EnrolTypeOK
<1>6. \A n \in Nics : ~Enrolled(n)'
  BY <1>1 DEF Enrolled, NoEnrolment
<1>7. LiveInv'
  BY <1>6 DEF LiveInv, Caught
<1>8. InviteInv'
  <2>1. \A n \in Nics : invite[n].epoch \in Nat /\ invite[n].epoch <= epoch
    BY DEF DesksInv, InviteInv, EnrolTypeOK, Invites
  <2>2. \A n \in Nics : invite'[n].epoch <= epoch' /\ invite'[n].epoch # epoch'
    BY <1>1, <1>2, <2>1
  <2> QED BY <2>2 DEF InviteInv
<1> QED BY <1>3, <1>4, <1>5, <1>7, <1>8 DEF DesksInv

-----------------------------------------------------------------------------
\* The pages keep their shape.
LEMMA DeskTypes ==
    ASSUME NicInv, EnrolTypeOK, DesksInv, NEW o \in Officers, AtDesk(o)
    PROVE  EnrolTypeOK'
<1>1. desk[o] \in Desks /\ desk \in [Officers -> Desks] /\ epoch \in 0 .. MaxEpoch /\ 0 \in 0 .. MaxEpoch
  BY NicRegistryAssumption DEF EnrolTypeOK, NicInv, NicTypeOK
<1>2. UNCHANGED <<invite, links, request, reset>>
  <2>1. ASSUME NEW n \in Nics, NEW v \in Devices, FillForm(o, n, v)
        PROVE  UNCHANGED <<invite, links, request, reset>>
    BY <2>1 DEF FillForm
  <2>2. Submit(o) \/ Confirm(o) => UNCHANGED <<invite, links, request, reset>>
    BY DEF Submit, Confirm
  <2>3. WriteRegistry(o) => UNCHANGED <<invite, links, request, reset>>
    BY DEF WriteRegistry
  <2>4. RegistryFails(o) \/ AllowlistFails(o) => UNCHANGED <<invite, links, request, reset>>
    BY DEF RegistryFails, AllowlistFails
  <2>5. WriteAllowlist(o) => UNCHANGED <<invite, links, request, reset>>
    BY DEF WriteAllowlist
  <2> QED BY <2>1, <2>2, <2>3, <2>4, <2>5 DEF AtDesk
<1>3. EmptyForm \in Desks
  BY <1>1 DEF EmptyForm, Form, Desks
<1>4. Stops(o) => desk' \in [Officers -> Desks]
  <2> SUFFICES ASSUME Stops(o) PROVE desk' \in [Officers -> Desks]
    OBVIOUS
  <2> DEFINE s == [desk[o] EXCEPT !.pc = "form", !.landed = 0]
  <2>1. s \in Desks
    BY <1>1 DEF Desks
  <2>2. desk' = [desk EXCEPT ![o] = s]
    BY <1>1 DEF Stops
  <2> QED BY <1>1, <2>1, <2>2
<1>5. ASSUME NEW n \in Nics, NEW v \in Devices, FillForm(o, n, v)
      PROVE  EnrolTypeOK'
  <2> DEFINE s == Form(n, v)
  <2>1. s \in Desks
    BY <1>1 DEF Form, Desks
  <2>2. desk' = [desk EXCEPT ![o] = s] /\ UNCHANGED <<allowlist, stale>>
    BY <1>5 DEF FillForm, seen
  <2>3. desk' \in [Officers -> Desks]
    BY <1>1, <2>1, <2>2
  <2> QED BY <1>2, <2>2, <2>3 DEF EnrolTypeOK
<1>6. CASE Submit(o)
  <2> DEFINE old == enrolment[desk[o].nic].device
  <2>1. /\ desk[o].nic \in Nics /\ UNCHANGED <<allowlist, stale>>
        /\ desk' = [desk EXCEPT
              ![o].pc = IF Plan(o) = "new" THEN "reserve" ELSE "form",
              ![o].previous = IF Plan(o) = "reissue" THEN old ELSE Zero,
              ![o].planned = IF Plan(o) = "reissue" THEN epoch ELSE 0]
    BY <1>1, <1>6 DEF Submit, Desks, seen
  <2>2. old \in Devices \cup {Zero}
    BY <2>1 DEF NicInv, NicTypeOK, Enrolments, NoEnrolment
  <2>3. desk' \in [Officers -> Desks]
    BY <1>1, <2>1, <2>2 DEF Desks
  <2> QED BY <1>2, <2>1, <2>3 DEF EnrolTypeOK
<1>7. CASE Confirm(o) \/ RegistryFails(o) \/ AllowlistFails(o) \/ WriteRegistry(o)
  <2>1. desk' \in [Officers -> Desks] /\ UNCHANGED <<allowlist, stale>>
    BY <1>1, <1>4, <1>7 DEF Confirm, RegistryFails, AllowlistFails, WriteRegistry, Desks, seen
  <2> QED BY <1>2, <2>1 DEF EnrolTypeOK
<1>8. CASE WriteAllowlist(o)
  <2>1. desk' \in [Officers -> Desks]
    BY <1>1, <1>3, <1>4, <1>8 DEF WriteAllowlist
  <2>2. desk[o].device \in Devices /\ DivisionOf[o] \in Divisions
    BY <1>1, <1>8, EnrolmentAssumption DEF WriteAllowlist, DesksInv, DeskInv, Desks
  <2>3. allowlist' \in [Divisions -> SUBSET Devices]
    BY <1>8, <2>2 DEF WriteAllowlist, EnrolTypeOK
  <2>4. stale' \subseteq Divisions \X Devices
    BY <1>8, <2>2 DEF WriteAllowlist, Observe, EnrolTypeOK
  <2> QED BY <1>2, <2>1, <2>3, <2>4 DEF EnrolTypeOK
<1> QED BY <1>5, <1>6, <1>7, <1>8 DEF AtDesk

\* So do the requests.
LEMMA RequestTypes ==
    ASSUME NicInv, EnrolTypeOK, DesksInv, NEW r \in Requests, ByLink(r)
    PROVE  EnrolTypeOK'
<1>1. /\ request[r] \in Asked /\ request \in [Requests -> Asked]
      /\ epoch \in 0 .. MaxEpoch /\ 0 \in 0 .. MaxEpoch
  BY NicRegistryAssumption DEF EnrolTypeOK, NicInv, NicTypeOK
<1>2. UNCHANGED <<desk, links, reset>>
  BY DEF ByLink, OpenLink, ReserveForLink, ReserveForLinkFails, AllowForLink, ClaimInvite
<1>3. Answered \in Asked
  BY <1>1 DEF Answered, Asks, Asked
<1>4. ASSUME NEW l \in links, NEW v \in Devices, OpenLink(r, l, v) PROVE EnrolTypeOK'
  <2> DEFINE q == Asks("reserve", l.nic, v, l.division)
  <2>1. q \in Asked
    BY <1>1 DEF EnrolTypeOK, Links, Asks, Asked
  <2>2. request' = [request EXCEPT ![r] = q]
    BY <1>4 DEF OpenLink
  <2>3. request' \in [Requests -> Asked]
    BY <1>1, <2>1, <2>2
  <2> QED BY <1>2, <1>4, <2>3 DEF OpenLink, EnrolTypeOK, seen
<1>5. CASE ReserveForLink(r) \/ ReserveForLinkFails(r)
  <2>1. request' \in [Requests -> Asked]
    BY <1>1, <1>3, <1>5 DEF ReserveForLink, ReserveForLinkFails, Asked
  <2> QED BY <1>2, <1>5, <2>1 DEF ReserveForLink, ReserveForLinkFails, EnrolTypeOK, seen
<1>6. CASE AllowForLink(r)
  <2>1. request' \in [Requests -> Asked]
    BY <1>1, <1>3, <1>6 DEF AllowForLink, Asked
  <2>2. request[r].device \in Devices /\ request[r].division \in Divisions
    BY <1>1, <1>6 DEF AllowForLink, DesksInv, RequestInv, Asked
  <2>3. allowlist' \in [Divisions -> SUBSET Devices]
    BY <1>6, <2>2 DEF AllowForLink, EnrolTypeOK
  <2>4. stale' \subseteq Divisions \X Devices
    BY <1>6, <2>2 DEF AllowForLink, Observe, EnrolTypeOK
  <2> QED BY <1>2, <1>6, <2>1, <2>3, <2>4 DEF AllowForLink, EnrolTypeOK
<1>7. CASE ClaimInvite(r)
  <2>1. request' \in [Requests -> Asked]
    BY <1>1, <1>3, <1>7 DEF ClaimInvite
  <2>2. invite' \in [Nics -> Invites]
    <3> DEFINE n == request[r].nic
    <3>1. request[r].landed \in 0 .. MaxEpoch
      BY <1>1 DEF Asked
    <3>2. invite \in [Nics -> Invites]
      BY DEF EnrolTypeOK
    <3>3. CASE invite' = [invite EXCEPT ![n].status = "claimed", ![n].epoch = request[r].landed]
      BY <3>1, <3>2, <3>3 DEF Invites
    <3> QED BY <1>7, <3>2, <3>3 DEF ClaimInvite
  <2> QED BY <1>2, <1>7, <2>1, <2>2 DEF ClaimInvite, EnrolTypeOK, seen
<1> QED BY <1>4, <1>5, <1>6, <1>7 DEF ByLink

\* And the invites, the links and the rolls.
LEMMA OtherTypes ==
    ASSUME NicInv, EnrolTypeOK,
           \/ \E n \in Nics, d \in Divisions : ImportRow(n, d)
           \/ \E l \in links : LinkExpires(l)
           \/ \E d \in Divisions : AuthoriseDivision(d)
           \/ \E d \in Divisions, v \in Devices : RegisterPhone(d, v)
           \/ NewElection
    PROVE  EnrolTypeOK'
<1>1. ASSUME NEW n \in Nics, NEW d \in Divisions, ImportRow(n, d) PROVE EnrolTypeOK'
  <2>1. [status |-> "pending", division |-> d, epoch |-> 0] \in Invites
    BY NicRegistryAssumption DEF Invites
  <2>2. invite' \in [Nics -> Invites]
    BY <1>1, <2>1 DEF ImportRow, EnrolTypeOK
  <2>3. links' \subseteq Links
    BY <1>1 DEF ImportRow, EnrolTypeOK, Links
  <2> QED BY <1>1, <2>2, <2>3 DEF ImportRow, EnrolTypeOK, seen
<1>2. ASSUME NEW l \in links, LinkExpires(l) PROVE EnrolTypeOK'
  BY <1>2 DEF LinkExpires, EnrolTypeOK, seen
<1>3. CASE NewElection
  <2>1. UNCHANGED <<desk, invite, links, request>>
    BY <1>3 DEF NewElection, StartReset, ListCleared, ReleaseEnrolments, EnrolmentsKept, ResetDivision, ResetSkips
  <2>2. reset' \in Resets
    BY <1>3 DEF NewElection, StartReset, ListCleared, ReleaseEnrolments, EnrolmentsKept, ResetDivision,
       ResetSkips, NoReset, ResetAt, Resets, EnrolTypeOK
  <2>3. allowlist' \in [Divisions -> SUBSET Devices]
    BY <1>3 DEF NewElection, StartReset, ListCleared, ReleaseEnrolments, EnrolmentsKept, ResetDivision,
       ResetSkips, EnrolTypeOK
  <2>4. stale' \subseteq Divisions \X Devices
    BY <1>3 DEF NewElection, StartReset, ListCleared, ReleaseEnrolments, EnrolmentsKept, ResetDivision,
       ResetSkips, EnrolTypeOK, seen
  <2> QED BY <2>1, <2>2, <2>3, <2>4 DEF EnrolTypeOK
<1>4. CASE UNCHANGED <<allowlist, desk, invite, links, request, reset, seen>>
  BY <1>4 DEF EnrolTypeOK, seen
<1> QED BY <1>1, <1>2, <1>3, <1>4 DEF AuthoriseDivision, RegisterPhone

\* The registry's own invariant, whoever calls it.
LEMMA EnrolNicInv ==
    ASSUME NicInv, EnrolTypeOK, DesksInv, EnrolNext
    PROVE  NicInv'
<1>1. CASE UNCHANGED nicVars
  BY <1>1 DEF nicVars, NicInv, NicTypeOK, OneLiveDevice, OneCommit, CommitFinal, CommitsDated, Enrolled
<1>2. ASSUME NEW o \in Officers, WriteRegistry(o) PROVE NicInv'
  BY <1>2, WriteRegistryStands
<1>3. ASSUME NEW r \in Requests, ReserveForLink(r) PROVE NicInv'
  BY <1>3, ReserveForLinkStands
<1>4. ASSUME NEW d \in Divisions, AuthoriseDivision(d) PROVE NicInv'
  BY <1>4, SetVotingContractInv DEF AuthoriseDivision
<1>5. ASSUME NEW d \in Divisions, NEW v \in Devices, RegisterPhone(d, v) PROVE NicInv'
  BY <1>5, CommitDeviceInv DEF RegisterPhone
<1>6. CASE NewElection
  <2>1. UNCHANGED nicVars \/ ReleaseEnrolments
    BY <1>6 DEF NewElection, StartReset, ListCleared, EnrolmentsKept, ResetDivision, ResetSkips
  <2> QED BY <1>1, <2>1, ClearNicHashesInv DEF ReleaseEnrolments
<1>7. ASSUME NEW o \in Officers, AtDesk(o) PROVE UNCHANGED nicVars \/ WriteRegistry(o)
  BY <1>7 DEF AtDesk, FillForm, Submit, Confirm, RegistryFails, WriteAllowlist, AllowlistFails
<1>8. ASSUME NEW r \in Requests, ByLink(r) PROVE UNCHANGED nicVars \/ ReserveForLink(r)
  BY <1>8 DEF ByLink, OpenLink, ReserveForLinkFails, AllowForLink, ClaimInvite
<1> QED BY <1>1, <1>2, <1>3, <1>4, <1>5, <1>6, <1>7, <1>8 DEF EnrolNext, ImportRow, LinkExpires

\* Every step keeps what the pages, the requests, the rolls and the invites know.
LEMMA EnrolStep ==
    ASSUME EnrolIInv, [EnrolNext]_enrolVars
    PROVE  EnrolIInv'
<1> USE DEF EnrolIInv
<1>1. CASE UNCHANGED enrolVars
  <2>1. UNCHANGED <<nicVars, allowlist, desk, invite, links, request, reset, gaps, stale>>
    BY <1>1 DEF enrolVars, seen
  <2>2. NicInv'
    BY <2>1 DEF nicVars, NicInv, NicTypeOK, OneLiveDevice, OneCommit, CommitFinal, CommitsDated, Enrolled
  <2>3. EnrolTypeOK'
    BY <2>1 DEF EnrolTypeOK
  <2>4. Stands /\ SamePhones /\ StillAwaited
    BY <2>1, SameRegistry DEF StillAwaited
  <2>5. DesksInv'
    BY <2>1, <2>4, DeskStands, RequestStands, RollStands, LiveQuiet, InvitesStand DEF DesksInv
  <2> QED BY <2>2, <2>3, <2>5
<1>2. CASE EnrolNext
  <2>1. NicInv'
    BY <1>2, EnrolNicInv
  <2>2. EnrolTypeOK'
    BY <1>2, DeskTypes, RequestTypes, OtherTypes DEF EnrolNext
  <2>3. ASSUME NEW o \in Officers, AtDesk(o) PROVE DesksInv'
    BY <2>3, PageStands, WriteRegistryStands, WriteAllowlistStands, AllowlistFailsStands DEF AtDesk
  <2>4. ASSUME NEW r \in Requests, ByLink(r) PROVE DesksInv'
    BY <2>4, RequestMovesStand, ReserveForLinkStands, AllowForLinkStands DEF ByLink
  <2>5. ASSUME NewElection PROVE DesksInv'
    <3>1. Clears => DesksInv'
      BY OthersStand
    <3>2. ASSUME NEW d \in Divisions, ResetDivision(d) PROVE DesksInv'
      BY <3>2, ResetDivisionStands
    <3>3. ReleaseEnrolments => DesksInv'
      BY ReleaseStands
    <3>4. Clears \/ ReleaseEnrolments \/ \E d \in Divisions : ResetDivision(d)
      BY <2>5, Zenon DEF NewElection, Clears
    <3>5. (\E d \in Divisions : ResetDivision(d)) => DesksInv'
      BY <3>2
    <3> QED BY <3>1, <3>3, <3>4, <3>5
  <2>6. DesksInv'
    BY <1>2, <2>3, <2>4, <2>5, OthersStand DEF EnrolNext
  <2> QED BY <2>1, <2>2, <2>6
<1> QED BY <1>1, <1>2

\* Nobody has begun.
LEMMA EnrolInitInv == EnrolInit => EnrolIInv
<1> SUFFICES ASSUME EnrolInit PROVE EnrolIInv
  OBVIOUS
<1>1. NicInv
  BY InitInv DEF EnrolInit
<1>2. EnrolTypeOK
  BY NicRegistryAssumption DEF EnrolInit, EnrolTypeOK, EmptyForm, Form, NoInvite, NoRequest, Asks, NoReset, ResetAt,
     Desks, Invites, Asked, Resets
<1>3. DesksInv
  BY NicRegistryAssumption DEF EnrolInit, NicInit, DesksInv, DeskInv, RequestInv, RollInv, LiveInv, Caught, InviteInv,
     EmptyForm, Form, NoInvite, NoRequest, Asks, NoEnrolment, Enrolled
<1> QED BY <1>1, <1>2, <1>3 DEF EnrolIInv

\* Whoever puts a phone on the roll is in the middle of an enrolment.
LEMMA AwaitedInProgress == ASSUME NEW n, NEW d, NEW v, Awaited(n, d, v) PROVE InProgress(n)
BY DEF Awaited, InProgress

\* page.tsx handleSubmit, selfEnrolRelay.ts and enrolmentInvites.ts: however
\* many desks and requests enrol at once, whichever of their writes and of the
\* writes of a new election fail, and wherever that election's steps fall among
\* them, the roll runs ahead of the registry only by what is of an epoch
\* before, lacks nobody's phone but after a write that failed or a reset, and
\* an invite is claimed only by an enrolled citizen.
THEOREM EnrolmentInvAlways == EnrolSpec => []EnrolmentInv
<1>1. EnrolIInv => EnrolmentInv
  <2> SUFFICES ASSUME EnrolIInv PROVE EnrolmentInv
    OBVIOUS
  <2>1. AllowlistBound
    <3>1. ASSUME NEW d \in Divisions, NEW v \in allowlist[d]
          PROVE  <<d, v>> \in stale
                 \/ (binding[v].status # "Unbound" /\ enrolment[binding[v].nic].votingContract = d)
      BY DEF EnrolIInv, DesksInv, RollInv, Entry, Given
    <3> QED BY <3>1, Zenon DEF AllowlistBound
  <2>2. LivePhoneAllowed
    BY AwaitedInProgress DEF EnrolIInv, DesksInv, LiveInv, Caught, LivePhoneAllowed
  <2>3. ClaimedEnrolled
    BY DEF EnrolIInv, DesksInv, InviteInv, ClaimedEnrolled
  <2> QED BY <2>1, <2>2, <2>3 DEF EnrolmentInv
<1> QED BY <1>1, EnrolInitInv, EnrolStep, PTL DEF EnrolSpec

-----------------------------------------------------------------------------
(* The phone.                                                               *)

NullifierWords == {Zero} \cup {c.nullifier : c \in Commitments}
SecretWords == {Zero} \cup {c.secret : c \in Commitments}
Identities == [device : Devices, commitment : Commitments]
Olds == [device : Devices, commitment : [nullifier : NullifierWords, secret : SecretWords]]
Stores == [identity : Identities \cup {NoIdentity}, address : Devices \cup {Zero},
           registered : BOOLEAN, division : Divisions \cup {Zero}, voted : SUBSET Divisions,
           legacyKey : Devices \cup {Zero}, legacyNullifier : NullifierWords, legacySecret : SecretWords]
Txs == [kind : {"register", "vote"}, identity : Identities, division : Divisions,
        status : {"sent", "ok", "reverted"}, election : 0 .. MaxElection]

PhoneTypeOK == store \in Stores /\ txs \in Seq(Txs) /\ torn \in BOOLEAN

Aims == {"register", "vote", "verify"}
Waiting == {"awaitRegister", "awaitVote", "markRegistered", "markVoted"}
OfRegister == {"register", "awaitRegister", "markRegistered"}
KindOf(pc) == IF pc \in OfRegister THEN "register" ELSE "vote"

\* A screen of a phone that is set up.
OnScreen == flow.division \in Divisions /\ HasIdentity

\* A transaction that was sent is the one of this operation.
AwaitsTx ==
    flow.pc \in Waiting =>
        /\ flow.tx \in DOMAIN txs
        /\ txs[flow.tx].identity = flow.identity /\ txs[flow.tx].division = flow.division
        /\ txs[flow.tx].kind = KindOf(flow.pc)
        /\ flow.pc \in {"markRegistered", "markVoted"} => txs[flow.tx].status = "ok"

\* What a screen's operation is in the middle of: once unlocked it works with
\* the identity the phone holds, and but for a registration of the old app that
\* is the migrated one.
FlowInv ==
    \/ flow = Home
    \/ flow.pc = "create" /\ flow.identity = store.identity /\ flow.identity \in Identities
    \/ flow.pc = "opened" /\ flow.aim \in Aims /\ OnScreen
    \/ /\ flow.pc = "tidy" /\ flow.aim \in Aims /\ OnScreen
       /\ flow.identity = store.identity /\ flow.identity \in Identities
    \/ /\ flow.pc \in Aims \cup {"proved"} \cup Waiting /\ OnScreen
       /\ flow.identity = Held /\ flow.identity \in Identities
       /\ flow.pc \notin OfRegister => store.identity # NoIdentity
       /\ AwaitsTx

\* What a transaction that landed left on the chain, until the next election.
LandedAt(t) ==
    t.status = "ok" =>
        /\ t.election <= electionId[t.division]
        /\ t.election = electionId[t.division] =>
              IF t.kind = "register"
              THEN t.identity.commitment \in Tree(t.division)
              ELSE t.identity.commitment.nullifier \in nullifiers[t.division]

LandedInv == \A i \in DOMAIN txs : LandedAt(txs[i])

\* What the phone notes has landed, with the secrets it keeps.
NotedInv ==
    ~torn => /\ store.registered /\ Held.commitment \in Commitments =>
                   \E i \in DOMAIN txs : i \in Landed("register", Held)
             /\ store.voted # {} => store.identity # NoIdentity
             /\ \A d \in store.voted :
                   \E i \in DOMAIN txs : i \in Landed("vote", Held) /\ txs[i].division = d

Sent(c) == \E i \in DOMAIN txs : txs[i].identity.commitment = c

\* Nobody else knows the phone's secrets, so nobody else inserts their leaf.
LeavesAreSent == \A d \in Divisions : \A c \in Tree(d) : Sent(c)

\* Without an address there is nothing the phone could have done, and with one
\* it has an identity.
StoreInv ==
    ~torn =>
        /\ HasIdentity => store.identity # NoIdentity \/ store.legacyKey # Zero
        /\ ~HasIdentity =>
              /\ ~store.registered /\ store.voted = {} /\ store.legacyKey = Zero
              /\ store.identity # NoIdentity => ~Sent(store.identity.commitment)

\* The keys of the phone are enrolled for nobody else, so all its leaves are
\* one citizen's.
KeysInv ==
    /\ \A v \in Keys : binding[v].nic \in {Zero, Citizen}
    /\ \A d \in Divisions : \A l \in leaves[d] : l.nic = Citizen

PhoneIInv == PhoneTypeOK /\ FlowInv /\ LandedInv /\ LeavesAreSent /\ StoreInv /\ NotedInv

\* Every step leaves what is on the chain there, but for a reset.
ChainStands ==
    \A d \in Divisions :
        /\ electionId[d] <= electionId'[d]
        /\ electionId'[d] = electionId[d] =>
              Tree(d) \subseteq Tree(d)' /\ nullifiers[d] \subseteq nullifiers'[d]

\* And the transactions that were sent as they were sent.
TxsStand ==
    \A i \in DOMAIN txs :
        /\ i \in DOMAIN txs'
        /\ txs'[i].identity = txs[i].identity /\ txs'[i].division = txs[i].division
        /\ txs'[i].kind = txs[i].kind
        /\ txs[i].status # "sent" => txs'[i] = txs[i]

\* The identities in storage are pairs of a key and two secrets, or none.
LEMMA IdentityTypes ==
    ASSUME PhoneTypeOK
    PROVE  /\ store \in Stores /\ Identities \subseteq Olds
           /\ NoIdentity \notin Identities /\ NoIdentity \notin Olds
           /\ \A i \in DOMAIN txs : txs[i] \in Txs /\ txs[i].identity \in Identities
                                    /\ txs[i].division \in Divisions
<1>1. \A i \in DOMAIN txs : txs[i] \in Txs
  BY DEF PhoneTypeOK
<1>2. \A t \in Txs : t.identity \in Identities /\ t.division \in Divisions
  BY DEF Txs
<1>3. Identities \subseteq Olds
  <2> SUFFICES ASSUME NEW v \in Devices, NEW c \in Commitments
               PROVE  [device |-> v, commitment |-> c] \in Olds
    BY DEF Identities
  <2>1. /\ c = [nullifier |-> c.nullifier, secret |-> c.secret]
        /\ c.nullifier \in NullifierWords /\ c.secret \in SecretWords
    BY ElectionAssumption DEF NullifierWords, SecretWords
  <2>2. [nullifier |-> c.nullifier, secret |-> c.secret]
            \in [nullifier : NullifierWords, secret : SecretWords]
    BY <2>1
  <2>3. c \in [nullifier : NullifierWords, secret : SecretWords]
    BY <2>1, <2>2
  <2> QED BY <2>3 DEF Olds
<1>4. NoIdentity \notin Olds
  <2> DEFINE Words == {Zero} \cup UNION {{c.nullifier, c.secret} : c \in Commitments}
  <2> SUFFICES ASSUME NEW v \in Devices, NEW n \in NullifierWords, NEW s \in SecretWords
               PROVE  NoIdentity # [device |-> v, commitment |-> [nullifier |-> n, secret |-> s]]
    BY DEF Olds
  <2>1. n \in Words
    BY DEF NullifierWords
  <2>2. s \in Words
    BY DEF SecretWords
  <2> QED BY <2>1, <2>2, PhoneAssumption
<1> QED BY <1>1, <1>2, <1>3, <1>4 DEF PhoneTypeOK

-----------------------------------------------------------------------------
(* What a phone holds, of any storage.                                     *)

LegacyOf(s) ==
    [device |-> s.legacyKey,
     commitment |-> [nullifier |-> s.legacyNullifier, secret |-> s.legacySecret]]

HeldOf(s) ==
    IF s.identity # NoIdentity THEN s.identity
    ELSE IF s.legacyKey # Zero THEN LegacyOf(s) ELSE NoIdentity

\* So the identity a phone holds depends on what is stored alone.
LEMMA HeldIs ==
    /\ Held = HeldOf(store) /\ Held' = HeldOf(store')
    /\ Legacy = LegacyOf(store) /\ Legacy' = LegacyOf(store')
BY DEF Held, HeldOf, Legacy, LegacyOf

\* The identity of either layout is one, or none.
LEMMA HeldFacts ==
    ASSUME PhoneTypeOK, NEW s \in Stores
    PROVE  /\ s.identity # NoIdentity => HeldOf(s) = s.identity /\ s.identity \in Identities
           /\ s.identity = NoIdentity /\ s.legacyKey # Zero =>
                 HeldOf(s) = LegacyOf(s) /\ HeldOf(s) # NoIdentity
           /\ s.identity = NoIdentity /\ s.legacyKey = Zero => HeldOf(s) = NoIdentity
           /\ s.legacyKey # Zero => LegacyOf(s) \in Olds
           /\ LegacyOf(s).device = s.legacyKey
<1>1. /\ s.legacyKey \in Devices \cup {Zero} /\ s.legacyNullifier \in NullifierWords
      /\ s.legacySecret \in SecretWords /\ s.identity \in Identities \cup {NoIdentity}
  BY DEF Stores
<1>2. s.legacyKey # Zero => LegacyOf(s) \in Olds
  BY <1>1 DEF LegacyOf, Olds
<1>3. NoIdentity \notin Olds
  BY IdentityTypes
<1>4. LegacyOf(s).device = s.legacyKey
  BY DEF LegacyOf
<1> QED BY <1>1, <1>2, <1>3, <1>4 DEF HeldOf

\* The old layout's secrets are somebody's only if neither is missing.
LEMMA LegacyWhole ==
    ASSUME NEW s, LegacyOf(s).commitment \in Commitments
    PROVE  s.legacyNullifier # Zero /\ s.legacySecret # Zero
<1>1. LegacyOf(s).commitment.nullifier = s.legacyNullifier
      /\ LegacyOf(s).commitment.secret = s.legacySecret
  BY DEF LegacyOf
<1> QED BY <1>1, PhoneAssumption

\* The phone's flags and its address are as they were.
SameNotes ==
    /\ store'.address = store.address /\ store'.registered = store.registered
    /\ store'.voted = store.voted

\* What sending a transaction does to the list of those that were sent.
LEMMA SendFacts ==
    ASSUME PhoneTypeOK, NEW kind \in {"register", "vote"}, NEW pc, NEW awaiting,
           Send(pc, kind, awaiting), flow.identity \in Identities, flow.division \in Divisions
    PROVE  /\ txs' \in Seq(Txs) /\ Len(txs) + 1 = Len(txs') /\ Len(txs) \in Nat
           /\ \A i \in DOMAIN txs : i \in DOMAIN txs' /\ txs'[i] = txs[i]
           /\ \A i \in DOMAIN txs' : i \in DOMAIN txs \/ i = Len(txs')
           /\ Len(txs') \in DOMAIN txs'
           /\ txs'[Len(txs')] = [kind |-> kind, identity |-> flow.identity,
                                 division |-> flow.division, status |-> "sent", election |-> 0]
<1> DEFINE t == [kind |-> kind, identity |-> flow.identity, division |-> flow.division,
                 status |-> "sent", election |-> 0]
<1>1. t \in Txs
  BY ElectionAssumption DEF Txs
<1>2. txs' = Append(txs, t) /\ txs \in Seq(Txs)
  BY DEF Send, PhoneTypeOK
<1> HIDE DEF t
<1>3. /\ txs' \in Seq(Txs) /\ Len(txs') = Len(txs) + 1 /\ txs'[Len(txs')] = t
      /\ DOMAIN txs = 1 .. Len(txs) /\ DOMAIN txs' = 1 .. Len(txs') /\ Len(txs) \in Nat
      /\ \A i \in 1 .. Len(txs) : txs'[i] = txs[i]
  BY <1>1, <1>2
<1> QED BY <1>3 DEF t

\* What settling one does.
LEMMA SettleFacts ==
    ASSUME PhoneTypeOK, EInv, NEW i \in DOMAIN txs, NEW status \in {"ok", "reverted"}, Settle(i, status)
    PROVE  /\ txs' \in Seq(Txs) /\ DOMAIN txs' = DOMAIN txs
           /\ \A j \in DOMAIN txs : j # i => txs'[j] = txs[j]
           /\ txs'[i].kind = txs[i].kind /\ txs'[i].identity = txs[i].identity
           /\ txs'[i].division = txs[i].division /\ txs'[i].status = status
           /\ txs'[i].election = electionId[txs[i].division]
<1> DEFINE t == [txs[i] EXCEPT !.status = status, !.election = electionId[txs[i].division]]
<1>1. txs \in Seq(Txs) /\ txs[i] \in Txs /\ txs[i].division \in Divisions
  BY IdentityTypes DEF PhoneTypeOK
<1>2. electionId[txs[i].division] \in 0 .. MaxElection
  BY <1>1 DEF EInv, TypeOK
<1>3. /\ t.kind = txs[i].kind /\ t.identity = txs[i].identity /\ t.division = txs[i].division
      /\ t.status = status /\ t.election = electionId[txs[i].division]
      /\ t \in Txs
  BY <1>1, <1>2 DEF Txs
<1>4. txs' = [txs EXCEPT ![i] = t]
  BY DEF Settle
<1> HIDE DEF t
<1>5. txs' \in Seq(Txs) /\ DOMAIN txs' = DOMAIN txs /\ txs'[i] = t
      /\ \A j \in DOMAIN txs : j # i => txs'[j] = txs[j]
  BY <1>1, <1>3, <1>4
<1> QED BY <1>3, <1>5

\* A mined transaction is a call that was accepted, or changes nothing.
LEMMA MinedCases ==
    ASSUME NEW i, Mined(i)
    PROVE  /\ txs[i].status = "sent" /\ UNCHANGED <<store, flow, told, torn>>
           /\ \/ Accepted(i) /\ Settle(i, "ok")
              \/ Settle(i, "reverted") /\ UNCHANGED vars
BY DEF Mined

\* A call of the phone is a call anybody could make of the division.
LEMMA AcceptedCall ==
    ASSUME PhoneTypeOK, NEW i \in DOMAIN txs, Accepted(i)
    PROVE  /\ txs[i].kind = "register" =>
                 Register(txs[i].division, txs[i].identity.device, txs[i].identity.commitment)
           /\ txs[i].kind # "register" => Vote(txs[i].division, txs[i].identity.commitment.nullifier)
           /\ Next
<1>1. /\ txs[i].division \in Divisions /\ txs[i].identity.device \in Devices
      /\ txs[i].identity.commitment \in Commitments
  BY IdentityTypes DEF Identities
<1>2. CASE txs[i].kind = "register"
  BY <1>1, <1>2 DEF Accepted, Next
<1>3. CASE txs[i].kind # "register"
  BY <1>1, <1>3 DEF Accepted, Next
<1> QED BY <1>2, <1>3

\* The same, of the values the transaction carries.
LEMMA AcceptedAs ==
    ASSUME PhoneTypeOK, NEW i \in DOMAIN txs, Accepted(i),
           NEW d \in Divisions, NEW v, NEW c, d = txs[i].division,
           v = txs[i].identity.device, c = txs[i].identity.commitment
    PROVE  /\ txs[i].kind = "register" => Register(d, v, c)
           /\ txs[i].kind # "register" => Vote(d, c.nullifier)
<1>1. CASE txs[i].kind = "register"
  BY <1>1 DEF Accepted, Register, CommitDevice
<1>2. CASE txs[i].kind # "register"
  BY <1>2 DEF Accepted, Vote
<1> QED BY <1>1, <1>2

\* What the app does by itself it does to the phone.
LEMMA PhoneLeavesChain == ASSUME PhoneStep PROVE UNCHANGED vars
<1>1. \A v \in Devices, c \in Commitments : CreateIdentity(v, c) => UNCHANGED vars
  BY DEF CreateIdentity
<1>2. \A d \in Divisions, c \in Commitments : OldRegister(d, c) => UNCHANGED vars
  BY DEF OldRegister
<1>3. \A d \in Divisions : OpenRegister(d) \/ OpenVote(d) \/ OpenVerify(d) => UNCHANGED vars
  BY DEF OpenRegister, OpenVote, OpenVerify, Open
<1>4. \A c \in Commitments : Migrate(c) => UNCHANGED vars
  BY DEF Migrate
<1>5. WriteAddress \/ Wipe \/ Killed \/ LoseSecrets \/ Unlock \/ SecretsMissing \/ DeleteLegacy => UNCHANGED vars
  BY DEF WriteAddress, Wipe, Killed, LoseSecrets, Unlock, SecretsMissing, DeleteLegacy
<1>6. SubmitRegister \/ SubmitVote => UNCHANGED vars
  BY DEF SubmitRegister, SubmitVote, Send
<1>7. RegisterReceipt \/ MarkRegistered \/ ProveMembership \/ VoteReceipt \/ MarkVoted \/ NoReceipt => UNCHANGED vars
  BY DEF RegisterReceipt, MarkRegistered, ProveMembership, VoteReceipt, MarkVoted, NoReceipt
<1> QED BY <1>1, <1>2, <1>3, <1>4, <1>5, <1>6, <1>7 DEF PhoneStep

\* Whatever the phone does, the chain does what module Election allows.
LEMMA PhoneIsElectionStep ==
    ASSUME PhoneTypeOK, [PhoneNext]_phoneVars
    PROVE  [Next]_vars
<1>1. CASE UNCHANGED phoneVars
  BY <1>1 DEF phoneVars
<1>2. CASE PhoneStep
  BY <1>2, PhoneLeavesChain
<1>3. ASSUME NEW i \in DOMAIN txs, Mined(i) PROVE [Next]_vars
  BY <1>3, MinedCases, AcceptedCall
<1>4. CASE Authorities
  BY <1>4 DEF Authorities, Next
<1> QED BY <1>1, <1>2, <1>3, <1>4 DEF PhoneNext


-----------------------------------------------------------------------------
(* Types.                                                                  *)

\* Erasing leaves nothing, or something torn.
LEMMA WipeFacts ==
    ASSUME PhoneTypeOK, Wipe
    PROVE  /\ store' \in Stores /\ torn' \in BOOLEAN
           /\ ~torn' => store' = Empty /\ ~torn
           /\ store'.identity \in {store.identity, NoIdentity}
           /\ store'.legacyKey \in {store.legacyKey, Zero}
           /\ flow.pc = "home" /\ flow' = Home /\ UNCHANGED <<vars, txs>>
<1>1. Empty \in Stores /\ Empty.identity = NoIdentity /\ Empty.legacyKey = Zero
  BY DEF Empty, OutOfBox, Stores, NullifierWords, SecretWords
<1>2. /\ \/ store' = Empty
         \/ \E kept \in DOMAIN store : store' = [Empty EXCEPT ![kept] = store[kept]]
      /\ torn' = (torn \/ store' # Empty) /\ flow.pc = "home" /\ flow' = Home
      /\ UNCHANGED <<vars, txs>>
  BY DEF Wipe, Back
<1>3. ASSUME NEW kept \in DOMAIN store, store' = [Empty EXCEPT ![kept] = store[kept]]
      PROVE  /\ store' \in Stores /\ store'.identity \in {store.identity, NoIdentity}
             /\ store'.legacyKey \in {store.legacyKey, Zero}
  <2>1. store \in Stores
    BY DEF PhoneTypeOK
  <2>2. kept \in {"identity", "address", "registered", "division", "voted", "legacyKey",
                  "legacyNullifier", "legacySecret"}
    BY <2>1 DEF Stores
  <2>3. store[kept] = IF kept = "identity" THEN store.identity
                      ELSE IF kept = "address" THEN store.address
                      ELSE IF kept = "registered" THEN store.registered
                      ELSE IF kept = "division" THEN store.division
                      ELSE IF kept = "voted" THEN store.voted
                      ELSE IF kept = "legacyKey" THEN store.legacyKey
                      ELSE IF kept = "legacyNullifier" THEN store.legacyNullifier
                      ELSE store.legacySecret
    BY <2>2
  <2>4. /\ store'.identity = IF kept = "identity" THEN store.identity ELSE NoIdentity
        /\ store'.legacyKey = IF kept = "legacyKey" THEN store.legacyKey ELSE Zero
    BY <1>3, <2>2, <2>3 DEF Empty, OutOfBox
  <2>5. CASE kept = "identity"
    BY <1>3, <2>1, <2>5 DEF Empty, OutOfBox, Stores, NullifierWords, SecretWords
  <2>6. CASE kept = "address"
    BY <1>3, <2>1, <2>6 DEF Empty, OutOfBox, Stores, NullifierWords, SecretWords
  <2>7. CASE kept = "registered"
    BY <1>3, <2>1, <2>7 DEF Empty, OutOfBox, Stores, NullifierWords, SecretWords
  <2>8. CASE kept = "division"
    BY <1>3, <2>1, <2>8 DEF Empty, OutOfBox, Stores, NullifierWords, SecretWords
  <2>9. CASE kept = "voted"
    BY <1>3, <2>1, <2>9 DEF Empty, OutOfBox, Stores, NullifierWords, SecretWords
  <2>10. CASE kept = "legacyKey"
    BY <1>3, <2>1, <2>10 DEF Empty, OutOfBox, Stores, NullifierWords, SecretWords
  <2>11. CASE kept = "legacyNullifier"
    BY <1>3, <2>1, <2>11 DEF Empty, OutOfBox, Stores, SecretWords
  <2>12. CASE kept = "legacySecret"
    BY <1>3, <2>1, <2>12 DEF Empty, OutOfBox, Stores, NullifierWords
  <2> QED BY <2>2, <2>5, <2>6, <2>7, <2>8, <2>9, <2>10, <2>11, <2>12
<1>4. torn \in BOOLEAN
  BY DEF PhoneTypeOK
<1>5. torn' \in BOOLEAN
  BY <1>2
<1>6. ~torn' => store' = Empty /\ ~torn
  BY <1>2
<1> QED BY <1>1, <1>2, <1>3, <1>5, <1>6

\* A registration of the old app writes its secrets, or finds them.
LEMMA OldFacts ==
    ASSUME PhoneTypeOK, NEW d \in Divisions, NEW c \in Commitments, OldRegister(d, c)
    PROVE  LET i == [device |-> store.legacyKey, commitment |-> c]
           IN  /\ store' \in Stores /\ store.identity = NoIdentity /\ store'.identity = NoIdentity
               /\ store'.legacyKey = store.legacyKey /\ store.legacyKey # Zero /\ SameNotes
               /\ i \in Identities /\ Held' = i /\ (HasSecrets => Held = i)
               /\ flow.pc = "home" /\ flow'.pc = "register" /\ flow'.identity = i /\ flow'.division = d
               /\ ~store.registered /\ HasIdentity /\ UNCHANGED <<vars, txs, torn>>
<1> DEFINE i == [device |-> store.legacyKey, commitment |-> c]
<1>1. /\ store' = [store EXCEPT !.legacyNullifier = c.nullifier, !.legacySecret = c.secret]
      /\ store.identity = NoIdentity /\ store.legacyKey # Zero /\ ~store.registered /\ HasIdentity
      /\ HasSecrets => c = Legacy.commitment
      /\ flow' = [pc |-> "register", aim |-> "register", division |-> d, tx |-> 0, identity |-> i]
      /\ flow.pc = "home" /\ UNCHANGED <<vars, txs, torn>>
  BY DEF OldRegister
<1>2. /\ c.nullifier \in NullifierWords /\ c.secret \in SecretWords
      /\ [nullifier |-> c.nullifier, secret |-> c.secret] = c
  BY ElectionAssumption DEF NullifierWords, SecretWords
<1>3. store \in Stores
  BY DEF PhoneTypeOK
<1>4. /\ store' \in Stores /\ store'.identity = NoIdentity /\ store'.legacyKey = store.legacyKey
      /\ store'.legacyNullifier = c.nullifier /\ store'.legacySecret = c.secret /\ SameNotes
  BY <1>1, <1>2, <1>3 DEF Stores, SameNotes
<1>5. i \in Identities
  BY <1>1, <1>3 DEF Stores, Identities
<1>6. LegacyOf(store') = i
  BY <1>2, <1>4 DEF LegacyOf
<1>7. Held' = i
  BY <1>1, <1>4, <1>6, HeldIs, HeldFacts
<1>8. HasSecrets => Held = i
  <2>1. Legacy = [device |-> store.legacyKey, commitment |-> Legacy.commitment]
    BY DEF Legacy
  <2>2. Held = Legacy
    BY <1>1, <1>3, HeldIs, HeldFacts
  <2> QED BY <1>1, <2>1, <2>2
<1>9. flow'.pc = "register" /\ flow'.identity = i /\ flow'.division = d
  BY <1>1
<1> QED BY <1>1, <1>4, <1>5, <1>7, <1>8, <1>9

\* What is lost is a secret of the old layout.
LEMMA LoseFacts ==
    ASSUME PhoneTypeOK, LoseSecrets
    PROVE  /\ store' \in Stores /\ store'.identity = store.identity
           /\ store'.legacyKey = store.legacyKey /\ SameNotes
           /\ store'.legacyNullifier = Zero \/ store'.legacySecret = Zero
           /\ store.identity # NoIdentity => Held' = Held
           /\ flow = Home /\ told' = "updated" /\ UNCHANGED <<vars, txs, torn, flow>>
<1>1. store \in Stores
  BY DEF PhoneTypeOK
<1>2. PICK n \in {Zero, store.legacyNullifier}, s \in {Zero, store.legacySecret} :
          /\ n = Zero \/ s = Zero
          /\ store' = [store EXCEPT !.legacyNullifier = n, !.legacySecret = s]
  BY DEF LoseSecrets
<1>3. /\ store' \in Stores /\ store'.identity = store.identity
      /\ store'.legacyKey = store.legacyKey /\ SameNotes
      /\ store'.legacyNullifier = n /\ store'.legacySecret = s
  BY <1>1, <1>2 DEF Stores, NullifierWords, SecretWords, SameNotes
<1>4. store.identity # NoIdentity => Held' = Held
  BY <1>1, <1>3, HeldIs, HeldFacts
<1> QED BY <1>2, <1>3, <1>4 DEF LoseSecrets

\* Opening a screen caches a division, and nothing else.
LEMMA OpenFacts ==
    ASSUME PhoneTypeOK, NEW d \in Divisions, OpenRegister(d) \/ OpenVote(d) \/ OpenVerify(d)
    PROVE  /\ store' \in Stores /\ store'.identity = store.identity
           /\ store'.legacyKey = store.legacyKey /\ SameNotes /\ Held' = Held
           /\ flow.pc = "home" /\ flow'.pc = "opened" /\ flow'.aim \in Aims /\ flow'.division = d
           /\ HasIdentity /\ UNCHANGED <<vars, txs, torn>>
<1>1. PICK aim \in Aims : Open(aim, d)
  BY DEF OpenRegister, OpenVote, OpenVerify, Aims
<1>2. /\ store' = [store EXCEPT !.division = d]
      /\ flow' = [Home EXCEPT !.pc = "opened", !.aim = aim, !.division = d]
      /\ flow.pc = "home" /\ HasIdentity /\ UNCHANGED <<vars, txs, torn>>
  BY <1>1 DEF Open
<1>3. store \in Stores
  BY DEF PhoneTypeOK
<1>4. /\ store' \in Stores /\ store'.identity = store.identity
      /\ store'.legacyKey = store.legacyKey /\ SameNotes
      /\ store'.legacyNullifier = store.legacyNullifier /\ store'.legacySecret = store.legacySecret
  BY <1>2, <1>3 DEF Stores, SameNotes
<1>5. Held' = Held
  BY <1>4, HeldIs DEF HeldOf, LegacyOf
<1>6. flow'.pc = "opened" /\ flow'.aim \in Aims /\ flow'.division = d
  BY <1>2 DEF Home
<1> QED BY <1>2, <1>4, <1>5, <1>6

\* A migration keeps the secrets there are, and draws them only for a phone
\* that has not registered.
LEMMA MigrateFacts ==
    ASSUME PhoneTypeOK, FlowInv, NEW c \in Commitments, Migrate(c)
    PROVE  /\ store' \in Stores /\ SameNotes /\ store'.legacyKey = store.legacyKey
           /\ store.identity = NoIdentity /\ store.legacyKey # Zero
           /\ store'.identity = [device |-> store.legacyKey, commitment |-> c]
           /\ store'.identity \in Identities /\ Held' = store'.identity
           /\ HasSecrets => Held' = Held
           /\ ~HasSecrets => ~store.registered
           /\ flow'.pc = "tidy" /\ flow'.identity = store'.identity /\ flow'.aim \in Aims
           /\ flow'.division \in Divisions /\ HasIdentity /\ UNCHANGED <<vars, txs, torn>>
<1> DEFINE i == [device |-> store.legacyKey, commitment |-> c]
<1>1. /\ store' = [store EXCEPT !.identity = i] /\ flow.pc = "opened"
      /\ store.identity = NoIdentity /\ store.legacyKey # Zero
      /\ HasSecrets => c = Legacy.commitment
      /\ ~HasSecrets => ~store.registered
      /\ flow' = [flow EXCEPT !.pc = "tidy", !.identity = store'.identity]
      /\ UNCHANGED <<vars, txs, torn>>
  BY DEF Migrate, MayUnlock
<1>2. store \in Stores
  BY DEF PhoneTypeOK
<1>3. i \in Identities
  BY <1>1, <1>2 DEF Stores, Identities
<1>4. i # NoIdentity
  BY <1>3, IdentityTypes
<1> HIDE DEF i
<1>5. /\ store' \in Stores /\ store'.identity = i /\ SameNotes /\ store'.legacyKey = store.legacyKey
  BY <1>1, <1>2, <1>3 DEF Stores, SameNotes
<1>6. Held' = i
  BY <1>4, <1>5, HeldIs, HeldFacts
<1>7. HasSecrets => Held = i
  <2>1. Legacy = [device |-> store.legacyKey, commitment |-> Legacy.commitment]
    BY DEF Legacy
  <2>2. Held = Legacy
    BY <1>1, <1>2, HeldIs, HeldFacts
  <2> QED BY <1>1, <2>1, <2>2 DEF i
<1>8. flow.aim \in Aims /\ flow.division \in Divisions /\ HasIdentity
  BY <1>1 DEF FlowInv, OnScreen, Home, Aims, Waiting
<1>9. /\ flow'.pc = "tidy" /\ flow'.identity = i /\ flow'.aim = flow.aim
      /\ flow'.division = flow.division
  BY <1>1, <1>5, <1>8
<1> QED BY <1>1, <1>3, <1>5, <1>6, <1>7, <1>8, <1>9 DEF i

\* Tidying takes away what the migrated identity has made useless.
LEMMA DeleteFacts ==
    ASSUME PhoneTypeOK, FlowInv, DeleteLegacy
    PROVE  /\ store' \in Stores /\ SameNotes /\ store'.legacyKey \in {store.legacyKey, Zero}
           /\ store'.identity = store.identity /\ store.identity # NoIdentity /\ Held' = Held
           /\ flow.pc = "tidy" /\ flow.aim \in Aims /\ flow'.pc = flow.aim
           /\ flow'.identity = flow.identity /\ flow'.division = flow.division
           /\ flow.identity = store.identity /\ flow.identity \in Identities
           /\ OnScreen /\ UNCHANGED <<vars, txs, torn>>
<1>1. flow.pc = "tidy" /\ flow' = [flow EXCEPT !.pc = flow.aim] /\ UNCHANGED <<vars, txs, torn>>
  BY DEF DeleteLegacy
<1>2. PICK k \in {Zero, store.legacyKey}, n \in {Zero, store.legacyNullifier},
           s \in {Zero, store.legacySecret} :
          store' = [store EXCEPT !.legacyKey = k, !.legacyNullifier = n, !.legacySecret = s]
  BY DEF DeleteLegacy
<1>3. /\ flow.aim \in Aims /\ OnScreen
      /\ flow.identity = store.identity /\ flow.identity \in Identities
  BY <1>1 DEF FlowInv, Home, Aims, Waiting
<1>4. store \in Stores /\ store.identity # NoIdentity
  BY <1>3, IdentityTypes
<1>5. /\ store' \in Stores /\ SameNotes /\ store'.legacyKey = k
      /\ store'.identity = store.identity
  BY <1>2, <1>4 DEF Stores, NullifierWords, SecretWords, SameNotes
<1>6. Held' = Held
  BY <1>4, <1>5, HeldIs, HeldFacts
<1>7. /\ flow'.pc = flow.aim /\ flow'.identity = flow.identity /\ flow'.division = flow.division
  BY <1>1, <1>3 DEF OnScreen
<1> QED BY <1>1, <1>3, <1>4, <1>5, <1>6, <1>7

\* What the flags are set by.
LEMMA WriteFacts ==
    ASSUME PhoneTypeOK, FlowInv, WriteAddress \/ MarkRegistered \/ MarkVoted
    PROVE  /\ store' \in Stores /\ store'.identity = store.identity
           /\ store'.legacyKey = store.legacyKey /\ Held' = Held
           /\ flow' = Home /\ UNCHANGED <<vars, txs, torn>>
           /\ WriteAddress => /\ store'.address # Zero /\ store'.registered = store.registered
                              /\ store'.voted = store.voted
           /\ MarkRegistered => /\ store'.address = store.address /\ store'.registered = TRUE
                                /\ store'.voted = store.voted
           /\ MarkVoted => /\ store'.address = store.address /\ store'.registered = store.registered
                           /\ store'.voted = store.voted \cup {flow.division}
<1> DEFINE SameOld == /\ store'.legacyKey = store.legacyKey
                      /\ store'.legacyNullifier = store.legacyNullifier
                      /\ store'.legacySecret = store.legacySecret
<1>1. store \in Stores /\ Home.pc = "home"
  BY DEF PhoneTypeOK, Home
<1>0. SameOld /\ store'.identity = store.identity => Held' = Held
  BY HeldIs DEF HeldOf, LegacyOf
<1>2. CASE WriteAddress
  <2>1. flow.identity.device \in Devices
    BY <1>1, <1>2 DEF WriteAddress, FlowInv, Aims, Waiting, Identities
  <2>2. store' = [store EXCEPT !.address = flow.identity.device] /\ flow.pc = "create"
    BY <1>2 DEF WriteAddress
  <2>3. /\ store' \in Stores /\ store'.identity = store.identity /\ SameOld
        /\ store'.address = flow.identity.device /\ store'.registered = store.registered
        /\ store'.voted = store.voted
    BY <1>1, <2>1, <2>2 DEF Stores
  <2> QED BY <1>0, <1>2, <2>1, <2>2, <2>3, NicRegistryAssumption DEF WriteAddress, Back, MarkRegistered, MarkVoted
<1>3. CASE MarkRegistered
  <2>1. store' = [store EXCEPT !.registered = TRUE] /\ flow.pc = "markRegistered"
    BY <1>3 DEF MarkRegistered
  <2>2. /\ store' \in Stores /\ store'.identity = store.identity /\ SameOld
        /\ store'.address = store.address /\ store'.registered = TRUE
        /\ store'.voted = store.voted
    BY <1>1, <2>1 DEF Stores
  <2> QED BY <1>0, <1>3, <2>1, <2>2 DEF WriteAddress, Back, MarkRegistered, MarkVoted
<1>4. CASE MarkVoted
  <2>1. store' = [store EXCEPT !.voted = @ \cup {flow.division}] /\ flow.pc = "markVoted"
    BY <1>4 DEF MarkVoted
  <2>2. flow.division \in Divisions
    BY <1>1, <2>1 DEF FlowInv, OnScreen
  <2>3. /\ store' \in Stores /\ store'.identity = store.identity /\ SameOld
        /\ store'.address = store.address /\ store'.registered = store.registered
        /\ store'.voted = store.voted \cup {flow.division}
    BY <1>1, <2>1, <2>2 DEF Stores
  <2> QED BY <1>0, <1>4, <2>1, <2>3 DEF WriteAddress, Back, MarkRegistered, MarkVoted
<1> QED BY <1>2, <1>3, <1>4

-----------------------------------------------------------------------------
(* The chain, as the phone has to reckon with it.                          *)

\* The authorities insert no leaf, and take none out but by a reset.
LEMMA AuthoritiesFacts ==
    ASSUME EInv, Authorities
    PROVE  \A d \in Divisions :
              \/ leaves'[d] = leaves[d] /\ nullifiers'[d] = nullifiers[d] /\ electionId'[d] = electionId[d]
              \/ leaves'[d] = {} /\ electionId'[d] = electionId[d] + 1
<1>1. CASE NewEpoch
  BY <1>1 DEF NewEpoch, ballot, stage
<1>2. ASSUME NEW x \in Divisions,
             \/ SetCandidates(x) \/ AddVoters(x) \/ StartRegistration(x)
             \/ StartVoting(x) \/ EndElection(x) \/ DeadlinePasses(x)
             \/ Authorise(x) \/ EnrolVoter(x)
      PROVE  UNCHANGED <<leaves, nullifiers, electionId>>
  BY <1>2 DEF SetCandidates, AddVoters, StartRegistration, StartVoting, EndElection,
     DeadlinePasses, Authorise, EnrolVoter, ballot, stage
<1>3. ASSUME NEW x \in Divisions, ResetElection(x)
      PROVE  \A d \in Divisions :
                \/ leaves'[d] = leaves[d] /\ nullifiers'[d] = nullifiers[d] /\ electionId'[d] = electionId[d]
                \/ leaves'[d] = {} /\ electionId'[d] = electionId[d] + 1
  BY <1>3 DEF ResetElection, EInv, TypeOK
<1> QED BY <1>1, <1>2, <1>3 DEF Authorities

\* A registration adds the leaf of the phone's own secrets.
LEMMA RegisterFacts ==
    ASSUME EInv, NEW x \in Divisions, NEW v, NEW c, Register(x, v, c)
    PROVE  /\ UNCHANGED <<nullifiers, electionId>>
           /\ \A d \in Divisions : Tree(d) \subseteq Tree(d)'
           /\ \A d \in Divisions : Tree(d)' \subseteq Tree(d) \cup {c}
           /\ c \in Tree(x)'
<1> DEFINE leaf == [commitment |-> c, device |-> v, nic |-> binding[v].nic]
<1>1. /\ UNCHANGED <<nullifiers, electionId>>
      /\ leaves' = [leaves EXCEPT ![x] = @ \cup {leaf}]
  BY DEF Register, stage
<1>2. \A d \in Divisions : leaves'[d] = IF d = x THEN leaves[d] \cup {leaf} ELSE leaves[d]
  BY <1>1 DEF EInv, TypeOK
<1>3. leaf.commitment = c
  OBVIOUS
<1> HIDE DEF leaf
<1> QED BY <1>1, <1>2, <1>3 DEF Tree

\* A vote spends a nullifier that was not.
LEMMA VoteFacts ==
    ASSUME EInv, NEW x \in Divisions, NEW n, Vote(x, n)
    PROVE  /\ UNCHANGED <<leaves, electionId>>
           /\ \A d \in Divisions : nullifiers[d] \subseteq nullifiers'[d]
           /\ n \in nullifiers'[x] /\ n \notin nullifiers[x]
           /\ \E c \in Tree(x) : c.nullifier = n
BY DEF Vote, stage, EInv, TypeOK

\* What has landed stays what it was.
LEMMA LandedStands ==
    ASSUME ChainStands, EInv, EInv', NEW t \in Txs, LandedAt(t)
    PROVE  LandedAt(t)'
<1>1. t.division \in Divisions /\ t.election \in 0 .. MaxElection
  BY DEF Txs
<1>2. /\ electionId[t.division] \in Nat /\ electionId'[t.division] \in Nat
      /\ t.election \in Nat
  BY <1>1 DEF EInv, TypeOK
<1> QED BY <1>1, <1>2 DEF LandedAt, ChainStands

\* A storage that did not change holds what it did.
LEMMA SameStore == ASSUME UNCHANGED store PROVE Held' = Held /\ HasIdentity' = HasIdentity
BY DEF Held, Legacy, HasIdentity

\* And what was noted.
LEMMA NotedStands ==
    ASSUME NotedInv, TxsStand, UNCHANGED <<store, torn>>
    PROVE  NotedInv'
<1>1. ASSUME NEW kind, NEW identity, NEW i \in DOMAIN txs, i \in Landed(kind, identity)
      PROVE  i \in DOMAIN txs' /\ i \in Landed(kind, identity)' /\ txs'[i].division = txs[i].division
  BY <1>1 DEF Landed, TxsStand
<1>2. Held' = Held
  BY SameStore
<1> QED BY <1>1, <1>2 DEF NotedInv

\* The chain and the transactions as they were: what they say stays said.
LEMMA Untouched ==
    ASSUME PhoneIInv, UNCHANGED <<vars, txs>>
    PROVE  LandedInv' /\ LeavesAreSent' /\ TxsStand
<1>1. UNCHANGED <<txs, leaves, nullifiers, electionId>>
  BY DEF vars, ballot, stage
<1> QED BY <1>1 DEF PhoneIInv, LandedInv, LandedAt, LeavesAreSent, Sent, Tree, TxsStand

\* Of what was noted, what still matters: a phone keeps it with its secrets.
LEMMA NotesKept ==
    ASSUME PhoneIInv, UNCHANGED <<txs, torn>>,
           store'.registered = store.registered, store'.voted = store.voted,
           Held' = Held, store.identity # NoIdentity => store'.identity # NoIdentity
    PROVE  NotedInv'
BY DEF PhoneIInv, NotedInv, Landed

\* And what keeps the storage whole.
LEMMA StoreKept ==
    ASSUME PhoneIInv, UNCHANGED <<txs, torn>>, SameNotes,
           store'.legacyKey = store.legacyKey, store'.identity = store.identity
    PROVE  StoreInv'
BY DEF PhoneIInv, StoreInv, SameNotes, HasIdentity, Sent

-----------------------------------------------------------------------------
\* Steps that change neither the storage, nor the transactions, nor the chain.
LEMMA ScreenSteps ==
    ASSUME PhoneIInv,
           \/ Killed \/ Unlock \/ SecretsMissing \/ ProveMembership
           \/ RegisterReceipt \/ VoteReceipt \/ NoReceipt
    PROVE  PhoneIInv'
<1>1. UNCHANGED <<vars, store, txs, torn>>
  BY DEF Killed, Unlock, SecretsMissing, ProveMembership, RegisterReceipt, VoteReceipt, NoReceipt
<1>2. Held' = Held /\ HasIdentity' = HasIdentity
  BY <1>1, SameStore
<1>3. FlowInv'
  <2>1. CASE flow' = Home
    BY <2>1 DEF FlowInv
  <2>2. CASE RegisterReceipt /\ flow' # Home
    <3>1. /\ flow.pc = "awaitRegister" /\ txs[flow.tx].status = "ok"
          /\ flow' = [flow EXCEPT !.pc = "markRegistered"]
      BY <2>2 DEF RegisterReceipt, Back
    <3>2. /\ OnScreen /\ flow.identity = Held /\ flow.identity \in Identities /\ AwaitsTx
      BY <3>1 DEF PhoneIInv, FlowInv, Home, Aims
    <3>3. /\ flow'.pc = "markRegistered" /\ flow'.identity = flow.identity
          /\ flow'.division = flow.division /\ flow'.tx = flow.tx
      BY <3>1
    <3>4. OnScreen' /\ AwaitsTx'
      BY <1>1, <1>2, <3>1, <3>2, <3>3 DEF OnScreen, AwaitsTx, Waiting, KindOf, OfRegister
    <3> QED BY <1>2, <3>2, <3>3, <3>4 DEF FlowInv, Waiting, OfRegister
  <2>3. CASE VoteReceipt /\ flow' # Home
    <3>1. /\ flow.pc = "awaitVote" /\ txs[flow.tx].status = "ok"
          /\ flow' = [flow EXCEPT !.pc = "markVoted"]
      BY <2>3 DEF VoteReceipt, Back
    <3>2. /\ OnScreen /\ flow.identity = Held /\ flow.identity \in Identities /\ AwaitsTx
          /\ store.identity # NoIdentity
      BY <3>1 DEF PhoneIInv, FlowInv, Home, Aims, OfRegister
    <3>3. /\ flow'.pc = "markVoted" /\ flow'.identity = flow.identity
          /\ flow'.division = flow.division /\ flow'.tx = flow.tx
      BY <3>1
    <3>4. OnScreen' /\ AwaitsTx'
      BY <1>1, <1>2, <3>1, <3>2, <3>3 DEF OnScreen, AwaitsTx, Waiting, KindOf, OfRegister
    <3> QED BY <1>1, <1>2, <3>2, <3>3, <3>4 DEF FlowInv, Waiting, OfRegister
  <2>4. CASE ProveMembership /\ flow' # Home
    <3>1. flow.pc = "vote" /\ flow' = [flow EXCEPT !.pc = "proved"]
      BY <2>4 DEF ProveMembership, Back
    <3>2. /\ OnScreen /\ flow.identity = Held /\ flow.identity \in Identities
          /\ store.identity # NoIdentity
      BY <3>1 DEF PhoneIInv, FlowInv, Home, Aims, OfRegister
    <3>3. /\ flow'.pc = "proved" /\ flow'.identity = flow.identity /\ flow'.division = flow.division
      BY <3>1
    <3>4. OnScreen' /\ AwaitsTx'
      BY <1>2, <3>2, <3>3 DEF OnScreen, AwaitsTx, Waiting
    <3> QED BY <1>1, <1>2, <3>2, <3>3, <3>4 DEF FlowInv
  <2>5. CASE Unlock
    <3>1. /\ flow.pc = "opened" /\ store.identity # NoIdentity
          /\ flow' = [flow EXCEPT !.pc = flow.aim, !.identity = store.identity]
      BY <2>5 DEF Unlock, MayUnlock
    <3>2. OnScreen /\ flow.aim \in Aims
      BY <3>1 DEF PhoneIInv, FlowInv, Home, Aims, Waiting
    <3>3. store.identity = Held /\ store.identity \in Identities
      BY <3>1, HeldIs, HeldFacts DEF PhoneIInv, PhoneTypeOK
    <3>4. /\ flow'.pc = flow.aim /\ flow'.identity = store.identity /\ flow'.division = flow.division
      BY <3>1
    <3>5. OnScreen' /\ AwaitsTx'
      BY <1>2, <3>2, <3>4 DEF OnScreen, AwaitsTx, Aims, Waiting
    <3> QED BY <1>1, <1>2, <3>1, <3>2, <3>3, <3>4, <3>5 DEF FlowInv
  <2> QED BY <2>1, <2>2, <2>3, <2>4, <2>5 DEF Killed, SecretsMissing, NoReceipt, Back, RegisterReceipt,
         VoteReceipt, ProveMembership, PhoneIInv
<1>4. PhoneTypeOK' /\ StoreInv'
  BY <1>1, <1>2 DEF PhoneIInv, PhoneTypeOK, StoreInv, HasIdentity, Sent
<1>5. NotedInv'
  BY <1>1, <1>2, NotesKept
<1>6. LandedInv' /\ LeavesAreSent'
  BY <1>1, Untouched
<1> QED BY <1>3, <1>4, <1>5, <1>6 DEF PhoneIInv

\* A new key and new secrets: nobody has heard of them.
LEMMA CreateStep ==
    ASSUME PhoneIInv, NEW v \in Devices, NEW c \in Commitments, CreateIdentity(v, c)
    PROVE  PhoneIInv'
<1> DEFINE new == [device |-> v, commitment |-> c]
<1>1. /\ flow.pc = "home" /\ ~HasIdentity /\ Fresh(v, c)
      /\ store' = [store EXCEPT !.identity = new]
      /\ flow' = [Home EXCEPT !.pc = "create", !.identity = store'.identity]
      /\ UNCHANGED <<vars, txs, torn>>
  BY DEF CreateIdentity
<1>2. new \in Identities /\ new.commitment = c
  BY DEF Identities
<1> HIDE DEF new
<1>3. /\ store' \in Stores /\ store'.identity = new /\ store'.legacyKey = store.legacyKey /\ SameNotes
  BY <1>1, <1>2 DEF PhoneIInv, PhoneTypeOK, Stores, SameNotes
<1>4. ~Sent(c)
  <2> SUFFICES ASSUME NEW i \in DOMAIN txs, txs[i].identity.commitment = c
               PROVE  FALSE
    BY DEF Sent
  <2>1. txs[i].identity \in Drawn \ {NoIdentity}
    BY IdentityTypes DEF PhoneIInv, Drawn
  <2> QED BY <1>1, <2>1 DEF Fresh, Secrets
<1>5. PhoneTypeOK'
  BY <1>1, <1>3 DEF PhoneIInv, PhoneTypeOK
<1>6. FlowInv'
  <2>1. flow'.pc = "create" /\ flow'.identity = new
    BY <1>1, <1>3 DEF Home
  <2> QED BY <1>2, <1>3, <2>1 DEF FlowInv
<1>7. LandedInv' /\ LeavesAreSent'
  BY <1>1, Untouched
<1>8. StoreInv'
  BY <1>1, <1>2, <1>3, <1>4 DEF PhoneIInv, StoreInv, SameNotes, HasIdentity, Sent
<1>9. NotedInv'
  BY <1>1, <1>3 DEF PhoneIInv, StoreInv, NotedInv, SameNotes, HasIdentity
<1> QED BY <1>5, <1>6, <1>7, <1>8, <1>9 DEF PhoneIInv

\* What is erased is forgotten, or torn.
LEMMA WipeStep ==
    ASSUME PhoneIInv, Wipe
    PROVE  PhoneIInv'
<1>1. /\ store' \in Stores /\ torn' \in BOOLEAN /\ (~torn' => store' = Empty)
      /\ flow' = Home /\ UNCHANGED <<vars, txs>>
  BY WipeFacts DEF PhoneIInv
<1>2. PhoneTypeOK' /\ FlowInv'
  BY <1>1 DEF PhoneIInv, PhoneTypeOK, FlowInv
<1>3. LandedInv' /\ LeavesAreSent'
  BY <1>1, Untouched
<1>4. StoreInv' /\ NotedInv'
  BY <1>1 DEF StoreInv, NotedInv, HasIdentity, Empty, OutOfBox
<1> QED BY <1>2, <1>3, <1>4 DEF PhoneIInv

\* A registration of the old app sends the secrets it has written.
LEMMA OldStep ==
    ASSUME PhoneIInv, NEW d \in Divisions, NEW c \in Commitments, OldRegister(d, c)
    PROVE  PhoneIInv'
<1>1. /\ store' \in Stores /\ store.identity = NoIdentity /\ store'.identity = NoIdentity
      /\ store'.legacyKey = store.legacyKey /\ SameNotes /\ ~store.registered /\ HasIdentity
      /\ flow'.pc = "register" /\ flow'.division = d
      /\ flow'.identity \in Identities /\ Held' = flow'.identity
      /\ UNCHANGED <<vars, txs, torn>>
  BY OldFacts DEF PhoneIInv
<1>2. PhoneTypeOK'
  BY <1>1 DEF PhoneIInv, PhoneTypeOK
<1>3. FlowInv'
  <2>1. OnScreen' /\ AwaitsTx'
    BY <1>1 DEF OnScreen, AwaitsTx, Waiting, HasIdentity, SameNotes
  <2> QED BY <1>1, <2>1 DEF FlowInv, Aims, OfRegister
<1>4. LandedInv' /\ LeavesAreSent'
  BY <1>1, Untouched
<1>5. StoreInv'
  BY <1>1, StoreKept
<1>6. NotedInv'
  BY <1>1 DEF PhoneIInv, NotedInv, SameNotes
<1> QED BY <1>2, <1>3, <1>4, <1>5, <1>6 DEF PhoneIInv

\* Losing a secret leaves nothing to be said of the old layout's.
LEMMA LoseStep ==
    ASSUME PhoneIInv, LoseSecrets
    PROVE  PhoneIInv'
<1>1. /\ store' \in Stores /\ store'.identity = store.identity
      /\ store'.legacyKey = store.legacyKey /\ SameNotes
      /\ store'.legacyNullifier = Zero \/ store'.legacySecret = Zero
      /\ store.identity # NoIdentity => Held' = Held
      /\ flow = Home /\ UNCHANGED <<vars, txs, torn, flow>>
  BY LoseFacts DEF PhoneIInv
<1>2. PhoneTypeOK' /\ FlowInv'
  BY <1>1 DEF PhoneIInv, PhoneTypeOK, FlowInv
<1>3. LandedInv' /\ LeavesAreSent'
  BY <1>1, Untouched
<1>4. StoreInv'
  BY <1>1, StoreKept
<1>5. NotedInv'
  <2>1. CASE store.identity # NoIdentity
    BY <1>1, <2>1, NotesKept DEF SameNotes
  <2>2. CASE store.identity = NoIdentity /\ ~torn /\ store.registered
    <3>1. store.legacyKey # Zero /\ store.voted = {}
      BY <2>2 DEF PhoneIInv, StoreInv, NotedInv
    <3>2. Held' = LegacyOf(store')
      BY <1>1, <2>2, <3>1, HeldIs, HeldFacts DEF PhoneIInv
    <3>3. Held'.commitment \notin Commitments
      BY <1>1, <3>2, LegacyWhole
    <3> QED BY <1>1, <3>1, <3>3 DEF NotedInv, SameNotes
  <2>3. CASE store.identity = NoIdentity /\ (torn \/ ~store.registered)
    BY <1>1, <2>3 DEF PhoneIInv, NotedInv, SameNotes
  <2> QED BY <2>1, <2>2, <2>3
<1> QED BY <1>2, <1>3, <1>4, <1>5 DEF PhoneIInv

\* A screen is opened on what is stored.
LEMMA OpenStep ==
    ASSUME PhoneIInv, NEW d \in Divisions, OpenRegister(d) \/ OpenVote(d) \/ OpenVerify(d)
    PROVE  PhoneIInv'
<1>1. /\ store' \in Stores /\ store'.identity = store.identity
      /\ store'.legacyKey = store.legacyKey /\ SameNotes /\ Held' = Held
      /\ flow'.pc = "opened" /\ flow'.aim \in Aims /\ flow'.division = d
      /\ HasIdentity /\ UNCHANGED <<vars, txs, torn>>
  BY OpenFacts DEF PhoneIInv
<1>2. PhoneTypeOK'
  BY <1>1 DEF PhoneIInv, PhoneTypeOK
<1>3. FlowInv'
  BY <1>1 DEF FlowInv, OnScreen, HasIdentity, SameNotes
<1>4. LandedInv' /\ LeavesAreSent' /\ StoreInv' /\ NotedInv'
  BY <1>1, Untouched, StoreKept, NotesKept DEF SameNotes
<1> QED BY <1>2, <1>3, <1>4 DEF PhoneIInv

\* A migration of secrets that are noted is a migration of those very secrets.
LEMMA MigrateStep ==
    ASSUME PhoneIInv, NEW c \in Commitments, Migrate(c)
    PROVE  PhoneIInv'
<1>1. /\ store' \in Stores /\ SameNotes /\ store'.legacyKey = store.legacyKey
      /\ store.identity = NoIdentity /\ store'.identity \in Identities /\ Held' = store'.identity
      /\ HasSecrets => Held' = Held
      /\ ~HasSecrets => ~store.registered
      /\ flow'.pc = "tidy" /\ flow'.identity = store'.identity /\ flow'.aim \in Aims
      /\ flow'.division \in Divisions /\ HasIdentity /\ UNCHANGED <<vars, txs, torn>>
  BY MigrateFacts DEF PhoneIInv
<1>2. PhoneTypeOK'
  BY <1>1 DEF PhoneIInv, PhoneTypeOK
<1>3. FlowInv'
  BY <1>1 DEF FlowInv, OnScreen, HasIdentity, SameNotes
<1>4. LandedInv' /\ LeavesAreSent'
  BY <1>1, Untouched
<1>5. StoreInv'
  BY <1>1, IdentityTypes DEF PhoneIInv, StoreInv, HasIdentity, SameNotes
<1>6. NotedInv'
  <2>1. CASE HasSecrets
    BY <1>1, <2>1, NotesKept DEF SameNotes
  <2>2. CASE ~HasSecrets
    BY <1>1, <2>2 DEF PhoneIInv, NotedInv, SameNotes
  <2> QED BY <2>1, <2>2
<1> QED BY <1>2, <1>3, <1>4, <1>5, <1>6 DEF PhoneIInv

\* Tidying touches nothing that is held.
LEMMA DeleteStep ==
    ASSUME PhoneIInv, DeleteLegacy
    PROVE  PhoneIInv'
<1>1. /\ store' \in Stores /\ SameNotes
      /\ store'.identity = store.identity /\ store.identity # NoIdentity /\ Held' = Held
      /\ flow.aim \in Aims /\ flow'.pc = flow.aim
      /\ flow'.identity = flow.identity /\ flow'.division = flow.division
      /\ flow.identity = store.identity /\ flow.identity \in Identities
      /\ OnScreen /\ UNCHANGED <<vars, txs, torn>>
  BY DeleteFacts DEF PhoneIInv
<1>2. PhoneTypeOK'
  BY <1>1 DEF PhoneIInv, PhoneTypeOK
<1>3. FlowInv'
  <2>1. Held = store.identity
    BY <1>1, HeldIs, HeldFacts DEF PhoneIInv, PhoneTypeOK
  <2>2. OnScreen' /\ AwaitsTx'
    BY <1>1 DEF OnScreen, AwaitsTx, Aims, Waiting, HasIdentity, SameNotes
  <2> QED BY <1>1, <2>1, <2>2 DEF FlowInv
<1>4. LandedInv' /\ LeavesAreSent'
  BY <1>1, Untouched
<1>5. StoreInv'
  BY <1>1 DEF StoreInv, HasIdentity, SameNotes, OnScreen
<1>6. NotedInv'
  BY <1>1, NotesKept DEF SameNotes
<1> QED BY <1>2, <1>3, <1>4, <1>5, <1>6 DEF PhoneIInv

\* An address is written for an identity, a note for a transaction that landed.
LEMMA WriteStep ==
    ASSUME PhoneIInv, WriteAddress \/ MarkRegistered \/ MarkVoted
    PROVE  PhoneIInv'
<1>1. /\ store' \in Stores /\ store'.identity = store.identity
      /\ store'.legacyKey = store.legacyKey /\ Held' = Held
      /\ flow' = Home /\ UNCHANGED <<vars, txs, torn>>
  BY WriteFacts DEF PhoneIInv
<1>2. PhoneTypeOK' /\ FlowInv'
  BY <1>1 DEF PhoneIInv, PhoneTypeOK, FlowInv
<1>3. LandedInv' /\ LeavesAreSent'
  BY <1>1, Untouched
<1>4. CASE WriteAddress
  <2>1. /\ store'.address # Zero /\ store'.registered = store.registered
        /\ store'.voted = store.voted
    BY <1>4, WriteFacts DEF PhoneIInv
  <2>2. store.identity # NoIdentity
    <3>1. flow.pc = "create"
      BY <1>4 DEF WriteAddress
    <3> QED BY <3>1, IdentityTypes DEF PhoneIInv, FlowInv, Home, Aims, Waiting
  <2>3. StoreInv'
    BY <1>1, <2>1, <2>2 DEF StoreInv, HasIdentity
  <2>4. NotedInv'
    BY <1>1, <2>1, NotesKept
  <2> QED BY <1>2, <1>3, <2>3, <2>4 DEF PhoneIInv
<1>5. CASE MarkRegistered \/ MarkVoted
  <2>1. flow.pc \in {"markRegistered", "markVoted"}
    BY <1>5 DEF MarkRegistered, MarkVoted
  <2>2. /\ flow.tx \in DOMAIN txs /\ txs[flow.tx].status = "ok"
        /\ txs[flow.tx].identity = Held /\ txs[flow.tx].division = flow.division
        /\ txs[flow.tx].kind = KindOf(flow.pc) /\ HasIdentity /\ Held \in Identities
        /\ flow.pc \notin OfRegister => store.identity # NoIdentity
    BY <2>1 DEF PhoneIInv, FlowInv, OnScreen, AwaitsTx, Home, Aims, Waiting
  <2>3. flow.tx \in Landed(KindOf(flow.pc), Held)
    BY <2>2 DEF Landed
  <2>0. store.identity # NoIdentity \/ store.legacyKey # Zero
    BY <2>2, IdentityTypes DEF Held, PhoneIInv
  <2>4. CASE MarkRegistered
    <3>1. /\ store'.address = store.address /\ store'.registered = TRUE
          /\ store'.voted = store.voted /\ KindOf(flow.pc) = "register"
      BY <2>4, WriteFacts DEF PhoneIInv, MarkRegistered, KindOf, OfRegister
    <3>2. StoreInv'
      BY <1>1, <2>0, <2>2, <3>1 DEF StoreInv, HasIdentity
    <3>3. NotedInv'
      BY <1>1, <2>2, <2>3, <3>1 DEF PhoneIInv, NotedInv, Landed
    <3> QED BY <1>2, <1>3, <3>2, <3>3 DEF PhoneIInv
  <2>5. CASE MarkVoted
    <3>1. /\ store'.address = store.address /\ store'.registered = store.registered
          /\ store'.voted = store.voted \cup {flow.division} /\ KindOf(flow.pc) = "vote"
          /\ store.identity # NoIdentity
      BY <2>2, <2>5, WriteFacts DEF PhoneIInv, MarkVoted, KindOf, OfRegister
    <3>2. StoreInv'
      BY <1>1, <2>0, <2>2, <3>1 DEF StoreInv, HasIdentity
    <3>3. NotedInv'
      BY <1>1, <2>2, <2>3, <3>1 DEF PhoneIInv, NotedInv, Landed
    <3> QED BY <1>2, <1>3, <3>2, <3>3 DEF PhoneIInv
  <2> QED BY <1>5, <2>4, <2>5
<1> QED BY <1>4, <1>5

\* A transaction is sent with the secrets that are stored.
LEMMA SendStep ==
    ASSUME PhoneIInv, EInv, SubmitRegister \/ SubmitVote
    PROVE  PhoneIInv'
<1>1. PICK pc \in {"register", "proved"}, kind \in {"register", "vote"} :
          /\ kind = IF pc = "register" THEN "register" ELSE "vote"
          /\ Send(pc, kind, IF pc = "register" THEN "awaitRegister" ELSE "awaitVote")
  BY DEF SubmitRegister, SubmitVote
<1> DEFINE awaiting == IF pc = "register" THEN "awaitRegister" ELSE "awaitVote"
<1>2. /\ flow.pc = pc /\ UNCHANGED <<vars, store, told, torn>>
      /\ flow' = [flow EXCEPT !.pc = awaiting, !.tx = Len(txs')]
  BY <1>1 DEF Send
<1>3. /\ flow.identity = Held /\ flow.identity \in Identities
      /\ flow.division \in Divisions /\ HasIdentity
      /\ pc = "proved" => store.identity # NoIdentity
  BY <1>2 DEF PhoneIInv, FlowInv, OnScreen, Home, Aims, Waiting, OfRegister
<1> DEFINE last == Len(txs')
<1>4. /\ txs' \in Seq(Txs)
      /\ \A i \in DOMAIN txs : i \in DOMAIN txs' /\ txs'[i] = txs[i]
      /\ \A i \in DOMAIN txs' : i \in DOMAIN txs \/ i = last
      /\ last \in DOMAIN txs'
      /\ txs'[last] = [kind |-> kind, identity |-> flow.identity, division |-> flow.division,
                       status |-> "sent", election |-> 0]
  BY <1>1, <1>3, SendFacts DEF PhoneIInv
<1>5. PhoneTypeOK'
  BY <1>2, <1>4 DEF PhoneIInv, PhoneTypeOK
<1>6. FlowInv'
  <2>1. /\ flow'.pc = awaiting /\ flow'.tx = last /\ flow'.identity = flow.identity
        /\ flow'.division = flow.division
    BY <1>2
  <2>2. OnScreen' /\ Held' = Held
    BY <1>2, <1>3, <2>1, SameStore DEF OnScreen
  <2>3. KindOf(awaiting) = kind /\ awaiting \in {"awaitRegister", "awaitVote"}
    BY <1>1 DEF KindOf, OfRegister
  <2>4. AwaitsTx'
    BY <1>4, <2>1, <2>3 DEF AwaitsTx
  <2> QED BY <1>2, <1>3, <2>1, <2>2, <2>3, <2>4 DEF FlowInv, Waiting, OfRegister
<1>7. LandedInv'
  <2> SUFFICES ASSUME NEW i \in DOMAIN txs' PROVE LandedAt(txs[i])'
    BY DEF LandedInv
  <2>1. CASE i \in DOMAIN txs
    <3>1. txs'[i] = txs[i] /\ LandedAt(txs[i])
      BY <1>4, <2>1 DEF PhoneIInv, LandedInv
    <3> QED BY <1>2, <3>1 DEF LandedAt, Tree, vars, ballot, stage
  <2>2. CASE i = last
    BY <1>4, <2>2 DEF LandedAt
  <2> QED BY <1>4, <2>1, <2>2
<1>8. TxsStand
  BY <1>4 DEF TxsStand
<1>9. LeavesAreSent'
  <2> SUFFICES ASSUME NEW d \in Divisions, NEW c \in Tree(d)' PROVE Sent(c)'
    BY DEF LeavesAreSent
  <2>1. Sent(c)
    BY <1>2 DEF PhoneIInv, LeavesAreSent, Tree, vars, ballot
  <2> QED BY <1>8, <2>1 DEF Sent, TxsStand
<1>10. StoreInv' /\ NotedInv'
  BY <1>2, <1>3, <1>8, NotedStands DEF PhoneIInv, StoreInv, HasIdentity
<1> QED BY <1>5, <1>6, <1>7, <1>9, <1>10 DEF PhoneIInv

\* A transaction that is settled is the one that was sent.
LEMMA SettledStands ==
    ASSUME PhoneIInv, EInv, NEW i \in DOMAIN txs, NEW status \in {"ok", "reverted"},
           txs[i].status = "sent", Settle(i, status), UNCHANGED <<store, flow, torn>>
    PROVE  /\ TxsStand /\ DOMAIN txs' = DOMAIN txs
           /\ \A c : Sent(c)' <=> Sent(c)
           /\ PhoneTypeOK' /\ FlowInv' /\ StoreInv' /\ NotedInv'
<1>1. /\ txs' \in Seq(Txs) /\ DOMAIN txs' = DOMAIN txs
      /\ \A j \in DOMAIN txs : j # i => txs'[j] = txs[j]
      /\ txs'[i].kind = txs[i].kind /\ txs'[i].identity = txs[i].identity
      /\ txs'[i].division = txs[i].division /\ txs'[i].status = status
  BY SettleFacts DEF PhoneIInv
<1>2. TxsStand
  BY <1>1 DEF TxsStand
<1>3. \A c : Sent(c)' <=> Sent(c)
  BY <1>1, <1>2 DEF Sent, TxsStand
<1>4. PhoneTypeOK'
  BY <1>1 DEF PhoneIInv, PhoneTypeOK
<1>5. FlowInv'
  <2>1. Held' = Held /\ HasIdentity' = HasIdentity
    BY SameStore
  <2>2. OnScreen' = OnScreen
    BY <2>1 DEF OnScreen
  <2>3. AwaitsTx => AwaitsTx'
    BY <1>1, <1>2 DEF AwaitsTx, TxsStand
  <2> QED BY <2>1, <2>2, <2>3 DEF PhoneIInv, FlowInv
<1>6. StoreInv'
  BY <1>3 DEF PhoneIInv, StoreInv, HasIdentity
<1>7. NotedInv'
  BY <1>2, NotedStands DEF PhoneIInv
<1> QED BY <1>1, <1>2, <1>3, <1>4, <1>5, <1>6, <1>7

\* A transaction is mined: what it says landed has.
LEMMA MinedStep ==
    ASSUME PhoneIInv, EInv, EInv', NEW i \in DOMAIN txs, Mined(i)
    PROVE  PhoneIInv' /\ ChainStands
<1>1. /\ txs[i] \in Txs /\ txs[i].division \in Divisions /\ txs[i].kind \in {"register", "vote"}
  BY IdentityTypes DEF PhoneIInv, Txs
<1>2. /\ txs[i].status = "sent" /\ UNCHANGED <<store, flow, torn>>
      /\ \/ Accepted(i) /\ Settle(i, "ok")
         \/ Settle(i, "reverted") /\ UNCHANGED vars
  BY MinedCases
<1>0. PICK d \in Divisions, v \in Devices, c \in Commitments :
          /\ d = txs[i].division /\ v = txs[i].identity.device
          /\ c = txs[i].identity.commitment
  BY <1>1, IdentityTypes DEF PhoneIInv, Identities
<1>3. /\ UNCHANGED electionId /\ ChainStands
      /\ \A x \in Divisions : Tree(x)' \subseteq Tree(x) \cup {c}
      /\ Settle(i, "ok") /\ txs[i].kind = "register" /\ Accepted(i) => c \in Tree(d)'
      /\ Settle(i, "ok") /\ txs[i].kind # "register" /\ Accepted(i) => c.nullifier \in nullifiers'[d]
  <2>1. CASE Accepted(i) /\ txs[i].kind = "register"
    <3>1. Register(d, v, c)
      BY <1>0, <2>1, AcceptedAs DEF PhoneIInv
    <3>2. /\ UNCHANGED <<nullifiers, electionId>>
          /\ \A x \in Divisions : Tree(x) \subseteq Tree(x)'
          /\ \A x \in Divisions : Tree(x)' \subseteq Tree(x) \cup {c}
          /\ c \in Tree(d)'
      BY <1>1, <3>1, RegisterFacts
    <3> QED BY <2>1, <3>2 DEF ChainStands, EInv, TypeOK
  <2>2. CASE Accepted(i) /\ txs[i].kind # "register"
    <3>1. Vote(d, c.nullifier)
      BY <1>0, <2>2, AcceptedAs DEF PhoneIInv
    <3>2. /\ UNCHANGED <<leaves, electionId>>
          /\ \A x \in Divisions : nullifiers[x] \subseteq nullifiers'[x]
          /\ c.nullifier \in nullifiers'[d]
      BY <1>1, <3>1, VoteFacts
    <3> QED BY <2>2, <3>2 DEF ChainStands, EInv, TypeOK, Tree
  <2>3. CASE UNCHANGED vars /\ ~Accepted(i)
    BY <2>3 DEF vars, ballot, stage, ChainStands, EInv, TypeOK, Tree
  <2>4. CASE UNCHANGED vars /\ Settle(i, "reverted")
    <3>1. ~Settle(i, "ok")
      BY <2>4, SettleFacts DEF PhoneIInv
    <3> QED BY <2>4, <3>1 DEF vars, ballot, stage, ChainStands, EInv, TypeOK, Tree
  <2> QED BY <1>1, <1>2, <2>1, <2>2, <2>4
<1>4. PICK status \in {"ok", "reverted"} :
          /\ Settle(i, status)
          /\ status = "ok" => Accepted(i) /\ Settle(i, "ok")
  BY <1>2
<1>5. /\ TxsStand /\ DOMAIN txs' = DOMAIN txs
      /\ \A x : Sent(x)' <=> Sent(x)
      /\ PhoneTypeOK' /\ FlowInv' /\ StoreInv' /\ NotedInv'
  BY <1>2, <1>4, SettledStands
<1>6. /\ \A j \in DOMAIN txs : j # i => txs'[j] = txs[j]
      /\ txs'[i].kind = txs[i].kind /\ txs'[i].identity = txs[i].identity
      /\ txs'[i].division = txs[i].division /\ txs'[i].status = status
      /\ txs'[i].election = electionId[txs[i].division]
  <2>1. Settle(i, status)
    BY <1>4
  <2> QED BY <2>1, SettleFacts DEF PhoneIInv
<1>7. LeavesAreSent'
  <2> SUFFICES ASSUME NEW x \in Divisions, NEW y \in Tree(x)' PROVE Sent(y)'
    BY DEF LeavesAreSent
  <2>1. y \in Tree(x) \/ y = c
    BY <1>3
  <2>2. Sent(c)
    BY <1>0 DEF Sent
  <2> QED BY <1>5, <2>1, <2>2 DEF PhoneIInv, LeavesAreSent
<1>8. LandedInv'
  <2> SUFFICES ASSUME NEW j \in DOMAIN txs PROVE LandedAt(txs[j])'
    BY <1>5 DEF LandedInv
  <2>1. CASE j # i
    <3>1. PICK t \in Txs : t = txs[j]
      BY IdentityTypes DEF PhoneIInv
    <3>2. LandedAt(t)'
      BY <1>3, <3>1, LandedStands DEF PhoneIInv, LandedInv
    <3>3. txs'[j] = t
      BY <1>6, <2>1, <3>1
    <3> QED BY <3>2, <3>3 DEF LandedAt
  <2>2. CASE j = i
    <3>1. electionId[d] \in Nat /\ electionId'[d] = electionId[d]
      BY <1>1, <1>3 DEF EInv, TypeOK
    <3>2. CASE status = "ok"
      <4>1. IF txs[i].kind = "register" THEN c \in Tree(d)' ELSE c.nullifier \in nullifiers'[d]
        BY <1>3, <1>4, <3>2
      <4>2. txs'[i].division = d /\ txs'[i].identity.commitment = c
        BY <1>0, <1>6
      <4> QED BY <1>0, <1>6, <2>2, <3>1, <4>1, <4>2 DEF LandedAt
    <3>3. CASE status # "ok"
      BY <1>6, <2>2, <3>3 DEF LandedAt
    <3> QED BY <3>2, <3>3
  <2> QED BY <2>1, <2>2
<1> QED BY <1>3, <1>5, <1>7, <1>8 DEF PhoneIInv

\* What nobody touches stays as it is.
LEMMA ScreenStands ==
    ASSUME PhoneIInv, UNCHANGED <<store, flow, txs, torn>>
    PROVE  PhoneTypeOK' /\ FlowInv' /\ StoreInv' /\ NotedInv'
<1>1. Held' = Held /\ HasIdentity' = HasIdentity
  BY SameStore
<1>2. OnScreen' = OnScreen /\ AwaitsTx' = AwaitsTx
  BY <1>1 DEF OnScreen, AwaitsTx
<1>3. FlowInv'
  BY <1>1, <1>2 DEF PhoneIInv, FlowInv
<1>4. NotedInv'
  BY <1>1, NotesKept
<1> QED BY <1>1, <1>3, <1>4 DEF PhoneIInv, PhoneTypeOK, StoreInv, HasIdentity, Sent

\* The authorities touch nothing of the phone's.
LEMMA AuthoritiesStep ==
    ASSUME PhoneIInv, EInv, EInv', Authorities
    PROVE  PhoneIInv' /\ ChainStands
<1>1. UNCHANGED <<store, flow, txs, torn>>
  BY DEF Authorities
<1>2. \A d \in Divisions :
        \/ leaves'[d] = leaves[d] /\ nullifiers'[d] = nullifiers[d] /\ electionId'[d] = electionId[d]
        \/ leaves'[d] = {} /\ electionId'[d] = electionId[d] + 1
  BY AuthoritiesFacts
<1>3. ChainStands
  BY <1>2 DEF ChainStands, Tree, EInv, TypeOK
<1>4. LandedInv'
  <2> SUFFICES ASSUME NEW j \in DOMAIN txs PROVE LandedAt(txs[j])'
    BY <1>1 DEF LandedInv
  <2>1. PICK t \in Txs : t = txs[j]
    BY IdentityTypes DEF PhoneIInv
  <2>2. LandedAt(t)'
    BY <1>3, <2>1, LandedStands DEF PhoneIInv, LandedInv
  <2> QED BY <1>1, <2>1, <2>2 DEF LandedAt
<1>5. LeavesAreSent'
  BY <1>1, <1>2 DEF PhoneIInv, LeavesAreSent, Tree, Sent
<1>6. PhoneTypeOK' /\ FlowInv' /\ StoreInv' /\ NotedInv'
  BY <1>1, ScreenStands
<1> QED BY <1>3, <1>4, <1>5, <1>6 DEF PhoneIInv

-----------------------------------------------------------------------------
\* Every transaction's key is one of the phone's, and so is the one it holds.
LEMMA SentKey ==
    ASSUME PhoneTypeOK
    PROVE  /\ \A i \in DOMAIN txs : txs[i].identity.device \in Keys
           /\ store.legacyKey # Zero => store.legacyKey \in Keys
           /\ Held \in Identities => Held.device \in Keys
<1>1. \A i \in Identities : i.device \in Devices /\ i # NoIdentity /\ i.device # Zero
  BY IdentityTypes, NicRegistryAssumption DEF Identities
<1>2. \A i \in Drawn : i \in Identities => i.device \in Keys
  BY <1>1 DEF Keys
<1>3. \A i \in DOMAIN txs : txs[i].identity \in Drawn /\ txs[i].identity \in Identities
  BY IdentityTypes DEF Drawn
<1>4. ASSUME store.legacyKey # Zero PROVE store.legacyKey \in Keys
  <2>1. Legacy \in Olds /\ Legacy.device = store.legacyKey
    BY <1>4, HeldIs, HeldFacts DEF PhoneTypeOK
  <2>2. Legacy # NoIdentity /\ Legacy \in Drawn
    BY <2>1, IdentityTypes DEF Drawn
  <2> QED BY <1>4, <2>1, <2>2 DEF Keys
<1>5. Held \in Identities => Held \in Drawn
  BY IdentityTypes DEF Held, Drawn
<1> QED BY <1>2, <1>3, <1>4, <1>5

\* And a key is one a phone can have.
LEMMA KeysAreDevices == ASSUME PhoneTypeOK PROVE Keys \subseteq Devices
<1>1. \A i \in Identities : i.device \in Devices
  BY DEF Identities
<1>2. Legacy.device \in Devices \cup {Zero}
  BY HeldIs, HeldFacts DEF PhoneTypeOK, Stores
<1>3. \A i \in Drawn \ {NoIdentity} : i \in Identities \/ i = Legacy
  BY IdentityTypes DEF Drawn, Stores
<1> QED BY <1>1, <1>2, <1>3 DEF Keys

\* Keys come from what is stored and what was sent.
LEMMA KeysGrow ==
    ASSUME PhoneTypeOK, PhoneTypeOK', NEW more,
           store'.identity \in {store.identity, NoIdentity} \/ store'.identity.device \in Keys \cup more,
           store'.legacyKey \in {store.legacyKey, Zero},
           \A i \in DOMAIN txs' : \/ i \in DOMAIN txs /\ txs'[i].identity = txs[i].identity
                                  \/ txs'[i].identity.device \in Keys
    PROVE  Keys' \subseteq Keys \cup more
<1> SUFFICES ASSUME NEW v \in Keys' PROVE v \in Keys \cup more
  OBVIOUS
<1>1. PICK i \in Drawn' \ {NoIdentity} : i.device = v /\ v # Zero
  BY DEF Keys
<1>2. \A j \in DOMAIN txs : txs[j].identity.device \in Keys
  BY SentKey
<1>3. store.legacyKey # Zero => store.legacyKey \in Keys
  BY SentKey
<1>4. CASE i = store'.identity
  <2>1. CASE store'.identity = store.identity
    BY <1>1, <1>4, <2>1 DEF Keys, Drawn
  <2> QED BY <1>1, <1>4, <2>1
<1>5. CASE i = Legacy'
  <2>1. i.device = store'.legacyKey
    BY <1>5 DEF Legacy
  <2> QED BY <1>1, <1>3, <2>1
<1>6. CASE \E j \in DOMAIN txs' : i = txs'[j].identity
  BY <1>1, <1>2, <1>6
<1> QED BY <1>1, <1>4, <1>5, <1>6 DEF Drawn

\* The phone comes by a new key only by drawing it.
LEMMA KeysStep ==
    ASSUME PhoneIInv, PhoneIInv', EInv, PhoneStep
    PROVE  \A v \in Keys' : v \in Keys \/ (v \in Devices /\ binding[v].status = "Unbound")
<1>0. PhoneTypeOK /\ PhoneTypeOK' /\ FlowInv
  BY DEF PhoneIInv
<1>1. ASSUME UNCHANGED txs, store'.legacyKey \in {store.legacyKey, Zero},
             store'.identity \in {store.identity, NoIdentity} \/ store'.identity.device \in Keys
      PROVE  Keys' \subseteq Keys
  <2>1. Keys' \subseteq Keys \cup {}
    BY <1>0, <1>1, KeysGrow
  <2> QED BY <2>1
<1>2. ASSUME NEW w \in Devices, NEW c \in Commitments, CreateIdentity(w, c)
      PROVE  \A v \in Keys' : v \in Keys \/ (v \in Devices /\ binding[v].status = "Unbound")
  <2> DEFINE new == [device |-> w, commitment |-> c]
  <2>1. /\ store'.identity = new /\ store'.legacyKey = store.legacyKey /\ UNCHANGED txs
        /\ binding[w].status = "Unbound"
    BY <1>0, <1>2 DEF CreateIdentity, Fresh, PhoneTypeOK, Stores
  <2>2. new.device = w
    OBVIOUS
  <2> HIDE DEF new
  <2>3. Keys' \subseteq Keys \cup {w}
    BY <1>0, <2>1, <2>2, KeysGrow
  <2> QED BY <2>1, <2>3
<1>3. CASE Wipe
  BY <1>0, <1>1, <1>3, WipeFacts
<1>4. ASSUME NEW d \in Divisions, NEW c \in Commitments, OldRegister(d, c) PROVE Keys' \subseteq Keys
  BY <1>0, <1>1, <1>4, OldFacts
<1>5. CASE LoseSecrets
  BY <1>0, <1>1, <1>5, LoseFacts
<1>6. ASSUME NEW d \in Divisions, OpenRegister(d) \/ OpenVote(d) \/ OpenVerify(d) PROVE Keys' \subseteq Keys
  BY <1>0, <1>1, <1>6, OpenFacts
<1>7. ASSUME NEW c \in Commitments, Migrate(c) PROVE Keys' \subseteq Keys
  <2>1. /\ store.legacyKey # Zero /\ store'.legacyKey = store.legacyKey /\ UNCHANGED txs
        /\ store'.identity = [device |-> store.legacyKey, commitment |-> c]
    BY <1>0, <1>7, MigrateFacts
  <2>2. store'.identity.device \in Keys
    BY <1>0, <2>1, SentKey
  <2> QED BY <1>1, <2>1, <2>2
<1>8. CASE DeleteLegacy
  BY <1>0, <1>1, <1>8, DeleteFacts
<1>9. CASE WriteAddress \/ MarkRegistered \/ MarkVoted
  BY <1>0, <1>1, <1>9, WriteFacts
<1>10. CASE SubmitRegister \/ SubmitVote
  <2>1. PICK pc \in {"register", "proved"}, kind \in {"register", "vote"} :
            Send(pc, kind, IF pc = "register" THEN "awaitRegister" ELSE "awaitVote")
    BY <1>10 DEF SubmitRegister, SubmitVote
  <2>2. /\ flow.identity = Held /\ flow.identity \in Identities
        /\ flow.division \in Divisions /\ UNCHANGED store
    BY <1>0, <2>1 DEF Send, FlowInv, OnScreen, Home, Aims, Waiting
  <2>3. \A i \in DOMAIN txs' : \/ i \in DOMAIN txs /\ txs'[i] = txs[i]
                               \/ txs'[i].identity = Held
    BY <1>0, <2>1, <2>2, SendFacts
  <2>4. Held.device \in Keys
    BY <1>0, <2>2, SentKey
  <2>5. Keys' \subseteq Keys \cup {}
    BY <1>0, <2>2, <2>3, <2>4, KeysGrow
  <2> QED BY <2>5
<1>11. CASE \/ Killed \/ Unlock \/ SecretsMissing \/ ProveMembership
            \/ RegisterReceipt \/ VoteReceipt \/ NoReceipt
  <2>1. UNCHANGED <<store, txs>>
    BY <1>11 DEF Killed, Unlock, SecretsMissing, ProveMembership, RegisterReceipt, VoteReceipt, NoReceipt
  <2> QED BY <1>1, <2>1
<1> QED BY <1>2, <1>3, <1>4, <1>5, <1>6, <1>7, <1>8, <1>9, <1>10, <1>11 DEF PhoneStep

\* The phone enrols nobody.
LEMMA PhoneStepKeys ==
    ASSUME PhoneIInv, PhoneIInv', EInv, NicInv, KeysInv, PhoneStep
    PROVE  KeysInv'
<1>1. UNCHANGED vars
  BY PhoneLeavesChain
<1>2. \A v \in Keys' : v \in Keys \/ (v \in Devices /\ binding[v].status = "Unbound")
  BY KeysStep
<1>3. \A v \in Devices : binding[v].status = "Unbound" => binding[v].nic = Zero
  BY DEF NicInv, NicTypeOK, Bindings, NoBinding
<1> QED BY <1>1, <1>2, <1>3 DEF KeysInv, vars, nicVars, ballot

\* A leaf the phone's transaction inserts is the citizen's.
LEMMA MinedKeys ==
    ASSUME PhoneIInv, EInv, NicInv, KeysInv, NEW i \in DOMAIN txs, Mined(i)
    PROVE  KeysInv'
<1>0. PICK d \in Divisions, v \in Devices, c \in Commitments :
          /\ d = txs[i].division /\ v = txs[i].identity.device
          /\ c = txs[i].identity.commitment
  BY IdentityTypes DEF PhoneIInv, Identities
<1>1. Keys' \subseteq Keys
  <2>1. PICK status \in {"ok", "reverted"} : Settle(i, status)
    BY MinedCases
  <2>2. DOMAIN txs' = DOMAIN txs /\ \A j \in DOMAIN txs : txs'[j].identity = txs[j].identity
    BY <2>1, SettleFacts DEF PhoneIInv
  <2>3. Drawn' = Drawn
    BY <2>2, MinedCases DEF Drawn, Legacy
  <2> QED BY <2>3 DEF Keys
<1>2. CASE UNCHANGED <<binding, leaves>>
  BY <1>1, <1>2 DEF KeysInv
<1>3. CASE Register(d, v, c)
  <2>1. CommitDevice(d, v, nicEpoch[d]) /\ binding[v].status = "Live"
    BY <1>3 DEF Register, CommitDevice
  <2>2. UNCHANGED binding /\ binding[v].nic \in Nics
    BY <2>1, CommitDeviceFacts
  <2>3. binding[v].nic = Citizen
    BY <1>0, <2>2, SentKey, NicRegistryAssumption DEF KeysInv, PhoneIInv
  <2> DEFINE leaf == [commitment |-> c, device |-> v, nic |-> binding[v].nic]
  <2>4. leaves' = [leaves EXCEPT ![d] = @ \cup {leaf}] /\ leaf.nic = Citizen
    BY <1>3, <2>3 DEF Register
  <2> HIDE DEF leaf
  <2>5. \A x \in Divisions : \A l \in leaves'[x] : l \in leaves[x] \/ l = leaf
    BY <2>4 DEF EInv, TypeOK
  <2> QED BY <1>1, <2>2, <2>4, <2>5 DEF KeysInv
<1>4. Register(d, v, c) \/ UNCHANGED <<binding, leaves>>
  <2>1. CASE Accepted(i) /\ txs[i].kind = "register"
    BY <1>0, <2>1, AcceptedAs DEF PhoneIInv
  <2>2. CASE Accepted(i) /\ txs[i].kind # "register"
    <3>1. Vote(d, c.nullifier)
      BY <1>0, <2>2, AcceptedAs DEF PhoneIInv
    <3> QED BY <3>1 DEF Vote, nicVars
  <2>3. CASE UNCHANGED vars
    BY <2>3 DEF vars, nicVars, ballot
  <2> QED BY <2>1, <2>2, <2>3, MinedCases
<1> QED BY <1>2, <1>3, <1>4

\* The officers enrol the phone's keys for the citizen alone.
LEMMA AuthoritiesKeys ==
    ASSUME PhoneTypeOK, EInv, NicInv, KeysInv, Authorities
    PROVE  KeysInv'
<1>1. Keys' = Keys
  BY DEF Authorities, Keys, Drawn, Legacy
<1>2. \A d \in Divisions : leaves'[d] = leaves[d] \/ leaves'[d] = {}
  BY AuthoritiesFacts
<1>3. \A d \in Divisions : \A l \in leaves'[d] : l.nic = Citizen
  BY <1>2 DEF KeysInv
<1>4. CASE NewEpoch
  <2>1. \A v \in Devices : binding'[v].nic = Zero
    BY <1>4 DEF NewEpoch, ClearNicHashes, NoBinding
  <2> QED BY <1>1, <1>3, <2>1, KeysAreDevices DEF KeysInv
<1>5. ASSUME NEW d \in Divisions, EnrolVoter(d), \A v \in Keys : binding'[v].nic \in {Zero, Citizen}
      PROVE  KeysInv'
  BY <1>1, <1>3, <1>5 DEF KeysInv
<1>6. ASSUME NEW d \in Divisions,
             \/ SetCandidates(d) \/ AddVoters(d) \/ StartRegistration(d)
             \/ StartVoting(d) \/ EndElection(d) \/ DeadlinePasses(d)
             \/ Authorise(d) \/ ResetElection(d)
      PROVE  KeysInv'
  <2>1. UNCHANGED binding
    BY <1>6 DEF SetCandidates, AddVoters, StartRegistration, StartVoting, EndElection,
       DeadlinePasses, Authorise, ResetElection, SetVotingContract, nicVars
  <2> QED BY <1>1, <1>3, <2>1 DEF KeysInv
<1> QED BY <1>4, <1>5, <1>6 DEF Authorities

-----------------------------------------------------------------------------
\* The chain and the phone together.
Whole == EInv /\ NicInv /\ BallotCounted /\ PhoneIInv /\ KeysInv

\* Nobody is enrolled and the phone is new.
LEMMA WholeInit == PhoneInit => Whole
<1> SUFFICES ASSUME PhoneInit PROVE Whole
  OBVIOUS
<1>0. Init
  BY Zenon DEF PhoneInit
<1>1. EInv /\ NicInv /\ BallotCounted /\ Init
  BY <1>0, ElectionInit, InitInv, CountedInit DEF Init
<1>2. /\ store \in {OutOfBox(v) : v \in Devices \cup {Zero}}
      /\ flow = Home /\ txs = <<>> /\ torn = FALSE
  BY Zenon DEF PhoneInit
<1>3. /\ store \in Stores /\ ~store.registered /\ store.voted = {} /\ store.identity = NoIdentity
      /\ store.legacyKey = store.address
  <2>1. PICK v \in Devices \cup {Zero} : store = OutOfBox(v)
    BY Zenon, <1>2
  <2> QED BY <2>1 DEF OutOfBox, Stores, NullifierWords, SecretWords
<1>4. DOMAIN txs = {} /\ txs \in Seq(Txs)
  <2>1. txs = <<>>
    BY <1>2
  <2> QED BY <2>1
<1>5. \A d \in Divisions : leaves[d] = {}
  BY <1>1 DEF Init
<1>6. PhoneTypeOK /\ FlowInv /\ LandedInv /\ StoreInv /\ NotedInv
  BY <1>2, <1>3, <1>4 DEF PhoneTypeOK, FlowInv, LandedInv, StoreInv, NotedInv, HasIdentity
<1>7. LeavesAreSent
  BY <1>5 DEF LeavesAreSent, Tree
<1>8. KeysInv
  <2>1. \A v \in Devices : binding[v].nic = Zero
    BY <1>1 DEF Init, NicInit, NoBinding
  <2> QED BY <1>5, <1>6, <2>1, KeysAreDevices DEF KeysInv
<1> QED BY <1>1, <1>6, <1>7, <1>8 DEF Whole, PhoneIInv

\* Every step of the phone, the chain and the authorities keeps all of it.
LEMMA WholeStep ==
    ASSUME Whole, [PhoneNext]_phoneVars
    PROVE  Whole'
<1> USE DEF Whole
<1>1. [Next]_vars
  BY PhoneIsElectionStep DEF PhoneIInv
<1>2. EInv' /\ NicInv' /\ BallotCounted'
  BY <1>1, ElectionStep, NextIsRegistryStep, NextInv, CountedStep
<1>3. CASE UNCHANGED phoneVars
  <2>1. UNCHANGED <<vars, store, flow, txs, torn>>
    BY <1>3 DEF phoneVars
  <2>2. LandedInv' /\ LeavesAreSent'
    BY <2>1, Untouched
  <2>3. PhoneTypeOK' /\ FlowInv' /\ StoreInv' /\ NotedInv'
    BY <2>1, ScreenStands
  <2>4. KeysInv'
    BY <2>1 DEF KeysInv, Keys, Drawn, Legacy, vars, nicVars, ballot
  <2> QED BY <1>2, <2>2, <2>3, <2>4 DEF PhoneIInv
<1>4. CASE PhoneStep
  <2>1. PhoneIInv'
    BY <1>4, CreateStep, OldStep, LoseStep, WipeStep, OpenStep, MigrateStep, DeleteStep, WriteStep, SendStep,
       ScreenSteps DEF PhoneStep
  <2> QED BY <1>2, <1>4, <2>1, PhoneStepKeys
<1>5. ASSUME NEW i \in DOMAIN txs, Mined(i) PROVE Whole'
  BY <1>2, <1>5, MinedStep, MinedKeys
<1>6. CASE Authorities
  <2>1. PhoneIInv'
    BY <1>2, <1>6, AuthoritiesStep
  <2>2. KeysInv'
    BY <1>6, AuthoritiesKeys DEF PhoneIInv
  <2> QED BY <1>2, <2>1, <2>2
<1> QED BY <1>3, <1>4, <1>5, <1>6 DEF PhoneNext

\* packages/mobile against Voting.sol and NicRegistry.sol: whatever the phone,
\* its voter and the network do, the chain makes no step module Election does
\* not have, so all that is proved of it holds with the phone.
THEOREM PhoneImplementsElection == PhoneSpec => Spec
<1>1. Whole /\ [PhoneNext]_phoneVars => [Next]_vars
  BY PhoneIsElectionStep DEF Whole, PhoneIInv
<1>2. PhoneInit => Init
  BY DEF PhoneInit
<1> QED BY <1>1, <1>2, WholeInit, WholeStep, PTL DEF PhoneSpec, Spec

\* keystore.ts markRegistered and markVoted: what the phone has noted, the
\* chain holds, whenever the app is killed, retries or loses a receipt.
THEOREM PhoneInvAlways == PhoneSpec => []PhoneInv
<1>1. Whole => PhoneInv
  <2> SUFFICES ASSUME Whole PROVE PhoneInv
    OBVIOUS
  <2>1. ASSUME NEW kind, NEW i \in DOMAIN txs, i \in Landed(kind, Held)
        PROVE  LandedAt(txs[i]) /\ txs[i].status = "ok" /\ txs[i].kind = kind
               /\ txs[i].identity = Held
    BY <2>1 DEF Whole, PhoneIInv, LandedInv, Landed
  <2>2. FlagHasLeaf
    <3> SUFFICES ASSUME store.registered, ~torn, Held.commitment \in Commitments
                 PROVE  \E i \in Landed("register", Held) :
                           txs[i].election = electionId[txs[i].division]
                           => Held.commitment \in Tree(txs[i].division)
      BY DEF FlagHasLeaf
    <3>1. PICK i \in DOMAIN txs : i \in Landed("register", Held)
      BY DEF Whole, PhoneIInv, NotedInv
    <3>2. LandedAt(txs[i]) /\ txs[i].status = "ok" /\ txs[i].kind = "register"
          /\ txs[i].identity = Held
      BY <2>1, <3>1
    <3> QED BY <3>1, <3>2 DEF LandedAt
  <2>3. VotedIsCounted
    <3> SUFFICES ASSUME ~torn, NEW d \in store.voted
                 PROVE  \E i \in Landed("vote", Held) :
                           /\ txs[i].division = d
                           /\ txs[i].election = electionId[d] =>
                                 Held.commitment.nullifier \in nullifiers[d]
      BY DEF VotedIsCounted
    <3>1. PICK i \in DOMAIN txs : i \in Landed("vote", Held) /\ txs[i].division = d
      BY DEF Whole, PhoneIInv, NotedInv
    <3>2. LandedAt(txs[i]) /\ txs[i].status = "ok" /\ txs[i].kind = "vote"
          /\ txs[i].identity = Held
      BY <2>1, <3>1
    <3> QED BY <3>1, <3>2 DEF LandedAt
  <2> QED BY <2>2, <2>3 DEF PhoneInv
<1> QED BY <1>1, WholeInit, WholeStep, PTL DEF PhoneSpec

\* keystore.ts createIdentity and migrateLegacyIdentity: secrets that are behind
\* a leaf, or that the phone notes having registered with, are never drawn anew,
\* in whichever layout they are, wherever a migration stops and whatever of the
\* old layout it leaves; they are lost only if the voter erases them or the
\* storage loses them.
THEOREM SecretsAreKept == PhoneSpec => SecretsKept
<1> DEFINE Kept == Held # NoIdentity /\ ~torn
                   /\ (store.registered \/ \E d \in Divisions : Held.commitment \in Tree(d))
                   => Held' = Held \/ told' \in {"erased", "updated"}
<1>1. Whole /\ [PhoneNext]_phoneVars => [Kept]_phoneVars
  <2> SUFFICES ASSUME Whole, PhoneNext, Held # NoIdentity, ~torn,
                      store.registered \/ \E d \in Divisions : Held.commitment \in Tree(d),
                      ~(told' \in {"erased", "updated"})
               PROVE  Held' = Held
    OBVIOUS
  <2>0. PhoneIInv /\ PhoneTypeOK /\ FlowInv /\ StoreInv /\ LeavesAreSent
    BY DEF Whole, PhoneIInv
  <2>1. store.registered \/ (Sent(Held.commitment) /\ Held.commitment \in Commitments)
    <3>1. (\E d \in Divisions : Held.commitment \in Tree(d)) => Sent(Held.commitment)
      BY <2>0 DEF LeavesAreSent
    <3>2. Sent(Held.commitment) => Held.commitment \in Commitments
      BY <2>0, IdentityTypes DEF Sent, Identities
    <3> QED BY <3>1, <3>2
  <2>2. HasIdentity
    <3> SUFFICES ASSUME ~HasIdentity PROVE FALSE
      OBVIOUS
    <3>1. ~store.registered /\ store.legacyKey = Zero
          /\ (store.identity # NoIdentity => ~Sent(store.identity.commitment))
      BY <2>0 DEF StoreInv
    <3> QED BY <2>1, <3>1 DEF Held
  <2>3. store.identity = NoIdentity => HasSecrets \/ store.registered
    <3> SUFFICES ASSUME store.identity = NoIdentity, Held.commitment \in Commitments PROVE HasSecrets
      BY <2>1
    <3>1. Held = LegacyOf(store)
      BY HeldIs, HeldFacts, <2>0 DEF PhoneTypeOK
    <3> QED BY <3>1, LegacyWhole DEF HasSecrets
  <2>4. CASE UNCHANGED store
    BY <2>4, SameStore
  <2>5. CASE Wipe \/ LoseSecrets
    BY <2>5 DEF Wipe, Back, LoseSecrets
  <2>6. ASSUME NEW d \in Divisions, NEW c \in Commitments, OldRegister(d, c) PROVE Held' = Held
    <3>1. ~store.registered /\ store.identity = NoIdentity
      BY <2>6 DEF OldRegister
    <3> QED BY <2>0, <2>3, <2>6, <3>1, OldFacts
  <2>7. ASSUME NEW d \in Divisions, OpenRegister(d) \/ OpenVote(d) \/ OpenVerify(d) PROVE Held' = Held
    BY <2>0, <2>7, OpenFacts
  <2>8. ASSUME NEW c \in Commitments, Migrate(c) PROVE Held' = Held
    BY <2>0, <2>3, <2>8, MigrateFacts
  <2>9. CASE DeleteLegacy
    BY <2>0, <2>9, DeleteFacts
  <2>10. CASE WriteAddress \/ MarkRegistered \/ MarkVoted
    BY <2>0, <2>10, WriteFacts
  <2>11. ASSUME NEW v \in Devices, NEW c \in Commitments, CreateIdentity(v, c) PROVE FALSE
    BY <2>2, <2>11 DEF CreateIdentity
  <2>12. CASE \/ Killed \/ Unlock \/ SecretsMissing \/ ProveMembership \/ SubmitRegister \/ SubmitVote
              \/ RegisterReceipt \/ VoteReceipt \/ NoReceipt
    <3>1. UNCHANGED store
      BY <2>12 DEF Killed, Unlock, SecretsMissing, ProveMembership, SubmitRegister, SubmitVote, Send,
         RegisterReceipt, VoteReceipt, NoReceipt
    <3> QED BY <2>4, <3>1
  <2>13. ASSUME NEW i \in DOMAIN txs, Mined(i) PROVE UNCHANGED store
    BY <2>13, MinedCases
  <2>14. PhoneStep => Held' = Held
    BY <2>5, <2>6, <2>7, <2>8, <2>9, <2>10, <2>11, <2>12 DEF PhoneStep
  <2>15. Authorities => UNCHANGED store
    BY DEF Authorities
  <2> QED BY <2>4, <2>13, <2>14, <2>15 DEF PhoneNext
<1> QED BY <1>1, WholeInit, WholeStep, PTL DEF PhoneSpec, SecretsKept

\* All leaves of a division are the phone's citizen's, who has one.
LEMMA OneLeafOfPhone ==
    ASSUME EInv, NicInv, KeysInv, NEW d \in Divisions, NEW c1 \in Tree(d), NEW c2 \in Tree(d)
    PROVE  c1 = c2
<1>1. PICK l1 \in leaves[d], l2 \in leaves[d] : l1.commitment = c1 /\ l2.commitment = c2
  BY DEF Tree
<1>2. l1.nic = l2.nic
  BY <1>1 DEF KeysInv
<1> QED BY <1>1, <1>2, OneLeaf DEF OneLeafPerDivision

\* So a second vote of the phone in one election is refused.
LEMMA OneVoteMined ==
    ASSUME Whole, OneVotePerElection, NEW i \in DOMAIN txs, Mined(i)
    PROVE  OneVotePerElection'
<1> USE DEF Whole
<1>0. PICK d \in Divisions, v \in Devices, c \in Commitments :
          /\ d = txs[i].division /\ v = txs[i].identity.device
          /\ c = txs[i].identity.commitment
  BY IdentityTypes DEF PhoneIInv, Identities
<1>1. PICK status \in {"ok", "reverted"} :
          /\ Settle(i, status)
          /\ status = "ok" => Accepted(i)
  BY MinedCases
<1>2. Settle(i, status)
  BY <1>1
<1>3. /\ DOMAIN txs' = DOMAIN txs
      /\ \A j \in DOMAIN txs : j # i => txs'[j] = txs[j]
      /\ txs'[i].kind = txs[i].kind /\ txs'[i].division = d
      /\ txs'[i].status = status /\ txs'[i].election = electionId[d]
  BY <1>0, <1>2, SettleFacts DEF PhoneIInv
<1>4. ASSUME NEW j \in DOMAIN txs, j # i, txs[j].kind = "vote", txs[j].status = "ok",
             txs[j].division = d, txs[j].election = electionId[d],
             status = "ok", txs[i].kind = "vote"
      PROVE  FALSE
  <2>1. Vote(d, c.nullifier)
    BY <1>0, <1>1, <1>4, AcceptedAs DEF PhoneIInv
  <2>2. /\ c.nullifier \notin nullifiers[d]
        /\ \E b \in Tree(d) : b.nullifier = c.nullifier
    BY <2>1, VoteFacts
  <2>3. txs[j].identity.commitment.nullifier \in nullifiers[d]
    BY <1>4 DEF PhoneIInv, LandedInv, LandedAt
  <2>4. PICK b \in Tree(d) : b.nullifier = txs[j].identity.commitment.nullifier
    BY <2>3 DEF BallotCounted, Tree
  <2> QED BY <2>2, <2>3, <2>4, OneLeafOfPhone
<1> QED BY <1>3, <1>4 DEF OneVotePerElection

\* Nothing but a submission sends a transaction.
LEMMA OnlySendsAppend == ASSUME PhoneStep PROVE UNCHANGED txs \/ SubmitRegister \/ SubmitVote
<1>1. \A v \in Devices, c \in Commitments : CreateIdentity(v, c) => UNCHANGED txs
  BY DEF CreateIdentity
<1>2. \A d \in Divisions, c \in Commitments : OldRegister(d, c) => UNCHANGED txs
  BY DEF OldRegister
<1>3. \A d \in Divisions : OpenRegister(d) \/ OpenVote(d) \/ OpenVerify(d) => UNCHANGED txs
  BY DEF OpenRegister, OpenVote, OpenVerify, Open
<1>4. \A c \in Commitments : Migrate(c) => UNCHANGED txs
  BY DEF Migrate
<1>5. WriteAddress \/ Wipe \/ Killed \/ LoseSecrets \/ Unlock \/ SecretsMissing \/ DeleteLegacy => UNCHANGED txs
  BY DEF WriteAddress, Wipe, Killed, LoseSecrets, Unlock, SecretsMissing, DeleteLegacy
<1>6. RegisterReceipt \/ MarkRegistered \/ ProveMembership \/ VoteReceipt \/ MarkVoted \/ NoReceipt => UNCHANGED txs
  BY DEF RegisterReceipt, MarkRegistered, ProveMembership, VoteReceipt, MarkVoted, NoReceipt
<1> QED BY <1>1, <1>2, <1>3, <1>4, <1>5, <1>6 DEF PhoneStep

\* chain.ts castVote, Voting.sol vote: however often the app is killed, retries
\* or is set up again, one vote of its citizen is counted in an election of a
\* division.
THEOREM OneVoteAlways == PhoneSpec => []OneVotePerElection
<1>1. PhoneInit => OneVotePerElection
  <2> SUFFICES ASSUME PhoneInit PROVE OneVotePerElection
    OBVIOUS
  <2>1. txs = <<>>
    BY DEF PhoneInit
  <2> QED BY <2>1 DEF OneVotePerElection
<1>2. Whole /\ OneVotePerElection /\ [PhoneNext]_phoneVars => OneVotePerElection'
  <2> SUFFICES ASSUME Whole, OneVotePerElection, [PhoneNext]_phoneVars
               PROVE  OneVotePerElection'
    OBVIOUS
  <2>1. CASE UNCHANGED txs
    BY <2>1 DEF OneVotePerElection
  <2>2. CASE SubmitRegister \/ SubmitVote
    <3>1. PICK pc \in {"register", "proved"}, kind \in {"register", "vote"} :
              Send(pc, kind, IF pc = "register" THEN "awaitRegister" ELSE "awaitVote")
      BY <2>2 DEF SubmitRegister, SubmitVote
    <3>2. flow.identity \in Identities /\ flow.division \in Divisions
      BY <3>1 DEF Send, Whole, PhoneIInv, FlowInv, OnScreen, Home, Aims, Waiting
    <3>3. \A i \in DOMAIN txs' : \/ i \in DOMAIN txs /\ txs'[i] = txs[i]
                                 \/ txs'[i].status = "sent"
      BY <3>1, <3>2, SendFacts DEF Whole, PhoneIInv
    <3> QED BY <3>3 DEF OneVotePerElection
  <2>3. ASSUME NEW i \in DOMAIN txs, Mined(i) PROVE OneVotePerElection'
    BY <2>3, OneVoteMined
  <2>4. PhoneStep => UNCHANGED txs \/ SubmitRegister \/ SubmitVote
    BY OnlySendsAppend
  <2> QED BY <2>1, <2>2, <2>3, <2>4 DEF PhoneNext, Authorities, phoneVars
<1> QED BY <1>1, <1>2, WholeInit, WholeStep, PTL DEF PhoneSpec
==============================================================================
