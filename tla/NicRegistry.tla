------------------------------ MODULE NicRegistry ------------------------------
(***************************************************************************)
(* packages/hardhat/contracts/NicRegistry.sol: the identity ledger that    *)
(* binds a citizen (a NIC hash) to one device, and lets that device claim  *)
(* the citizen's one Merkle-tree registration.  A call that reverts        *)
(* changes nothing, so an action is a call that succeeds.                  *)
(*                                                                         *)
(* The mappings are keyed by s_epoch, which only grows: the ones of the    *)
(* current epoch are kept, the others can never be read again.             *)
(***************************************************************************)
EXTENDS Integers

CONSTANTS
    Owner,        \* the Election Authority's account
    Officers,     \* accounts that may be made GN officers
    Divisions,    \* Voting contracts
    Devices,      \* addresses of voters' phones
    Nics,         \* NIC hashes: one per citizen
    Zero,         \* address(0) and bytes32(0)
    MAX_REISSUES, \* re-issues of one NIC that a GN officer may make
    MaxEpoch      \* clearNicHashes is not called beyond this epoch

ASSUME NicRegistryAssumption ==
    /\ Zero \notin Divisions \cup Devices \cup Nics
    /\ Owner \notin Officers
    /\ MAX_REISSUES \in Nat /\ MaxEpoch \in Nat

VARIABLES
    epoch,       \* s_epoch
    enrolment,   \* s_enrolments[s_epoch]
    binding,     \* s_devices[s_epoch]
    authorised,  \* s_votingContracts
    commits      \* every registration claimed so far: the NicHashCommitted log

nicVars == <<epoch, enrolment, binding, authorised, commits>>

NoEnrolment == [votingContract |-> Zero, device |-> Zero, committed |-> FALSE, issueCount |-> 0]
NoBinding == [nic |-> Zero, status |-> "Unbound"]

Enrolled(n) == enrolment[n].votingContract # Zero
Live(n) == [nic |-> n, status |-> "Live"]

\* onlyOwnerOrGN; gn are the officers the division's contract reports.
MayEnrol(sender, gn, d) == d \in authorised /\ (sender = Owner \/ sender \in gn)

-----------------------------------------------------------------------------
SetVotingContract(d, authorized) ==
    /\ authorised' = IF authorized THEN authorised \cup {d} ELSE authorised \ {d}
    /\ UNCHANGED <<epoch, enrolment, binding, commits>>

ClearNicHashes ==
    /\ epoch < MaxEpoch
    /\ epoch' = epoch + 1
    /\ enrolment' = [n \in Nics |-> NoEnrolment]
    /\ binding' = [v \in Devices |-> NoBinding]
    /\ UNCHANGED <<authorised, commits>>

\* Mutant: a superseded device may be enrolled again.
ReserveNicHashReused(sender, gn, n, d, v) ==
    /\ MayEnrol(sender, gn, d)
    /\ ~Enrolled(n)
    /\ binding[v].status # "Live"
    /\ enrolment' = [enrolment EXCEPT ![n] =
          [votingContract |-> d, device |-> v, committed |-> FALSE, issueCount |-> 0]]
    /\ binding' = [binding EXCEPT ![v] = Live(n)]
    /\ UNCHANGED <<epoch, authorised, commits>>

ReserveNicHash(sender, gn, n, d, v) ==
    /\ MayEnrol(sender, gn, d)
    /\ ~Enrolled(n)
    /\ binding[v].status = "Unbound"
    /\ enrolment' = [enrolment EXCEPT ![n] =
          [votingContract |-> d, device |-> v, committed |-> FALSE, issueCount |-> 0]]
    /\ binding' = [binding EXCEPT ![v] = Live(n)]
    /\ UNCHANGED <<epoch, authorised, commits>>

\* Mutant: the old device is left live.
ReissueDeviceLive(sender, gn, n, d, v) ==
    /\ MayEnrol(sender, gn, d)
    /\ enrolment[n].votingContract = d
    /\ ~enrolment[n].committed
    /\ binding[v].status = "Unbound"
    /\ sender # Owner => enrolment[n].issueCount < MAX_REISSUES
    /\ enrolment' = [enrolment EXCEPT ![n].device = v, ![n].issueCount = @ + 1]
    /\ binding' = [binding EXCEPT ![v] = Live(n)]
    /\ UNCHANGED <<epoch, authorised, commits>>

\* The old device dies in the write that binds the new one.
ReissueDevice(sender, gn, n, d, v) ==
    /\ MayEnrol(sender, gn, d)
    /\ enrolment[n].votingContract = d
    /\ ~enrolment[n].committed
    /\ binding[v].status = "Unbound"
    /\ sender # Owner => enrolment[n].issueCount < MAX_REISSUES
    /\ enrolment' = [enrolment EXCEPT ![n].device = v, ![n].issueCount = @ + 1]
    /\ binding' = [binding EXCEPT ![enrolment[n].device].status = "Superseded", ![v] = Live(n)]
    /\ UNCHANGED <<epoch, authorised, commits>>

\* Mutant: the epoch the window opened under is not compared.
CommitDeviceAnyEpoch(d, v, expectedEpoch) ==
    LET n == binding[v].nic
    IN  /\ d \in authorised
        /\ binding[v].status = "Live"
        /\ enrolment[n].votingContract = d
        /\ ~enrolment[n].committed
        /\ enrolment' = [enrolment EXCEPT ![n].committed = TRUE]
        /\ commits' = commits \cup {[nic |-> n, device |-> v, division |-> d, epoch |-> epoch]}
        /\ UNCHANGED <<epoch, binding, authorised>>

\* Called by division d for the device v that calls its register().
CommitDevice(d, v, expectedEpoch) ==
    LET n == binding[v].nic
    IN  /\ epoch = expectedEpoch
        /\ d \in authorised
        /\ binding[v].status = "Live"
        /\ enrolment[n].votingContract = d
        /\ ~enrolment[n].committed
        /\ enrolment' = [enrolment EXCEPT ![n].committed = TRUE]
        /\ commits' = commits \cup {[nic |-> n, device |-> v, division |-> d, epoch |-> epoch]}
        /\ UNCHANGED <<epoch, binding, authorised>>

-----------------------------------------------------------------------------
NicInit ==
    /\ epoch = 0
    /\ enrolment = [n \in Nics |-> NoEnrolment]
    /\ binding = [v \in Devices |-> NoBinding]
    /\ authorised = {}
    /\ commits = {}

\* Whatever the divisions report as their officers and pin as their epoch.
Enrol(sender, gn, d) ==
    \E n \in Nics, v \in Devices : ReserveNicHash(sender, gn, n, d, v) \/ ReissueDevice(sender, gn, n, d, v)

NicNext ==
    \/ ClearNicHashes
    \/ \E d \in Divisions :
        \/ \E b \in BOOLEAN : SetVotingContract(d, b)
        \/ \E gn \in SUBSET Officers, sender \in Officers \cup {Owner} : Enrol(sender, gn, d)
        \/ \E v \in Devices, e \in 0 .. MaxEpoch : CommitDevice(d, v, e)

NicSpec == NicInit /\ [][NicNext]_nicVars

-----------------------------------------------------------------------------
Enrolments ==
    [votingContract : Divisions, device : Devices, committed : BOOLEAN, issueCount : Nat]
Bindings == [nic : Nics, status : {"Live", "Superseded"}]
Commits == [nic : Nics, device : Devices, division : Divisions, epoch : 0 .. MaxEpoch]

\* The variables keep their shapes, and an enrolment or a binding that exists
\* is complete.
NicTypeOK ==
    /\ epoch \in 0 .. MaxEpoch
    /\ enrolment \in [Nics -> Enrolments \cup {NoEnrolment}]
    /\ binding \in [Devices -> Bindings \cup {NoBinding}]
    /\ authorised \subseteq Divisions
    /\ commits \subseteq Commits

\* However often a citizen's device is re-issued, and in whichever order, the
\* citizen has exactly the device the ledger names, and no other is live.
OneLiveDevice ==
    \A n \in Nics : \A v \in Devices :
        binding[v] = Live(n) <=> Enrolled(n) /\ enrolment[n].device = v

\* One citizen, one registration: no two claims of one NIC within an epoch,
\* from any two divisions or devices.
OneCommit ==
    \A c1, c2 \in commits : c1.nic = c2.nic /\ c1.epoch = c2.epoch => c1 = c2

\* The device that registered is the citizen's device for the rest of the
\* epoch: a loss claimed after registering replaces nothing.
CommitFinal ==
    \A n \in Nics :
        enrolment[n].committed <=>
            \E c \in commits : /\ c.nic = n /\ c.epoch = epoch
                               /\ c.device = enrolment[n].device
                               /\ c.division = enrolment[n].votingContract

\* No claim is dated after the current epoch, and one of the current epoch
\* is on its enrolment.
CommitsDated ==
    \A c \in commits : c.epoch <= epoch /\ (c.epoch = epoch => enrolment[c.nic].committed)

NicInv == NicTypeOK /\ OneLiveDevice /\ OneCommit /\ CommitFinal /\ CommitsDated

\* A superseded phone stays dead: no sequence of calls within an epoch makes
\* it able to register again.
SupersededForever ==
    [][\A v \in Devices :
          binding[v].status = "Superseded" /\ epoch' = epoch => binding'[v] = binding[v]]_nicVars
=============================================================================
