------------------------------- MODULE Deployment -------------------------------
(***************************************************************************)
(* The configuration of a cluster, which each node checks on its own at    *)
(* boot (internal/config/config.go, consensus.go, cmd/node/main.go,        *)
(* replication.go, consensus.go): nobody compares what two of them were    *)
(* given.  Every node is given what the plan says, but for one variable    *)
(* that may have been mistyped, left out or copied from another node.      *)
(*                                                                         *)
(* An address and a signing key are named by the validator they belong to. *)
(***************************************************************************)
EXTENDS Integers, FiniteSets, SequencesExt

CONSTANTS
    Plan,          \* the names of the validators, in the order of the plan
    Machines,      \* the nodes that are looked at
    Unset          \* a variable without a value

MinValidators == 4

ASSUME DeploymentAssumption ==
    /\ Plan \in Seq(ToSet(Plan)) /\ Len(Plan) >= MinValidators
    /\ IsInjective(Plan)
    /\ Machines \subseteq ToSet(Plan) /\ Unset \notin ToSet(Plan)

VARIABLE running \* the configuration a machine was booted with, if it is up

deploymentVars == <<running>>

-----------------------------------------------------------------------------
(* What is given.                                                          *)

Members == ToSet(Plan)
Entry(name, address) == [name |-> name, address |-> address]
PlannedSet == [i \in DOMAIN Plan |-> Entry(Plan[i], Plan[i])]

Planned(m) ==
    [mode |-> "bft", role |-> "primary", id |-> m, key |-> m, set |-> PlannedSet,
     peers |-> Members \ {m}, rpcURLs |-> Members, quorum |-> 0]

\* An entry lost, twice, with another address, under another name, or in the
\* place of the next.
SetSlips ==
    {RemoveAt(PlannedSet, i) : i \in DOMAIN Plan}
    \cup {Append(PlannedSet, PlannedSet[i]) : i \in DOMAIN Plan}
    \cup {[PlannedSet EXCEPT ![i].address = a] : i \in DOMAIN Plan, a \in Members \cup {Unset}}
    \cup {[PlannedSet EXCEPT ![i].name = Unset] : i \in DOMAIN Plan}
    \cup {[PlannedSet EXCEPT ![i] = PlannedSet[i + 1], ![i + 1] = PlannedSet[i]] : i \in 1 .. Len(Plan) - 1}

Slips(c) ==
    {[c EXCEPT !.mode = "solo"], [c EXCEPT !.role = "replica"]}
    \cup {[c EXCEPT !.id = x] : x \in Members \cup {Unset}}
    \cup {[c EXCEPT !.key = x] : x \in Members \cup {Unset}}
    \cup {[c EXCEPT !.set = s] : s \in SetSlips \cup {<<>>}}
    \cup {[c EXCEPT !.peers = ps] : ps \in {c.peers \ {x} : x \in Members} \cup {{}, Members}}
    \cup {[c EXCEPT !.rpcURLs = us] : us \in {{}, Members \cup {Unset}}}
    \cup {[c EXCEPT !.quorum = q] : q \in 1 .. Len(Plan) + 1}

-----------------------------------------------------------------------------
(* What is checked.                                                        *)

DeriveQuorum(n) == (2 * n + 2) \div 3
EffectiveQuorum(c) == IF c.quorum > 0 THEN c.quorum ELSE DeriveQuorum(Len(c.set))
NamesOf(s) == {s[i].name : i \in DOMAIN s}
AddressesOf(s) == {s[i].address : i \in DOMAIN s}

\* Mutant first: what a solo node does not use is ignored.
NoConsensusSettingsIgnored(c) == TRUE
NoConsensusSettings(c) ==
    /\ c.id = Unset /\ c.key = Unset /\ c.quorum = 0
    /\ c.set = <<>> /\ c.peers = {} /\ c.rpcURLs = {}

\* Mutant first: that there is a key is enough.
SigningKeyGiven(c) == c.key # Unset
SigningKeyValid(c) ==
    /\ c.key # Unset
    /\ \A i \in DOMAIN c.set : c.set[i].name = c.id => c.set[i].address = c.key

\* Mutant first: a peer that is not in the set is not an error.
PeersReached(c) == c.peers # {} /\ NamesOf(c.set) \ {c.id} \subseteq c.peers
PeersValid(c) ==
    /\ c.peers # {} /\ c.peers \subseteq NamesOf(c.set) /\ c.id \notin c.peers
    /\ NamesOf(c.set) \ {c.id} \subseteq c.peers
    /\ c.rpcURLs \subseteq NamesOf(c.set)

QuorumValid(c) == c.quorum = 0 \/ c.quorum \in DeriveQuorum(Len(c.set)) .. Len(c.set)

ValidateBFT(c) ==
    /\ c.role = "primary"
    /\ Len(c.set) >= MinValidators
    /\ Cardinality(NamesOf(c.set)) = Len(c.set) /\ Cardinality(AddressesOf(c.set)) = Len(c.set)
    /\ c.id # Unset /\ c.id \in NamesOf(c.set)
    /\ SigningKeyValid(c) /\ PeersValid(c) /\ QuorumValid(c)

\* Variables of one node only (ports, limits, file names) are taken to be
\* right.
Validate(c) == IF c.mode = "solo" THEN NoConsensusSettings(c) ELSE ValidateBFT(c)

\* startReplication: what a node does with a write.
WritePath(c) ==
    CASE c.mode = "bft" -> "engine"
      [] c.mode = "solo" /\ c.role = "primary" -> "seals"
      [] OTHER -> "forwards"

-----------------------------------------------------------------------------
DeploymentInit == running = [m \in Machines |-> <<>>]

\* Load; log.Fatal if there is an error.
Boot(m) ==
    /\ running[m] = <<>>
    /\ \E c \in {Planned(m)} \cup Slips(Planned(m)) :
        Validate(c) /\ running' = [running EXCEPT ![m] = <<c>>]

Stop(m) == running[m] # <<>> /\ running' = [running EXCEPT ![m] = <<>>]

DeploymentNext == \E m \in Machines : Boot(m) \/ Stop(m)

DeploymentSpec == DeploymentInit /\ [][DeploymentNext]_deploymentVars

-----------------------------------------------------------------------------
\* No slip of one variable a node lets two of them that boot work against
\* each other: none seals alone, each signs as itself, they name the same
\* members and hear all of them, and any two of their quorums have more
\* members in common than may be faulty.  The order of the members, and the
\* addresses of the others, are compared by nobody.
Up == {m \in Machines : running[m] # <<>>}
Given(m) == running[m][1]

DeploymentInv ==
    \A m \in Up :
        /\ WritePath(Given(m)) = "engine"
        /\ Given(m).id = m /\ Given(m).key = m
        /\ \E i \in DOMAIN Given(m).set : Given(m).set[i] = Entry(m, m)
        /\ NamesOf(Given(m).set) = Members /\ Given(m).peers = Members \ {m}
        /\ \A o \in Up :
            EffectiveQuorum(Given(m)) + EffectiveQuorum(Given(o)) - Len(Plan) > (Len(Plan) - 1) \div 3
=============================================================================
