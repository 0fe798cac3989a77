------------------------------- MODULE MCCitizen -------------------------------
(***************************************************************************)
(* How a citizen gets onto the roll, and what the phone then does.  Both   *)
(* modules extend NicRegistry; Phone takes the roll as it is given, so TLC *)
(* looks at them one at a time: part is the one that moves, and the other  *)
(* stands still.  A phone of the old layout is followed within smaller     *)
(* bounds than a new one.                                                  *)
(***************************************************************************)
EXTENDS Phone, Enrolment, TLC

CONSTANT d1

\* A phone of the old layout sends this many transactions, in one election,
\* and is not set up again.
OldSends == 2

TwoLeaves == {[nullifier |-> 1, secret |-> 1], [nullifier |-> 2, secret |-> 1]}

\* Two desks of one division.
TwoDesks == [o \in Officers |-> d1]

VARIABLE part

deskVars == <<allowlist, desk, invite, links, request, reset, seen>>
appVars == <<store, flow, txs, told, torn>>
citizenVars == <<part, phoneVars, deskVars>>

CitizenInit ==
    /\ PhoneInit /\ EnrolInit
    /\ part \in IF store = Empty THEN {"desk", "phone"} ELSE {"oldPhone"}

DeskMoves == part = "desk" /\ EnrolNext /\ UNCHANGED <<part, ballot, roll, stage, appVars>>

\* The phone is followed within one epoch of the registry, in which no page
\* takes a division's authority back.  What it sees written to the registry
\* is no desk's work, so the desks' roll lacks it.
PhoneMoves ==
    /\ part # "desk" /\ PhoneNext
    /\ epoch' = 0 /\ authorised \subseteq authorised'
    /\ part = "phone" => flow'.aim # "verify"
    /\ part = "oldPhone" => flow'.pc # "create" /\ Len(txs') <= OldSends /\ electionId' = electionId
    /\ gaps' = Nics
    /\ UNCHANGED <<part, allowlist, desk, invite, links, request, reset, stale>>

CitizenNext == DeskMoves \/ PhoneMoves

CitizenSpec == CitizenInit /\ [][CitizenNext]_citizenVars

Symmetry == Permutations(Devices) \cup Permutations(Officers)
=============================================================================
