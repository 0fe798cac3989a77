------------------------------- MODULE ElectionAdmin -------------------------------
(***************************************************************************)
(* The Election Authority's page (packages/nextjs/app/voting/admin), which *)
(* calls one contract after the other: the national controls on every      *)
(* division, and the new election, which clears the divisions'  ballots,   *)
(* the division registry and the NIC registry.  Any of the calls may fail, *)
(* or land without an answer; officers and voters go on meanwhile.         *)
(*                                                                         *)
(* The deletion of the officers' accounts, the last step, is module        *)
(* FileStore's.                                                            *)
(***************************************************************************)
EXTENDS Election, Sequences

VARIABLES
    listed,  \* the divisions of ElectionRegistry
    ever,    \* the contracts that were in it at some time
    job      \* what the page is busy with

adminVars == <<vars, listed, ever, job>>

Idle == [kind |-> "idle", todo |-> {}, step |-> 1]

\* Mutant: the NIC records are released while the divisions are still listed.
NicsFirst == <<"ballots", "nics", "list">>

\* handleResetElection's order.
ResetOrder == <<"ballots", "list", "nics">>

Step == ResetOrder[job.step]

Onward == job' = IF job.step = Len(ResetOrder) THEN Idle ELSE [job EXCEPT !.step = @ + 1]

-----------------------------------------------------------------------------
(* One division at a time: run.                                            *)

OnSelected(d) ==
    /\ job = Idle /\ d \in listed
    /\ \/ SetCandidates(d) \/ AddVoters(d)
       \/ StartRegistration(d) \/ StartVoting(d) \/ EndElection(d)
    /\ UNCHANGED <<listed, ever, job>>

\* AddDivisionSection; what can go wrong in it is module DivisionSetup's.
AddDivision(d) ==
    /\ job = Idle /\ d \notin ever
    /\ SetVotingContract(d, TRUE)
    /\ listed' = listed \cup {d} /\ ever' = ever \cup {d}
    /\ UNCHANGED <<ballot, roll, stage, job>>

-----------------------------------------------------------------------------
(* runAll and the first step of a new election, on the divisions the page  *)
(* knows of: it may not have read the newest yet.                          *)

StartJob ==
    /\ job = Idle
    /\ \E kind \in {"candidates", "registration", "voting", "end", "new"}, todo \in SUBSET listed :
          job' = [kind |-> kind, todo |-> todo, step |-> 1]
    /\ UNCHANGED <<vars, listed, ever>>

CallOf(d) ==
    \/ job.kind = "candidates" /\ SetCandidates(d)
    \/ job.kind = "registration" /\ StartRegistration(d)
    \/ job.kind = "voting" /\ StartVoting(d)
    \/ job.kind = "end" /\ EndElection(d)
    \/ job.kind = "new" /\ ResetElection(d)

JobCalls(d) ==
    /\ d \in job.todo
    /\ CallOf(d)
    /\ job' = [job EXCEPT !.todo = @ \ {d}]
    /\ UNCHANGED <<listed, ever>>

\* A failure of any kind is a division skipped.
JobSkips(d) ==
    /\ d \in job.todo
    /\ job' = [job EXCEPT !.todo = @ \ {d}]
    /\ UNCHANGED <<vars, listed, ever>>

JobEnds ==
    /\ job # Idle /\ job.todo = {} /\ job.step = 1
    /\ IF job.kind = "new" THEN Onward ELSE job' = Idle
    /\ UNCHANGED <<vars, listed, ever>>

\* clearDivisions.  Without its answer the page stops.
ClearList(answered) ==
    /\ job.kind = "new" /\ Step = "list"
    /\ listed' = {}
    /\ IF answered THEN Onward ELSE job' = Idle
    /\ UNCHANGED <<vars, ever>>

ListNotCleared ==
    /\ job.kind = "new" /\ Step = "list"
    /\ job' = Idle
    /\ UNCHANGED <<vars, listed, ever>>

\* clearNicHashes, or a warning instead.
ReleaseNics ==
    /\ job.kind = "new" /\ Step = "nics"
    /\ ClearNicHashes
    /\ Onward
    /\ UNCHANGED <<ballot, roll, stage, listed, ever>>

NicsNotReleased ==
    /\ job.kind = "new" /\ Step = "nics"
    /\ Onward
    /\ UNCHANGED <<vars, listed, ever>>

-----------------------------------------------------------------------------
AdminInit == Init /\ listed = {} /\ ever = {} /\ job = Idle

AdminNext ==
    \/ \E d \in Divisions :
        \/ OnSelected(d) \/ AddDivision(d) \/ JobCalls(d) \/ JobSkips(d)
        \/ /\ \/ \E v \in Devices, c \in Commitments : Register(d, v, c)
              \/ \E c \in Commitments : Vote(d, c.nullifier)
              \/ DeadlinePasses(d) \/ EnrolVoter(d)
           /\ UNCHANGED <<listed, ever, job>>
    \/ StartJob \/ JobEnds
    \/ \E answered \in BOOLEAN : ClearList(answered)
    \/ ListNotCleared \/ ReleaseNics \/ NicsNotReleased

AdminSpec == AdminInit /\ [][AdminNext]_adminVars

-----------------------------------------------------------------------------
\* Whatever fails of a new election, a citizen has at most one leaf among the
\* divisions of the registry: they leave it before anyone may enrol again.
ListedOneLeaf ==
    \A d1, d2 \in listed : \A l1 \in leaves[d1], l2 \in leaves[d2] :
        l1.nic = l2.nic => d1 = d2 /\ l1 = l2
=============================================================================
