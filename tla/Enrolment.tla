------------------------------- MODULE Enrolment -------------------------------
(***************************************************************************)
(* How a citizen's phone gets onto the roll: at a GN officer's desk        *)
(* (packages/nextjs/app/gn/register/page.tsx) or by a link sent over SMS   *)
(* (api/voter-roll/bulk, api/self-enrol, services/voters).  Either way two *)
(* transactions are sent one after the other, NicRegistry.sol's and        *)
(* Voting.addVoters, each of which may fail, or land with its answer lost, *)
(* while other desks and requests are at work on the same citizen, and     *)
(* while the Election Authority's page clears one contract after the other *)
(* for a new election.                                                     *)
(*                                                                         *)
(* allowlist is what Voting.sol keeps in s_voters.  Its phases are left    *)
(* out: a call it refuses is a call that fails.                            *)
(***************************************************************************)
EXTENDS NicRegistry

CONSTANTS
    DivisionOf,   \* the division an officer serves
    Requests      \* POSTs to /api/self-enrol

ASSUME EnrolmentAssumption == DivisionOf \in [Officers -> Divisions]

VARIABLES
    allowlist,  \* the voters of each division
    desk,       \* the enrolment page of each officer
    invite,     \* data/enrolment-invites.json
    links,      \* tokens sent and not expired: they are not stored anywhere
    request,    \* each request's progress
    reset,      \* the page that starts a new election, and the divisions it has before it
    gaps,       \* observed: citizens whose phone a failure or a reset left off the roll
    stale       \* observed: entries of the roll that are of an epoch before

seen == <<gaps, stale>>
enrolVars == <<nicVars, allowlist, desk, invite, links, request, reset, seen>>

NoInvite == [status |-> "none", division |-> Zero, epoch |-> 0]

\* planned and landed are observed: the epoch in which a replacement was
\* planned, and the one the registry was written in.
Form(n, v) == [pc |-> "form", nic |-> n, device |-> v, previous |-> Zero, planned |-> 0, landed |-> 0]
EmptyForm == Form(Zero, Zero)
Asks(pc, n, v, d) == [pc |-> pc, nic |-> n, device |-> v, division |-> d, landed |-> 0]
NoRequest == Asks("idle", Zero, Zero, Zero)
Answered == Asks("done", Zero, Zero, Zero)
ResetAt(pc, todo) == [pc |-> pc, todo |-> todo]
NoReset == ResetAt("idle", {})

Gn(d) == {o \in Officers : DivisionOf[o] = d}

\* Whose phone this is, for the registry.
Holders(d, v) == {n \in Nics : enrolment[n].votingContract = d /\ enrolment[n].device = v}

-----------------------------------------------------------------------------
(* The officer's desk.                                                     *)

\* The NIC is typed and the phone's address scanned.  Scanning takes back the
\* confirmation that was asked for another address.
FillForm(o, n, v) ==
    /\ desk[o].pc = "form"
    /\ desk' = [desk EXCEPT ![o] = Form(n, v)]
    /\ UNCHANGED <<nicVars, allowlist, invite, links, request, reset, seen>>

\* planEnrolment: what the registry says of this citizen decides what the
\* enrolment is; three of the five outcomes refuse it.
Plan(o) ==
    LET e == enrolment[desk[o].nic]
    IN  IF e.votingContract = Zero THEN "new"
        ELSE IF e.committed THEN "committed"
        ELSE IF e.votingContract # DivisionOf[o] THEN "otherDivision"
        ELSE IF e.device = desk[o].device THEN "nothingToDo"
        ELSE "reissue"

\* handleSubmit up to its first write.  A replacement has to be confirmed.
Submit(o) ==
    LET plan == Plan(o)
    IN  /\ desk[o].pc = "form" /\ desk[o].nic # Zero /\ desk[o].previous = Zero
        /\ desk' = [desk EXCEPT
              ![o].pc = IF plan = "new" THEN "reserve" ELSE "form",
              ![o].previous = IF plan = "reissue" THEN enrolment[desk[o].nic].device ELSE Zero,
              ![o].planned = IF plan = "reissue" THEN epoch ELSE 0]
        /\ UNCHANGED <<nicVars, allowlist, invite, links, request, reset, seen>>

\* The replacement is confirmed: nothing is read again.
Confirm(o) ==
    /\ desk[o].pc = "form" /\ desk[o].previous # Zero
    /\ desk' = [desk EXCEPT ![o].pc = "reissue"]
    /\ UNCHANGED <<nicVars, allowlist, invite, links, request, reset, seen>>

\* An error is reported, and the form stays as it is: what was asked to be
\* confirmed with it.
Stops(o) == desk' = [desk EXCEPT ![o].pc = "form", ![o].landed = 0]

\* The write to the registry lands; if its answer is lost the page stops.
WriteRegistry(o) ==
    LET d == DivisionOf[o]
    IN  /\ \/ desk[o].pc = "reserve" /\ ReserveNicHash(o, Gn(d), desk[o].nic, d, desk[o].device)
           \/ desk[o].pc = "reissue" /\ ReissueDevice(o, Gn(d), desk[o].nic, d, desk[o].device)
        /\ \/ /\ desk' = [desk EXCEPT ![o].pc = "allow", ![o].landed = epoch]
              /\ UNCHANGED gaps
           \/ /\ Stops(o)
              /\ gaps' = gaps \cup {desk[o].nic}
        /\ UNCHANGED <<allowlist, invite, links, request, reset, stale>>

\* Mutant: the answer of the first write is not looked at.
RegistryFailsUnread(o) ==
    /\ desk[o].pc \in {"reserve", "reissue"}
    /\ desk' = [desk EXCEPT ![o].pc = "allow", ![o].landed = epoch]
    /\ UNCHANGED <<nicVars, allowlist, invite, links, request, reset, seen>>

\* It reverts, or never gets to the chain.
RegistryFails(o) ==
    /\ desk[o].pc \in {"reserve", "reissue"}
    /\ Stops(o)
    /\ UNCHANGED <<nicVars, allowlist, invite, links, request, reset, seen>>

\* What is observed of a write that puts a phone on the roll, after a call to
\* the registry in an epoch, and takes off the ones of some other citizens.
Observe(d, v, landed, others) ==
    /\ gaps' = (gaps \cup others) \ Holders(d, v)
    /\ stale' = IF landed = epoch THEN stale \ {<<d, v>>} ELSE stale \cup {<<d, v>>}

\* Within an epoch nobody holds the phone that was replaced.
Bereft(o) ==
    IF desk[o].planned = epoch THEN {} ELSE Holders(DivisionOf[o], desk[o].previous)

\* Mutant: the two statuses of a replacement are the wrong way round.
WriteAllowlistSwapped(o) ==
    LET d == DivisionOf[o]
    IN  /\ desk[o].pc = "allow"
        /\ allowlist' = [allowlist EXCEPT ![d] =
              IF desk[o].previous = Zero THEN @ \cup {desk[o].device}
                                         ELSE (@ \ {desk[o].device}) \cup {desk[o].previous}]
        /\ desk' = [desk EXCEPT ![o] = EmptyForm] \/ Stops(o)
        /\ Observe(d, desk[o].device, desk[o].landed, Bereft(o))
        /\ UNCHANGED <<nicVars, invite, links, request, reset>>

\* addVoters: the phone is put on the roll and the one it replaces taken off
\* in the same call.  Its answer may be lost; after it the page offers
\* nothing but the next voter.
WriteAllowlist(o) ==
    LET d == DivisionOf[o]
    IN  /\ desk[o].pc = "allow"
        /\ allowlist' = [allowlist EXCEPT ![d] = (@ \ {desk[o].previous}) \cup {desk[o].device}]
        /\ desk' = [desk EXCEPT ![o] = EmptyForm] \/ Stops(o)
        /\ Observe(d, desk[o].device, desk[o].landed, Bereft(o))
        /\ UNCHANGED <<nicVars, invite, links, request, reset>>

AllowlistFails(o) ==
    /\ desk[o].pc = "allow"
    /\ Stops(o)
    /\ gaps' = gaps \cup {desk[o].nic}
    /\ UNCHANGED <<nicVars, allowlist, invite, links, request, reset, stale>>

-----------------------------------------------------------------------------
(* Invites and self-enrolment.                                             *)

\* One row of a voter roll: the invite is written first, the link sent after.
ImportRow(n, d) ==
    /\ invite[n].status # "claimed"
    /\ invite' = [invite EXCEPT ![n] = [status |-> "pending", division |-> d, epoch |-> 0]]
    /\ \E sent \in BOOLEAN :
          links' = IF sent THEN links \cup {[nic |-> n, division |-> d]} ELSE links
    /\ UNCHANGED <<nicVars, allowlist, desk, request, reset, seen>>

LinkExpires(l) ==
    /\ links' = links \ {l}
    /\ UNCHANGED <<nicVars, allowlist, desk, invite, request, reset, seen>>

\* Mutant: the invite is marked before the chain is asked.
OpenAndClaim(r, l, v) ==
    /\ request[r].pc = "idle"
    /\ invite[l.nic].status = "pending" /\ invite[l.nic].division = l.division
    /\ invite' = [invite EXCEPT ![l.nic].status = "claimed", ![l.nic].epoch = epoch]
    /\ request' = [request EXCEPT ![r] = Asks("reserve", l.nic, v, l.division)]
    /\ UNCHANGED <<nicVars, allowlist, desk, links, reset, seen>>

\* A link is opened on a phone: the invite is read, and the request goes on
\* with what it read.
OpenLink(r, l, v) ==
    /\ request[r].pc = "idle"
    /\ invite[l.nic].status = "pending" /\ invite[l.nic].division = l.division
    /\ request' = [request EXCEPT ![r] = Asks("reserve", l.nic, v, l.division)]
    /\ UNCHANGED <<nicVars, allowlist, desk, invite, links, reset, seen>>

\* executeSelfEnrol's first write, with the owner's key.
ReserveForLink(r) ==
    LET q == request[r]
    IN  /\ q.pc = "reserve"
        /\ ReserveNicHash(Owner, Gn(q.division), q.nic, q.division, q.device)
        /\ \/ /\ request' = [request EXCEPT ![r].pc = "allow", ![r].landed = epoch]
              /\ UNCHANGED gaps
           \/ /\ request' = [request EXCEPT ![r] = Answered]
              /\ gaps' = gaps \cup {q.nic}
        /\ UNCHANGED <<allowlist, desk, invite, links, reset, stale>>

ReserveForLinkFails(r) ==
    /\ request[r].pc = "reserve"
    /\ request' = [request EXCEPT ![r] = Answered]
    /\ UNCHANGED <<nicVars, allowlist, desk, invite, links, reset, seen>>

\* Its second: a failure undoes nothing, and leaves the invite pending.
AllowForLink(r) ==
    LET q == request[r]
    IN  /\ q.pc = "allow"
        /\ \/ /\ allowlist' = [allowlist EXCEPT ![q.division] = @ \cup {q.device}]
              /\ request' = [request EXCEPT ![r].pc = "claim"]
              /\ Observe(q.division, q.device, q.landed, {})
           \/ /\ request' = [request EXCEPT ![r] = Answered]
              /\ gaps' = gaps \cup {q.nic}
              /\ UNCHANGED <<allowlist, stale>>
        /\ UNCHANGED <<nicVars, desk, invite, links, reset>>

\* The pending invite of this NIC is marked, whichever import wrote it; an
\* error here is not reported.
ClaimInvite(r) ==
    LET n == request[r].nic
    IN  /\ request[r].pc = "claim"
        /\ request' = [request EXCEPT ![r] = Answered]
        /\ \/ invite[n].status = "pending"
              /\ invite' = [invite EXCEPT ![n].status = "claimed", ![n].epoch = request[r].landed]
           \/ UNCHANGED invite
        /\ UNCHANGED <<nicVars, allowlist, desk, links, reset, seen>>

-----------------------------------------------------------------------------
\* setVotingContract, which creating a division ends with.
AuthoriseDivision(d) ==
    /\ SetVotingContract(d, TRUE)
    /\ UNCHANGED <<allowlist, desk, invite, links, request, reset, seen>>

\* register() on an allowlisted phone.
RegisterPhone(d, v) ==
    /\ v \in allowlist[d]
    /\ CommitDevice(d, v, epoch)
    /\ UNCHANGED <<allowlist, desk, invite, links, request, reset, seen>>

-----------------------------------------------------------------------------
(* A new election: handleResetElection.  The desks, the requests, the      *)
(* invites and the links stay as they are.                                 *)

StartReset ==
    /\ reset = NoReset
    /\ reset' = ResetAt("ballots", Divisions)
    /\ UNCHANGED <<nicVars, allowlist, desk, invite, links, request, seen>>

\* resetElection of one division empties its roll, and not the registry.
ResetDivision(d) ==
    /\ reset.pc = "ballots" /\ d \in reset.todo
    /\ reset' = [reset EXCEPT !.todo = @ \ {d}]
    /\ allowlist' = [allowlist EXCEPT ![d] = {}]
    /\ gaps' = gaps \cup {n \in Nics : enrolment[n].votingContract = d}
    /\ stale' = {e \in stale : e[1] # d}
    /\ UNCHANGED <<nicVars, desk, invite, links, request>>

\* Its failure is logged, and the next division is next.
ResetSkips(d) ==
    /\ reset.pc = "ballots" /\ d \in reset.todo
    /\ reset' = [reset EXCEPT !.todo = @ \ {d}]
    /\ UNCHANGED <<nicVars, allowlist, desk, invite, links, request, seen>>

\* clearDivisions, whose list is module ElectionAdmin's: without an answer the
\* page stops here.
ListCleared ==
    /\ reset.pc = "ballots" /\ reset.todo = {}
    /\ reset' \in {ResetAt("nics", {}), NoReset}
    /\ UNCHANGED <<nicVars, allowlist, desk, invite, links, request, seen>>

\* clearNicHashes: a roll that was not emptied is of the epoch before.
ReleaseEnrolments ==
    /\ reset.pc = "nics"
    /\ ClearNicHashes
    /\ reset' = NoReset
    /\ gaps' = {}
    /\ stale' = {e \in Divisions \X Devices : e[2] \in allowlist[e[1]]}
    /\ UNCHANGED <<allowlist, desk, invite, links, request>>

\* Its failure is a warning.
EnrolmentsKept ==
    /\ reset.pc = "nics"
    /\ reset' = NoReset
    /\ UNCHANGED <<nicVars, allowlist, desk, invite, links, request, seen>>

EnrolInit ==
    /\ NicInit
    /\ allowlist = [d \in Divisions |-> {}]
    /\ desk = [o \in Officers |-> EmptyForm]
    /\ invite = [n \in Nics |-> NoInvite]
    /\ links = {}
    /\ request = [r \in Requests |-> NoRequest]
    /\ reset = NoReset
    /\ gaps = {} /\ stale = {}

AtDesk(o) ==
    \/ \E n \in Nics, v \in Devices : FillForm(o, n, v)
    \/ Submit(o) \/ Confirm(o)
    \/ WriteRegistry(o) \/ RegistryFails(o)
    \/ WriteAllowlist(o) \/ AllowlistFails(o)

ByLink(r) ==
    \/ \E l \in links, v \in Devices : OpenLink(r, l, v)
    \/ ReserveForLink(r) \/ ReserveForLinkFails(r) \/ AllowForLink(r) \/ ClaimInvite(r)

NewElection ==
    \/ StartReset \/ ListCleared \/ ReleaseEnrolments \/ EnrolmentsKept
    \/ \E d \in Divisions : ResetDivision(d) \/ ResetSkips(d)

EnrolNext ==
    \/ \E o \in Officers : AtDesk(o)
    \/ \E n \in Nics, d \in Divisions : ImportRow(n, d)
    \/ \E l \in links : LinkExpires(l)
    \/ \E r \in Requests : ByLink(r)
    \/ \E d \in Divisions : AuthoriseDivision(d)
    \/ \E d \in Divisions, v \in Devices : RegisterPhone(d, v)
    \/ NewElection

EnrolSpec == EnrolInit /\ [][EnrolNext]_enrolVars

-----------------------------------------------------------------------------
\* A phone is on a division's roll only if the registry has bound it to a
\* citizen of that division: the roll never runs ahead of the registry, at
\* any desk and for any link.  Only what a failed reset, or an enrolment begun
\* before it, left there of an earlier epoch is bound to nobody.
AllowlistBound ==
    \A d \in Divisions : \A v \in allowlist[d] :
        \/ <<d, v>> \in stale
        \/ binding[v].status # "Unbound" /\ enrolment[binding[v].nic].votingContract = d

\* An enrolment leaves no gap unless one of its two writes failed: the phone
\* a citizen has to register with is on the roll as soon as nobody is still
\* working on it, even when two desks replaced phones at once.  A reset of
\* the division takes it off, and so may a desk that planned before the
\* epoch; a later write of it puts it on again.
InProgress(n) ==
    \/ \E o \in Officers : desk[o].pc = "allow" /\ desk[o].nic = n
    \/ \E r \in Requests : request[r].pc = "allow" /\ request[r].nic = n

LivePhoneAllowed ==
    \A n \in Nics :
        Enrolled(n) /\ n \notin gaps /\ ~InProgress(n)
        => enrolment[n].device \in allowlist[enrolment[n].votingContract]

\* An invite that is marked claimed belongs to a citizen the registry has
\* enrolled, in the epoch the claimed enrolment landed in.
ClaimedEnrolled ==
    \A n \in Nics :
        invite[n].status = "claimed" /\ invite[n].epoch = epoch => Enrolled(n)

\* The roll never runs ahead of the registry, and does not stay behind it
\* unless a write failed; an invite is claimed only by a citizen the registry
\* holds (page.tsx handleSubmit, selfEnrolRelay.ts, enrolmentInvites.ts claim).
EnrolmentInv == AllowlistBound /\ LivePhoneAllowed /\ ClaimedEnrolled
=============================================================================
