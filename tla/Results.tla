---------------------------------- MODULE Results ----------------------------------
(***************************************************************************)
(* What an election's results are read from.  While it runs, the tallies   *)
(* of the divisions are added up by candidate (utils/nationalResults.ts).  *)
(* When it is over nothing on the chain describes it any more but the      *)
(* event log, from which GET /api/election/history rebuilds every past     *)
(* election.                                                               *)
(*                                                                         *)
(* A candidate is what candidateKey makes of a name.  Registrations, which *)
(* are counted as votes are, and the wording of the questions are left out.*)
(***************************************************************************)
EXTENDS SequenceFilter, Functions

CONSTANTS
    Wards,       \* division contracts
    Candidates,
    Ballots,     \* candidate lists an administrator may set
    MaxEvents    \* length of the event log

ASSUME ResultsAssumption ==
    /\ Ballots \subseteq Seq(Candidates) \ {<<>>} /\ MaxEvents \in Nat

VARIABLES
    log,      \* the events of all contracts, in the chain's order
    open,     \* the registry's divisions, in order
    ballotOf, \* s_candidates
    polling,  \* the divisions past Setup
    counts,   \* s_voteCounts, per place on the ballot
    meant,    \* the votes cast in the current election, per candidate
    past,     \* per division, the elections that ended since the last clear
    archive   \* per clear, the elections of the divisions it removed

resultVars == <<log, open, ballotOf, polling, counts, meant, past, archive>>

Event(kind, d, what) == [kind |-> kind, of |-> d, what |-> what]
Emit(e) == Len(log) < MaxEvents /\ log' = Append(log, e)

Places == UNION {DOMAIN b : b \in Ballots}
NoCounts == [i \in Places |-> 0]
NoVotesMeant == [c \in Candidates |-> 0]

Outcome(d) == [candidates |-> ballotOf[d], votes |-> [i \in DOMAIN ballotOf[d] |-> counts[d][i]]]

\* An election without candidates is none.
Ended(d) == IF ballotOf[d] = <<>> THEN past[d] ELSE Append(past[d], Outcome(d))

-----------------------------------------------------------------------------
(* Voting.sol and ElectionRegistry.sol, as far as they emit events.        *)

SetBallot(d, b) ==
    /\ d \in Elements(open) /\ d \notin polling
    /\ Emit(Event("CandidatesUpdated", d, b))
    /\ ballotOf' = [ballotOf EXCEPT ![d] = b]
    /\ UNCHANGED <<open, polling, counts, meant, past, archive>>

OpenPolls(d) ==
    /\ d \notin polling /\ ballotOf[d] # <<>> /\ d \in Elements(open)
    /\ polling' = polling \cup {d}
    /\ UNCHANGED <<log, open, ballotOf, counts, meant, past, archive>>

CastVote(d, i) ==
    /\ d \in polling /\ d \in Elements(open) /\ i \in DOMAIN ballotOf[d]
    /\ Emit(Event("VoteCast", d, i))
    /\ counts' = [counts EXCEPT ![d][i] = @ + 1]
    /\ meant' = [meant EXCEPT ![d][ballotOf[d][i]] = @ + 1]
    /\ UNCHANGED <<open, ballotOf, polling, past, archive>>

Blank(d) == ballotOf' = [ballotOf EXCEPT ![d] = <<>>] /\ polling' = polling \ {d}

ResetBallot(d) ==
    /\ d \in Elements(open)
    /\ Emit(Event("ElectionReset", d, 0))
    /\ past' = [past EXCEPT ![d] = Ended(d)]
    /\ Blank(d)
    /\ counts' = [counts EXCEPT ![d] = NoCounts]
    /\ meant' = [meant EXCEPT ![d] = NoVotesMeant]
    /\ UNCHANGED <<open, archive>>

\* A contract of the page, which is made without a list, or one that was reset
\* before the registry was cleared; one whose reset failed is not listed again.
ListWard(d) ==
    /\ d \notin Elements(open) /\ ballotOf[d] = <<>>
    /\ Emit(Event("DivisionAdded", d, 0))
    /\ open' = Append(open, d)
    /\ UNCHANGED <<ballotOf, polling, counts, meant, past, archive>>

\* The script's contract: its constructor sets the list before it is listed.
DeployWard(d, b) ==
    /\ \A i \in DOMAIN log : log[i].of # d
    /\ Len(log) + 2 <= MaxEvents
    /\ log' = log \o <<Event("CandidatesUpdated", d, b), Event("DivisionAdded", d, 0)>>
    /\ open' = Append(open, d)
    /\ ballotOf' = [ballotOf EXCEPT ![d] = b]
    /\ UNCHANGED <<polling, counts, meant, past, archive>>

ClearWards ==
    /\ open # <<>>
    /\ Emit(Event("DivisionsCleared", 0, 0))
    /\ archive' = Append(archive, [d \in Elements(open) |-> Ended(d)])
    /\ past' = [d \in Wards |-> <<>>]
    /\ open' = <<>>
    /\ UNCHANGED <<ballotOf, polling, counts, meant>>

-----------------------------------------------------------------------------
(* GET /api/election/history.                                              *)

\* Where the events of a kind are, and the k-th of the parts they divide the
\* others into.
Dividers(events, kind) ==
    Those([i \in 1 .. Len(events) |-> i], {i \in 1 .. Len(events) : events[i].kind = kind})

Part(events, kind, k) ==
    LET cuts == Dividers(events, kind)
    IN  SubSeq(events, IF k = 1 THEN 1 ELSE cuts[k - 1] + 1,
                       IF k = Len(cuts) + 1 THEN Len(events) ELSE cuts[k] - 1)

\* Mutant: the events are taken from the beginning of the chain.
CycleFromStart(k) == SubSeq(log, 1, Dividers(log, "DivisionsCleared")[k] - 1)

\* The events between two clears.
Cycle(k) == Part(log, "DivisionsCleared", k)

\* ElectionReset is the divider, and the last part goes on.
Segments(events) ==
    [k \in 1 .. Len(Dividers(events, "ElectionReset")) + 1 |-> Part(events, "ElectionReset", k)]

Lists(segment) == OfKind(segment, "CandidatesUpdated")
VotesFor(segment, i) ==
    Those(segment, {e \in Elements(segment) : e.kind = "VoteCast" /\ e.what = i})

\* The last list is the one that was voted on.
Rebuilt(segment) ==
    LET ballot == Lists(segment)[Len(Lists(segment))].what
    IN  [candidates |-> ballot, votes |-> [i \in DOMAIN ballot |-> Len(VotesFor(segment, i))]]

\* splitIntoElections: a segment without a list is no election.
Told(segments) ==
    LET told == Those(segments, {s \in Elements(segments) : Lists(s) # <<>>})
    IN  [i \in 1 .. Len(told) |-> Rebuilt(told[i])]

OfWard(events, d) ==
    Those(events, {e \in Elements(events) : e.of = d /\ e.kind # "DivisionAdded"})

Concluded(events) ==
    [d \in {e.of : e \in Elements(OfKind(events, "DivisionAdded"))} |->
        Told(Segments(OfWard(events, d)))]

History == [k \in 1 .. Len(Dividers(log, "DivisionsCleared")) |-> Concluded(Cycle(k))]

-----------------------------------------------------------------------------
(* Totals of the election that is running.                                 *)

Sum(f, S) == FoldFunctionOnSet(+, 0, f, S)

\* What a row of counts has beside a name of the list.
Beside(list, row, c) ==
    LET upto[i \in 0 .. Len(list)] ==
            IF i = 0 THEN 0 ELSE upto[i - 1] + (IF list[i] = c THEN row[i] ELSE 0)
    IN  upto[Len(list)]

\* Mutant: a candidate is who has that place on the first division's ballot.
TotalByPlace(c) ==
    Sum([d \in Elements(open) |-> Beside(ballotOf[open[1]], counts[d], c)], Elements(open))

\* aggregateNationalResults, and summarise of the past.
TotalByName(c) ==
    Sum([d \in Elements(open) |-> Beside(ballotOf[d], counts[d], c)], Elements(open))

-----------------------------------------------------------------------------
ResultsInit ==
    /\ log = <<>> /\ open = <<>> /\ polling = {} /\ archive = <<>>
    /\ ballotOf = [d \in Wards |-> <<>>]
    /\ counts = [d \in Wards |-> NoCounts]
    /\ meant = [d \in Wards |-> NoVotesMeant]
    /\ past = [d \in Wards |-> <<>>]

ResultsNext ==
    \/ \E d \in Wards :
        \/ \E b \in Ballots : SetBallot(d, b) \/ DeployWard(d, b)
        \/ \E i \in Places : CastVote(d, i)
        \/ OpenPolls(d) \/ ResetBallot(d) \/ ListWard(d)
    \/ ClearWards

ResultsSpec == ResultsInit /\ [][ResultsNext]_resultVars

-----------------------------------------------------------------------------
\* What the log yields is what was voted: every election of every division
\* that was listed when the registry was cleared, and nothing else, however
\* ballots were revised, single divisions reset and contracts listed again.
HistoryFaithful == History = archive

\* A candidate's national total is the votes cast for the candidate, whichever
\* lists the divisions have and in whichever order.
NationalFaithful ==
    \A c \in Candidates : TotalByName(c) = Sum([d \in Elements(open) |-> meant[d][c]], Elements(open))

\* What is shown of the elections that are over, and of the one that runs,
\* is what was voted (api/election/history/route.ts, nationalResults.ts).
ResultsInv == HistoryFaithful /\ NationalFaithful
=============================================================================
