----------------------------- MODULE ChainReaders -----------------------------
(***************************************************************************)
(* Reading the chain while it grows.  eth_getLogs (internal/rpc/eth_logs.  *)
(* go, internal/chain/logs.go) answers without a lock and within a range   *)
(* limit; the web application's routes put an answer together from several *)
(* calls, each of which may see a later head: the Merkle path of a         *)
(* commitment (api/merkle-path), whether a ballot was counted              *)
(* (api/verify-vote), the log behind the past elections                    *)
(* (api/election/history).                                                 *)
(*                                                                         *)
(* The chain is that of one division and of the registry; a block stands   *)
(* for its hash, and holds what its one transaction logged.  The leaves    *)
(* and the spent nullifiers of the current election are the contract's     *)
(* state after the block.                                                  *)
(***************************************************************************)
EXTENDS Integers, FiniteSets, SequencesExt, SequenceFilter

CONSTANTS
    Leaves,         \* commitments
    Ballots,        \* a nullifier and the candidate it is spent on
    LogRangeLimit,  \* blocks of one query; 0 is no limit
    BlockChunk,     \* blocks the history asks for at a time
    MaxHead

ASSUME ReadersAssumption ==
    /\ {LogRangeLimit, MaxHead} \subseteq Nat /\ BlockChunk \in Nat \ {0}
    /\ LogRangeLimit = 0 \/ BlockChunk <= LogRangeLimit

VARIABLES
    sealed, \* the blocks, genesis first
    request \* one client's: what it has read so far

readerVars == <<sealed, request>>

-----------------------------------------------------------------------------
(* The chain.                                                              *)

Log(a, topics, data) == [address |-> a, topics |-> topics, data |-> data]
NewLeaf(i, c) == Log("division", <<"NewLeaf">>, [index |-> i, value |-> c])
VoteCast(b) == Log("division", <<"VoteCast", b.nullifier>>, b.candidate)
ElectionReset == Log("division", <<"ElectionReset">>, 0)
DivisionAdded == Log("registry", <<"DivisionAdded">>, 0)

\* What is in a block's bloom for certain; others may be there by chance.
Items(logs) == UNION {{l.address} \cup ToSet(l.topics) : l \in ToSet(logs)}

GenesisBlock == [logs |-> <<>>, bloom |-> {}, leaves |-> <<>>, spent |-> {}]
Top == Len(sealed) - 1
At(n) == sealed[n + 1]
Head0 == At(Top)

Sealed(logs, chance, leaves, spent) ==
    /\ Top < MaxHead
    /\ sealed' = Append(sealed, [logs |-> logs, bloom |-> Items(logs) \cup chance,
                                 leaves |-> leaves, spent |-> spent])
    /\ UNCHANGED request

Registers == \E c \in Leaves :
    /\ c \notin ToSet(Head0.leaves) /\ Head0.spent = {}
    /\ Sealed(<<NewLeaf(Len(Head0.leaves), c)>>, {}, Append(Head0.leaves, c), {})

\* s_nullifierHashes is of one election: after a reset a nullifier can be
\* spent again, if the phone kept its secrets.
Casts == \E b \in Ballots :
    /\ Head0.leaves # <<>>
    /\ \A x \in Head0.spent : x.nullifier # b.nullifier
    /\ Sealed(<<VoteCast(b)>>, {}, Head0.leaves, Head0.spent \cup {b})

Resets == Head0.leaves # <<>> /\ Sealed(<<ElectionReset>>, {}, <<>>, {})
Adds == Sealed(<<DivisionAdded>>, {"division"}, Head0.leaves, Head0.spent)
Empty == Sealed(<<>>, {}, Head0.leaves, Head0.spent)

-----------------------------------------------------------------------------
(* eth_getLogs.                                                            *)

\* The tags of go-ethereum's BlockNumber, which are negative.
Earliest == -5
Safe == -4
Finalized == -3
Latest == -2
Pending == -1
NoTag == -6

\* A filter that names a block by its number in place of its hash.
Filter(from, to, addresses, topics) ==
    [blockHash |-> {}, from |-> from, to |-> to, addresses |-> addresses, topics |-> topics]
OfBlock(n, addresses, topics) ==
    [Filter(NoTag, NoTag, addresses, topics) EXCEPT !.blockHash = {n}]

\* decodeTopicPosition: null, the empty list and a list with null in it are
\* wildcards.
Wildcard == {}
Decoded(list) == IF "null" \in list THEN Wildcard ELSE list

\* resolveLogRange; a number after the head is left for the caller to clamp.
Resolve(tag) ==
    CASE tag \in {NoTag, Safe, Finalized, Latest, Pending} -> Top
      [] tag = Earliest -> 0
      [] OTHER -> tag
LogRange(f) == [from |-> Resolve(f.from),
                to |-> IF Resolve(f.to) > Top THEN Top ELSE Resolve(f.to)]

BloomMatches(bloom, f) ==
    /\ f.addresses # {} => f.addresses \cap bloom # {}
    /\ \A i \in DOMAIN f.topics : f.topics[i] # Wildcard => f.topics[i] \cap bloom # {}

\* A surplus position rejects, even a wildcard.  Mutant first: it does not.
MatchLogPadded(l, f) ==
    /\ f.addresses # {} => l.address \in f.addresses
    /\ \A i \in DOMAIN f.topics :
        f.topics[i] # Wildcard => i \in DOMAIN l.topics /\ l.topics[i] \in f.topics[i]

MatchLog(l, f) ==
    /\ f.addresses # {} => l.address \in f.addresses
    /\ Len(f.topics) <= Len(l.topics)
    /\ \A i \in DOMAIN f.topics : f.topics[i] # Wildcard => l.topics[i] \in f.topics[i]

\* appendBlockLogs, with what deriveReceiptFields adds to a log.
BlockLogs(n, f) ==
    LET numbered == [i \in DOMAIN At(n).logs |-> [log |-> At(n).logs[i], block |-> n, index |-> i - 1]]
    IN  Those(numbered, {x \in Elements(numbered) : MatchLog(x.log, f)})

Failure(code) == [error |-> code, logs |-> <<>>]
Found(logs) == [error |-> "none", logs |-> logs]

\* FilterLogs, and mapFilterError.
GetLogs(f) ==
    LET r == LogRange(f)
    IN  IF f.blockHash # {}
        THEN IF f.from # NoTag \/ f.to # NoTag THEN Failure("conflict")
             ELSE LET n == CHOOSE n \in f.blockHash : TRUE
                  IN  IF n > Top THEN Failure("blockNotFound") ELSE Found(BlockLogs(n, f))
        ELSE IF r.from > r.to THEN Found(<<>>)
        ELSE IF LogRangeLimit > 0 /\ r.to - r.from + 1 > LogRangeLimit THEN Failure("range")
        ELSE Found(Joined([i \in 1 .. r.to - r.from + 1 |->
                LET n == r.from + i - 1
                IN  IF BloomMatches(At(n).bloom, f) THEN BlockLogs(n, f) ELSE <<>>]))

-----------------------------------------------------------------------------
(* The routes.                                                             *)

Idle == [pc |-> "idle"]
Nothing == [leaves |-> <<>>, candidate |-> {}, logs |-> <<>>]
Start(route) ==
    /\ request = Idle
    /\ request' = [pc |-> route, at |-> Top, asked |-> 0, answer |-> Nothing, begun |-> Top]
    /\ UNCHANGED sealed

\* getVotingData, and isNullifierUsed: an eth_call at the head of the moment.
AskPath == Head0.leaves # <<>> /\ Start("path")
AskVerify == \E b \in Head0.spent :
    /\ request = Idle
    /\ request' = [pc |-> "verify", at |-> Top, asked |-> b.nullifier, answer |-> Nothing, begun |-> Top]
    /\ UNCHANGED sealed
\* getBlockNumber; the events of the registry are asked for first.
AskHistory ==
    /\ request = Idle
    /\ request' = [pc |-> "registry", at |-> Top, asked |-> 0, answer |-> Nothing, begun |-> Top]
    /\ UNCHANGED sealed

Goes(pc, asked, answer) ==
    /\ request' = [pc |-> pc, at |-> Top, asked |-> asked, answer |-> answer, begun |-> request.begun]
    /\ UNCHANGED sealed
Answered(pc, answer) == Goes(pc, request.asked, answer)

LastOf(s, n) == SubSeq(s, Len(s) - n + 1, Len(s))

\* Sorted by index, equals in the order they had.
Place(s, i) ==
    Cardinality({j \in DOMAIN s :
        \/ s[j].log.data.index < s[i].log.data.index
        \/ s[j].log.data.index = s[i].log.data.index /\ j < i}) + 1
ByIndex(s) == [k \in DOMAIN s |-> s[CHOOSE i \in DOMAIN s : Place(s, i) = k]]

\* The current election owns the last treeSize leaves.  Mutant first: it owns
\* those from the beginning.
OwnLeavesFirst(logs, n) == SubSeq(logs, 1, n)
OwnLeaves(logs, n) == ByIndex(LastOf(logs, n))

ReadLeaves ==
    LET r == GetLogs(Filter(0, Latest, {"division"}, <<{"NewLeaf"}>>))
        size == Len(At(request.begun).leaves)
    IN  /\ request.pc = "path"
        /\ IF r.error # "none" \/ Len(r.logs) < size THEN Answered("failed", Nothing)
           ELSE Answered("pathAnswered", [Nothing EXCEPT !.leaves =
                    [i \in 1 .. size |-> OwnLeaves(r.logs, size)[i].log.data.value]])

ReadVote ==
    LET r == GetLogs(Filter(0, Latest, {"division"}, <<{"VoteCast"}, {request.asked}>>))
    IN  /\ request.pc = "verify"
        /\ IF r.error # "none" THEN Answered("failed", Nothing)
           ELSE Answered("verifyAnswered", [Nothing EXCEPT !.candidate =
                    IF r.logs = <<>> THEN {} ELSE {r.logs[1].log.data}])

\* getLogsPaged, one window.  Mutant first: a window is not cut off at the
\* head that was read.
Windows == {"registry", "division"}
WindowEndUncut == request.asked + BlockChunk - 1
WindowEnd ==
    IF request.asked + BlockChunk - 1 > request.begun THEN request.begun
    ELSE request.asked + BlockChunk - 1

ReadWindow ==
    LET r == GetLogs(Filter(request.asked, WindowEnd, {request.pc}, <<>>))
        last == request.asked + BlockChunk > request.begun
        read == [Nothing EXCEPT !.logs = request.answer.logs \o r.logs]
    IN  /\ request.pc \in Windows
        /\ \/ r.error # "none" /\ Answered("failed", Nothing)
           \/ r.error = "none" /\ ~last /\ Goes(request.pc, request.asked + BlockChunk, read)
           \/ r.error = "none" /\ last
              /\ Goes(IF request.pc = "registry" THEN "division" ELSE "historyAnswered", 0, read)

Done ==
    /\ request.pc \in {"failed", "pathAnswered", "verifyAnswered", "historyAnswered"}
    /\ request' = Idle
    /\ UNCHANGED sealed

-----------------------------------------------------------------------------
ReadersInit == sealed = <<GenesisBlock>> /\ request = Idle

ReadersNext ==
    \/ Registers \/ Casts \/ Resets \/ Adds \/ Empty
    \/ AskPath \/ AskVerify \/ AskHistory
    \/ ReadLeaves \/ ReadVote \/ ReadWindow \/ Done

ReadersSpec == ReadersInit /\ [][ReadersNext]_readerVars

-----------------------------------------------------------------------------
\* eth_getLogs returns what a scan of every log of the range would, whatever
\* the blooms hold by chance, and in the order of the chain.
Wanted(l, f) ==
    /\ f.addresses = {} \/ l.address \in f.addresses
    /\ \A i \in DOMAIN f.topics :
        i \in DOMAIN l.topics /\ (f.topics[i] = Wildcard \/ l.topics[i] \in f.topics[i])

SomeRanges == {<<Earliest, NoTag>>, <<Earliest, Top + 1>>, <<Top, Top + 1>>, <<Top, 0>>}
SomeShapes ==
    {<<{}, <<{"NewLeaf", "VoteCast"}>>>>, <<{"division"}, <<Decoded({"NewLeaf", "null"}), Wildcard>>>>}
SomeFilters ==
    {Filter(range[1], range[2], shape[1], shape[2]) : range \in SomeRanges, shape \in SomeShapes}
    \cup {OfBlock(n, {}, <<>>) : n \in {Top, Top + 1}}

Exact(f) ==
    LET r == GetLogs(f)
        inRange == IF f.blockHash # {} THEN f.blockHash
                   ELSE {n \in 0 .. Top : Resolve(f.from) <= n /\ n <= Resolve(f.to)}
    IN  r.error = "none" =>
            /\ {<<x.block, x.log>> : x \in ToSet(r.logs)}
                = UNION {{<<n, l>> : l \in {x \in ToSet(At(n).logs) : Wanted(x, f)}} : n \in inRange}
            /\ \A i, j \in DOMAIN r.logs :
                    i < j /\ r.logs[i].block = r.logs[j].block => r.logs[i].index < r.logs[j].index
            /\ \A i, j \in DOMAIN r.logs : i < j => r.logs[i].block <= r.logs[j].block

LogsExact == \A f \in SomeFilters : Exact(f)

\* A Merkle path is of the contract's own tree if no leaf was sealed between
\* the two reads, as while votes are cast; not of that of an election before.
PathOfTree ==
    request.pc = "pathAnswered" /\ At(request.begun).leaves = At(request.at).leaves
        => request.answer.leaves = At(request.at).leaves

\* What the contract counted for a nullifier, in the election of a block.
Counted(n, x) == {b.candidate : b \in {y \in At(n).spent : y.nullifier = x}}

\* verify-vote/route.ts:8 "also returns the candidate the vote counted for":
\* who voted is shown the candidate counted in the election that was asked.
VerifiedAsCast ==
    request.pc = "verifyAnswered"
        => request.answer.candidate = Counted(request.begun, request.asked)

\* It is shown unless an earlier election spent the nullifier too.
Reused ==
    \E m, n \in 0 .. request.begun :
        m < n /\ Counted(m, request.asked) # {} /\ Counted(n, request.asked) = {}
VerifiedUnlessReused == VerifiedAsCast \/ Reused

\* In any case it is a vote that was counted, in the first election that
\* spent the nullifier.
VerifiedAsFirstCast ==
    request.pc = "verifyAnswered" =>
        \E n \in 0 .. request.begun :
            /\ Counted(n, request.asked) = request.answer.candidate
            /\ request.answer.candidate # {}
            /\ \A m \in 0 .. n - 1 : Counted(m, request.asked) = {}

\* The history is that of one block, however many windows it was read in and
\* whatever was sealed meanwhile, and no limit stands in its way.
HistoryOfHead ==
    /\ request.pc = "historyAnswered" =>
        \A a \in Windows :
            Those(request.answer.logs, {x \in Elements(request.answer.logs) : x.log.address = a})
            = Joined([i \in 1 .. request.begun + 1 |-> BlockLogs(i - 1, Filter(0, 0, {a}, <<>>))])
    /\ request.pc = "failed" => LogRangeLimit > 0 /\ Top >= LogRangeLimit

\* What the routes tell a voter of the chain is true of it.
ReadersInv ==
    LogsExact /\ PathOfTree /\ VerifiedUnlessReused /\ VerifiedAsFirstCast /\ HistoryOfHead
=============================================================================
