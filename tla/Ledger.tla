-------------------------------- MODULE Ledger --------------------------------
(***************************************************************************)
(* The database of one node: how a block is executed and sealed            *)
(* (internal/chain/sequencer.go, execute.go, sysop.go, seal.go), how one   *)
(* that was built elsewhere is verified and taken over (candidate.go,      *)
(* follow.go), in which order its parts reach the disk, what a power cut   *)
(* leaves of them (internal/state), what is read back (read.go,            *)
(* txlookup.go), and the audit that replays it all (replay.go, cmd/audit). *)
(*                                                                         *)
(* A hash is modelled by what is hashed: a block stands for its hash, a    *)
(* world for its state root.  Gas is free and there is enough of it.       *)
(***************************************************************************)
EXTENDS Integers, FiniteSets, SequencesExt, SequenceFilter

CONSTANTS
    Accounts,
    Prefund,      \* what genesis gives each account
    Transactions, \* what clients sign: [kind, from, to, nonce]
    SysOps,       \* what hardhat_setBalance asks for: [account, value]
    Deadline,     \* of the votes, in block time
    LastTime,     \* of the wall clock
    MaxNumber,    \* blocks of the chain
    MaxFailures   \* failed writes, power cuts, blocks that do not come next

ASSUME LedgerAssumption ==
    /\ Prefund \in Nat /\ Deadline \in Nat /\ LastTime \in Nat
    /\ {MaxNumber, MaxFailures} \subseteq Nat
    /\ \A tx \in Transactions :
        tx.kind \in {"vote", "pay"} /\ {tx.from, tx.to} \subseteq Accounts /\ tx.nonce \in Nat
    /\ \A op \in SysOps : op.account \in Accounts /\ op.value \in Nat

VARIABLES
    seals,    \* whether this node is the one writer, or takes blocks over
    wallTime,
    disk,     \* what was written, in order: [kind, of]
    synced,   \* how much of it a power cut leaves
    writes,   \* what the holder of s.mu has still to do to the disk
    failures  \* bounded by MaxFailures

ledgerVars == <<seals, wallTime, disk, synced, writes, failures>>

-----------------------------------------------------------------------------
(* Execution.                                                              *)

GenesisWorld ==
    [nonce |-> [a \in Accounts |-> 0], balance |-> [a \in Accounts |-> Prefund], votes |-> 0]

\* What validateTx and the EVM ask of a transaction in a block of time t.
Runs(tx, w, t) ==
    /\ tx.nonce = w.nonce[tx.from]
    /\ tx.kind = "pay" => w.balance[tx.from] > 0
    /\ tx.kind = "vote" => t <= Deadline

Executed(tx, w) ==
    LET v == [w EXCEPT !.nonce[tx.from] = @ + 1]
    IN  IF tx.kind = "vote" THEN [v EXCEPT !.votes = @ + 1]
        ELSE [v EXCEPT !.balance = [v.balance EXCEPT ![tx.from] = @ - 1, ![tx.to] = @ + 1]]

\* The log of a vote says which one it is.
Receipt(tx, w) == [tx |-> tx, log |-> IF tx.kind = "vote" THEN w.votes + 1 ELSE 0]

ApplySysOp(op, w) == [w EXCEPT !.balance[op.account] = op.value]

\* extraData that ParseSysOp does not decode.
Garbled == [account |-> CHOOSE a \in Accounts : TRUE, value |-> -1]

\* replayBlock: what a block makes of a world; the empty set is an error.
\* Mutant first: the clock of the replayer decides, not that of the block.
ReplayBlockNow(b, w) ==
    {[root |-> ApplySysOp(op, w), receipts |-> <<>>] :
        op \in {o \in SysOps : b.extra = <<o>> /\ b.txs = <<>>}}
    \cup {[root |-> w, receipts |-> <<>>] : x \in {y \in {b} : y.extra = <<>> /\ y.txs = <<>>}}
    \cup {[root |-> Executed(tx, w), receipts |-> <<Receipt(tx, w)>>] :
        tx \in {u \in ToSet(b.txs) : b.extra = <<>> /\ Runs(u, w, wallTime)}}

ReplayBlock(b, w) ==
    {[root |-> ApplySysOp(op, w), receipts |-> <<>>] :
        op \in {o \in SysOps : b.extra = <<o>> /\ b.txs = <<>>}}
    \cup {[root |-> w, receipts |-> <<>>] : x \in {y \in {b} : y.extra = <<>> /\ y.txs = <<>>}}
    \cup {[root |-> Executed(tx, w), receipts |-> <<Receipt(tx, w)>>] :
        tx \in {u \in ToSet(b.txs) : b.extra = <<>> /\ Runs(u, w, b.time)}}

VerifyLinkage(b, p) == b.parent = <<p>> /\ b.number = p.number + 1 /\ b.time > p.time

\* verifyBlock: the roots, the gas and the bloom of the header.
VerifyBlock(b, r) == r.root = b.root /\ r.receipts = b.receipts

-----------------------------------------------------------------------------
(* What is on the disk.                                                    *)

Genesis ==
    [number |-> 0, parent |-> <<>>, time |-> 0, extra |-> <<>>, txs |-> <<>>,
     root |-> GenesisWorld, receipts |-> <<>>]

\* The blocks under the canonical hashes; the head is the last.
Batches == OfKind(disk, "batch")
Height == Len(Batches)
Block(n) == IF n = 0 THEN Genesis ELSE Batches[n].of
HeadBlock == Block(Height)

\* A state opens if its trie was committed.
Opens(w) == w = GenesisWorld \/ \E i \in 1 .. Len(disk) : disk[i] = [kind |-> "trie", of |-> w]

\* What a node that starts asks of its database.
VerifyHead == Opens(HeadBlock.root)

CommitTrie(w) == IF Opens(w) THEN <<>> ELSE <<[kind |-> "trie", of |-> w]>>
Persist(b) == <<[kind |-> "batch", of |-> b], [kind |-> "sync", of |-> b]>>

-----------------------------------------------------------------------------
(* Building and sealing.                                                   *)

\* buildHeader, the execution, assembleBlock.
Assemble(p, t, extra, txs) ==
    LET b == [number |-> p.number + 1, parent |-> <<p>>, time |-> t, extra |-> extra,
              txs |-> txs, root |-> p.root, receipts |-> <<>>]
    IN  {[b EXCEPT !.root = r.root, !.receipts = r.receipts] : r \in ReplayBlock(b, p.root)}

NextTime(p) == IF wallTime > p.time THEN wallTime ELSE p.time + 1

\* With a transaction, a system operation, or nothing.  What reverts, and
\* what does not validate, makes no block.
BuildableOn(p, t) ==
    UNION ({Assemble(p, t, <<>>, <<tx>>) : tx \in Transactions}
           \cup {Assemble(p, t, <<op>>, <<>>) : op \in SysOps}
           \cup {Assemble(p, t, <<>>, <<>>)})

\* SubmitTx, SetBalance, MineEmptyBlock, up to the first write.  Mutant
\* first: the block before its state.
SealBlockFirst ==
    /\ seals /\ writes = <<>> /\ Height < MaxNumber
    /\ \E b \in BuildableOn(HeadBlock, NextTime(HeadBlock)) : writes' = Persist(b) \o CommitTrie(b.root)
    /\ UNCHANGED <<seals, wallTime, disk, synced, failures>>

Seal ==
    /\ seals /\ writes = <<>> /\ Height < MaxNumber
    /\ \E b \in BuildableOn(HeadBlock, NextTime(HeadBlock)) : writes' = CommitTrie(b.root) \o Persist(b)
    /\ UNCHANGED <<seals, wallTime, disk, synced, failures>>

\* BuildCandidate and its like, at this node or another, some time ago; they
\* write nothing.
Candidates(p) == UNION {BuildableOn(p, t) : t \in p.time + 1 .. wallTime}

\* A block of which some part does not follow from the others.
Spoilt(b) ==
    {[b EXCEPT !.root = b.parent[1].root], [b EXCEPT !.receipts = <<>>],
     [b EXCEPT !.time = b.parent[1].time], [b EXCEPT !.time = Deadline + 1],
     [b EXCEPT !.parent = <<Genesis>>], [b EXCEPT !.extra = <<Garbled>>]}
    \cup {[b EXCEPT !.extra = <<op>>] : op \in SysOps}

\* What ApplyExternalBlock re-executes: duplicates, forks and gaps are
\* refused by their number, and what does not link by its parent.
Replayed(b) ==
    IF b.number = Height + 1 /\ VerifyLinkage(b, HeadBlock) THEN ReplayBlock(b, HeadBlock.root) ELSE {}

\* Before a validator prepares; nothing is written.  What its clock may lag
\* behind, MaxFutureDrift, is taken to be less than a tick.
VerifyCandidate(b) ==
    b.time <= wallTime /\ \E r \in Replayed(b) : VerifyBlock(b, r)

\* From the push of a primary, or the quorum of the validators.  The trie of
\* the re-execution is written before it is compared with the header.
ApplyExternalBlock(b) ==
    /\ ~seals /\ writes = <<>>
    /\ \/ Replayed(b) = {} /\ UNCHANGED writes
       \/ \E r \in Replayed(b) :
            writes' = CommitTrie(r.root) \o (IF VerifyBlock(b, r) THEN Persist(b) ELSE <<>>)
    /\ UNCHANGED <<seals, wallTime, disk, synced>>

\* The next block; the head once more, or what somebody else sealed in its
\* place; the one after the next.
ApplyHonest ==
    /\ Height < MaxNumber
    /\ \E b \in Candidates(HeadBlock) : ApplyExternalBlock(b)
    /\ UNCHANGED failures

ApplyLate ==
    /\ failures < MaxFailures /\ Height < MaxNumber
    /\ \E b \in {Block(n) : n \in 0 .. Height}
                \cup UNION {Candidates(p) : p \in {Block(n) : n \in 0 .. Height - 1} \cup Candidates(HeadBlock)} :
        ApplyExternalBlock(b)
    /\ failures' = failures + 1

ApplySpoilt ==
    /\ failures < MaxFailures /\ Height < MaxNumber
    /\ \E b \in Candidates(HeadBlock) : \E c \in Spoilt(b) \ {b} : ApplyExternalBlock(c)
    /\ failures' = failures + 1

-----------------------------------------------------------------------------
(* The disk.                                                               *)

WriteNext ==
    /\ writes # <<>>
    /\ writes' = Tail(writes)
    /\ IF Head(writes).kind = "sync"
         THEN synced' = Len(disk) /\ UNCHANGED disk
         ELSE disk' = Append(disk, Head(writes)) /\ UNCHANGED synced
    /\ UNCHANGED <<seals, wallTime, failures>>

\* A write, or the sync, fails: the call returns.
WriteFails ==
    /\ writes # <<>> /\ failures < MaxFailures
    /\ writes' = <<>>
    /\ failures' = failures + 1
    /\ UNCHANGED <<seals, wallTime, disk, synced>>

\* The boot after it finds any part of what was not synced.
PowerCut(k) ==
    /\ failures < MaxFailures
    /\ failures' = failures + 1
    /\ disk' = SubSeq(disk, 1, k)
    /\ synced' = k
    /\ writes' = <<>>
    /\ UNCHANGED <<seals, wallTime>>

Tick ==
    /\ wallTime < LastTime
    /\ wallTime' = wallTime + 1
    /\ UNCHANGED <<seals, disk, synced, writes, failures>>

-----------------------------------------------------------------------------
(* Reading, when at most one record is not what was written.               *)

Intact == [what |-> "nothing", number |-> 0, as |-> {}]

\* The canonical hash of a number lost, a block lost or changed, receipts
\* lost or changed.
Damages ==
    UNION {
        {[what |-> "hash", number |-> n, as |-> {}], [what |-> "block", number |-> n, as |-> {}]}
        \cup {[what |-> "block", number |-> n, as |-> {c}] : c \in Spoilt(Block(n)) \ {Block(n)}}
        \cup {[what |-> "receipts", number |-> n, as |-> {}]}
        \cup {[what |-> "receipts", number |-> n, as |-> {<<[tx |-> tx, log |-> 9]>>}] : tx \in ToSet(Block(n).txs)}
        : n \in 1 .. Height}

\* rawdb.ReadBlock under the canonical hash; nobody hashes what it returns.
ReadBlock(d, n) ==
    CASE d.number = n /\ d.what = "hash" -> {}
      [] d.number = n /\ d.what = "block" -> d.as
      [] OTHER -> {Block(n)}

ReadRawReceipts(d, n) ==
    IF d.number = n /\ d.what = "receipts" THEN (IF d.as = {} THEN <<>> ELSE CHOOSE rs \in d.as : TRUE)
    ELSE Block(n).receipts

\* ReceiptByTxHash: by the index, the canonical hash, the block's body and
\* its receipts; {} is an error, not a null.
MinedAt(tx) == CHOOSE n \in 1 .. Height : Block(n).txs = <<tx>>
Mined == {tx \in Transactions : \E n \in 1 .. Height : Block(n).txs = <<tx>>}

ReceiptByTxHash(d, tx) ==
    LET n == MinedAt(tx)
    IN  {ReadRawReceipts(d, n)[1] :
            b \in {x \in ReadBlock(d, n) : x.txs = <<tx>> /\ Len(ReadRawReceipts(d, n)) = 1}}

\* The replayer hashes what it reads.  Mutant first: it does not.
BlockAtUnhashed(d, n) == ReadBlock(d, n)
BlockAt(d, n) == {b \in ReadBlock(d, n) : b = Block(n)}

\* verifyStoredReceipts.  Mutant first.
StoredReceiptsUnread(d, n, r) == TRUE
StoredReceiptsMatch(d, n, r) == ReadRawReceipts(d, n) = r.receipts

\* Replay, from the state of the block before; what follows it is written
\* to the overlay and read from there.
Audited(d, from, to) ==
    /\ BlockAt(d, from - 1) # {}
    /\ from <= to => Opens(Block(from - 1).root)
    /\ \A n \in from .. to : \E b \in BlockAt(d, n), p \in BlockAt(d, n - 1) :
        /\ VerifyLinkage(b, p)
        /\ \E r \in ReplayBlock(b, p.root) : VerifyBlock(b, r) /\ StoredReceiptsMatch(d, n, r)

\* AUDIT OK of cmd/audit -from -to, where 0 is left out.
AuditOK(d, from, to) ==
    LET first == IF from = 0 THEN 1 ELSE from
        last == IF to \in 1 .. Height THEN to ELSE Height
    IN  first <= last + 1 /\ Audited(d, first, last)

-----------------------------------------------------------------------------
LedgerInit ==
    /\ seals \in BOOLEAN /\ wallTime = 1
    /\ disk = <<>> /\ synced = 0 /\ writes = <<>>
    /\ failures = 0

LedgerNext ==
    \/ Seal \/ ApplyHonest \/ ApplyLate \/ ApplySpoilt
    \/ WriteNext \/ WriteFails
    \/ \E k \in synced .. Len(disk) : PowerCut(k)
    \/ Tick

LedgerSpec == LedgerInit /\ [][LedgerNext]_ledgerVars

-----------------------------------------------------------------------------
\* A validator votes for whatever an honest one proposes on its head, and for
\* nothing that none could have built.
Proposals == Candidates(HeadBlock)
VotesOnBuildable ==
    ~seals /\ writes = <<>> /\ Height < MaxNumber =>
        /\ \A b \in Proposals : VerifyCandidate(b)
        /\ \A c \in UNION {Spoilt(b) : b \in Proposals} :
            VerifyCandidate(c) => c \in BuildableOn(HeadBlock, c.time)

\* An honest chain passes its audit from wherever it is begun, whenever it
\* is run, whoever built the blocks and however often the node was stopped.
AuditPasses == \A from \in 0 .. Height + 1 : AuditOK(Intact, from, 0)

\* What passes an audit, or one up to a block and one from the next, is
\* served as it was sealed: no reader is given another block, or another
\* receipt for a vote.
AuditFinds ==
    \A d \in Damages : (\E m \in 0 .. Height : AuditOK(d, 0, m) /\ AuditOK(d, m + 1, 0)) =>
        /\ \A n \in 1 .. Height : ReadBlock(d, n) = {Block(n)}
        /\ \A tx \in Mined : ReceiptByTxHash(d, tx) = {Block(MinedAt(tx)).receipts[1]}

\* The state of the head says what the blocks before it did: each vote in
\* time, counted once and numbered in order, each nonce used once.
Votes(n) == {m \in 1 .. n : \E tx \in ToSet(Block(m).txs) : tx.kind = "vote"}
StateFollows ==
    /\ HeadBlock.root.votes = Cardinality(Votes(Height))
    /\ \A m \in Votes(Height) :
        Block(m).time <= Deadline /\ Block(m).receipts[1].log = Cardinality(Votes(m))
    /\ \A a \in Accounts :
        HeadBlock.root.nonce[a] = Cardinality({m \in 1 .. Height : \E tx \in ToSet(Block(m).txs) : tx.from = a})

\* At whatever write the power is cut, the node starts again (VerifyHead).
LedgerInv == VerifyHead /\ VotesOnBuildable /\ AuditPasses /\ AuditFinds /\ StateFollows
=============================================================================
