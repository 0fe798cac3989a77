--------------------------------- MODULE Seals ---------------------------------
(***************************************************************************)
(* Commit certificates: the signatures that made a block final, beside the *)
(* chain in the database of one validator.  The engine records one before  *)
(* it commits the block (finalize in internal/consensus/engine.go, seals.  *)
(* go); the follower fetches those of the blocks it pulled                 *)
(* (internal/p2p/follower.go, multiprimary.go, server.go, syncSealsFrom in *)
(* cmd/node/consensus.go), which a peer may answer as it likes;            *)
(* zk_getCommitSeals recovers the signers of what it serves                *)
(* (internal/rpc/zk.go).                                                   *)
(*                                                                         *)
(* The engine and the follower run at the same time.  What agreement gives *)
(* is taken from Consensus: one block a height, which its number names.    *)
(***************************************************************************)
EXTENDS Integers, FiniteSets, SequencesExt, SequenceFilter

CONSTANTS
    ValidatorSet,
    CertQuorum,
    Stranger,   \* an address that is no validator's
    Peers,      \* the other nodes, in the order they are asked
    Suspects,   \* those of them that may serve what they like
    PageLimit,  \* blocks, and certificates, of one answer
    TopBlock,   \* blocks of the chain
    MaxCuts     \* power cuts

ASSUME SealsAssumption ==
    /\ IsFiniteSet(ValidatorSet) /\ CertQuorum \in 1 .. Cardinality(ValidatorSet)
    /\ Stranger \notin ValidatorSet /\ Suspects \subseteq ToSet(Peers)
    /\ Peers \in Seq(ToSet(Peers)) /\ Peers # <<>>
    /\ {PageLimit, TopBlock} \subseteq Nat \ {0} /\ MaxCuts \in Nat

VARIABLES
    final,    \* the height of the cluster
    certOf,   \* what each peer serves for a height; <<>> is no certificate
    liars,    \* the suspects whose certificates are not what a quorum signed
    kept,     \* the writes to this node's database: [kind, number, cert]
    flushed,  \* how many of them a power cut leaves
    engine,   \* what finalize has still to write
    follower, \* [pc, from, to, todo]: what CatchUp has still to do
    cuts

sealVars == <<final, certOf, liars, kept, flushed, engine, follower, cuts>>

-----------------------------------------------------------------------------
(* A certificate is the sequence of its signers.                           *)

None == <<>>
Pulled == <<"pulled">> \* in place of one, with a block of the follower's
Signed(qs) == {SetToSeq(q) : q \in {v \in SUBSET ValidatorSet : Cardinality(v) >= qs}}
Certificates == Signed(CertQuorum)

\* Records that do not verify: of one who signs for all, alone or with a
\* stranger.
Forged ==
    LET one == [i \in 1 .. CertQuorum |-> CHOOSE v \in ValidatorSet : TRUE]
    IN  {one, [one EXCEPT ![1] = Stranger]}

Wrote(kind, n, c) == [kind |-> kind, number |-> n, cert |-> c]
IsBlock(x) == x.kind = "block"
LocalHead == Len(OfKind(kept, "block"))

\* Get: the last that was put for the block.
StoredCert(n) ==
    LET puts == {i \in 1 .. Len(kept) : kept[i].kind = "cert" /\ kept[i].number = n}
    IN  IF puts = {} THEN None ELSE kept[CHOOSE i \in puts : \A j \in puts : j <= i].cert

\* SealedBy: an error, of which the result is {}, for a signer who is no
\* validator or who signed twice.  Mutant first.
SealedByAnybody(c) == {c}
SealedBy(c) ==
    {x \in {c} : ToSet(x) \subseteq ValidatorSet /\ Cardinality(ToSet(x)) = Len(x)}

\* zk_getCommitSeals: {} is an error, None is JSON's null.
GetCommitSeals(n) ==
    IF n > LocalHead \/ StoredCert(n) = None THEN {None} ELSE SealedBy(StoredCert(n))

-----------------------------------------------------------------------------
\* The other validators finalize the next block.
ClusterFinalizes ==
    /\ final < TopBlock
    /\ final' = final + 1
    /\ \E f \in [ToSet(Peers) -> Certificates \cup Forged \cup {None}] :
        /\ \A p \in ToSet(Peers) \ liars : f[p] \in Certificates \cup {None}
        /\ certOf' = [p \in ToSet(Peers) |-> Append(certOf[p], f[p])]
    /\ UNCHANGED <<liars, kept, flushed, engine, follower, cuts>>

\* finalize: a quorum of commits for the next block.  Mutant first: the
\* block before the record.
FinalizeBlockFirst ==
    /\ engine = <<>> /\ LocalHead < final
    /\ \E c \in Certificates :
        engine' = <<Wrote("block", LocalHead + 1, None), Wrote("cert", LocalHead + 1, c)>>
    /\ UNCHANGED <<final, certOf, liars, kept, flushed, follower, cuts>>

FinalizeSealed ==
    /\ engine = <<>> /\ LocalHead < final
    /\ \E c \in Certificates :
        engine' = <<Wrote("cert", LocalHead + 1, c), Wrote("block", LocalHead + 1, None)>>
    /\ UNCHANGED <<final, certOf, liars, kept, flushed, follower, cuts>>

\* The write of a block is synced before s.mu is released, and with it all
\* that was written before.  A block that was pulled meanwhile is no error.
Put(x) == kept' = Append(kept, x) /\ UNCHANGED flushed
ApplyBlock(x) ==
    IF LocalHead < x.number THEN kept' = Append(kept, x) /\ flushed' = Len(kept')
    ELSE UNCHANGED <<kept, flushed>>

EngineWrites ==
    /\ engine # <<>>
    /\ engine' = Tail(engine)
    /\ IF IsBlock(Head(engine)) THEN ApplyBlock(Head(engine)) ELSE Put(Head(engine))
    /\ UNCHANGED <<final, certOf, liars, follower, cuts>>

-----------------------------------------------------------------------------
(* CatchUp of the follower.                                                *)

Least(a, b) == IF a < b THEN a ELSE b

\* Head and a page of blocks; the head of this node is read first.
PullPage ==
    /\ follower.pc = "idle" /\ LocalHead < final
    /\ follower' = [pc |-> "blocks", from |-> LocalHead, to |-> Least(LocalHead + PageLimit, final), todo |-> <<>>]
    /\ UNCHANGED <<final, certOf, liars, kept, flushed, engine, cuts>>

\* One block; those the engine was faster with are passed over.
ApplyPulled ==
    /\ follower.pc = "blocks" /\ LocalHead < follower.to
    /\ ApplyBlock(Wrote("block", LocalHead + 1, Pulled))
    /\ UNCHANGED <<final, certOf, liars, engine, follower, cuts>>

\* handleCommitSeals of a peer: what it has of the range.
Served(p, from, to) ==
    LET range == [i \in 1 .. Least(to - from + 1, PageLimit) |-> [number |-> from + i - 1,
                    cert |-> IF from + i - 1 <= Len(certOf[p]) THEN certOf[p][from + i - 1] ELSE None]]
    IN  Those(range, {x \in Elements(range) : x.cert # None})

\* MultiPrimary.CommitSeals: the first peer that has any.
FirstServed(from, to) ==
    LET some == {i \in 1 .. Len(Peers) : Served(Peers[i], from, to) # <<>>}
    IN  IF some = {} THEN <<>>
        ELSE Served(Peers[CHOOSE i \in some : \A j \in some : i <= j], from, to)

\* syncSeals(local + 1, after).  Mutant first: without the block that was
\* pulled last.
AskSealsBelow ==
    /\ follower.pc = "blocks" /\ LocalHead >= follower.to
    /\ follower' = [follower EXCEPT !.pc = "seals",
                        !.todo = FirstServed(follower.from + 1, LocalHead - 1)]
    /\ UNCHANGED <<final, certOf, liars, kept, flushed, engine, cuts>>

AskSeals ==
    /\ follower.pc = "blocks" /\ LocalHead >= follower.to
    /\ follower' = [follower EXCEPT !.pc = "seals", !.todo = FirstServed(follower.from + 1, LocalHead)]
    /\ UNCHANGED <<final, certOf, liars, kept, flushed, engine, cuts>>

\* syncSealsFrom, one entry; nothing recovers its signers, and what is there
\* already is overwritten.
PutServed ==
    /\ follower.pc = "seals" /\ follower.todo # <<>>
    /\ Put(Wrote("cert", Head(follower.todo).number, Head(follower.todo).cert))
    /\ follower' = [follower EXCEPT !.todo = Tail(@)]
    /\ UNCHANGED <<final, certOf, liars, engine, cuts>>

PageDone ==
    /\ follower.pc = "seals" /\ follower.todo = <<>>
    /\ follower' = [follower EXCEPT !.pc = "idle"]
    /\ UNCHANGED <<final, certOf, liars, kept, flushed, engine, cuts>>

CutPower(k) ==
    /\ cuts < MaxCuts
    /\ cuts' = cuts + 1
    /\ kept' = SubSeq(kept, 1, k)
    /\ flushed' = k
    /\ engine' = <<>>
    /\ follower' = [pc |-> "idle", from |-> 0, to |-> 0, todo |-> <<>>]
    /\ UNCHANGED <<final, certOf, liars>>

-----------------------------------------------------------------------------
SealsInit ==
    /\ final = 0 /\ certOf = [p \in ToSet(Peers) |-> <<>>]
    /\ liars \in SUBSET Suspects
    /\ kept = <<>> /\ flushed = 0 /\ cuts = 0
    /\ engine = <<>>
    /\ follower = [pc |-> "idle", from |-> 0, to |-> 0, todo |-> <<>>]

SealsNext ==
    \/ ClusterFinalizes
    \/ FinalizeSealed \/ EngineWrites
    \/ PullPage \/ ApplyPulled \/ AskSeals \/ PutServed \/ PageDone
    \/ \E k \in flushed .. Len(kept) : CutPower(k)

SealsSpec == SealsInit /\ [][SealsNext]_sealVars

-----------------------------------------------------------------------------
\* Store.Put: a block that this node committed itself is not without its
\* certificate, wherever the power was cut, and however a page of the same
\* blocks came in meanwhile; if no peer lies it is one of a quorum.
OwnBlocks == {kept[i].number : i \in {j \in 1 .. Len(kept) : IsBlock(kept[j]) /\ kept[j].cert # Pulled}}
OwnSealed ==
    \A n \in OwnBlocks :
        /\ StoredCert(n) # None
        /\ liars = {} => GetCommitSeals(n) \subseteq Certificates /\ GetCommitSeals(n) # {}

\* A node that was never cut off, whose first peer has every certificate,
\* has them all when it has caught up.
CaughtUpSealed ==
    cuts = 0 /\ follower.pc = "idle" /\ engine = <<>> /\ None \notin ToSet(certOf[Peers[1]])
        => \A n \in 1 .. LocalHead : StoredCert(n) # None

\* Three seals from two validators are not served as a quorum of three, nor
\* is that of a stranger as a validator's, whatever a peer said.
ServedSeals ==
    \A n \in 1 .. final : \A c \in GetCommitSeals(n) :
        Len(c) >= CertQuorum => \E q \in SUBSET ToSet(c) : q \subseteq ValidatorSet /\ Cardinality(q) = CertQuorum

SealsInv == OwnSealed /\ CaughtUpSealed /\ ServedSeals
=============================================================================
