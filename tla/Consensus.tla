------------------------------ MODULE Consensus ------------------------------
(***************************************************************************)
(* The BFT engine of packages/blockchain/internal/consensus: engine.go,    *)
(* roundstate.go, validators.go and the signed messages of message.go.     *)
(*                                                                         *)
(* One record per validator holds what its Engine goroutine owns (the      *)
(* roundState of the current height, the submission queue, the local       *)
(* chain).  A handler of the Go code is an operator from a record to the   *)
(* SET of records it may leave behind: a handler that calls another one    *)
(* is the composition, so each action below is a whole event of            *)
(* Engine.Run, including the finalize / startHeight / maybePropose tail.   *)
(* The set has more than one element only where the code depends on a      *)
(* clock (the block a proposer builds), on the outcome of execution (a     *)
(* queued request that can no longer be included) or on Go's map order     *)
(* (which of two equally high locks is adopted).                           *)
(*                                                                         *)
(* The network is one queue per ordered pair of validators: a worker of    *)
(* p2p/transport.go sends to one peer, one message at a time, and never    *)
(* sends a message again, so a link delivers in order or loses.            *)
(***************************************************************************)
EXTENDS Integers, FiniteSets, Sequences, SequenceFilter

CONSTANTS
    N,            \* size of VALIDATOR_SET; a validator is its index in it
    Quorum,       \* EffectiveQuorum
    Byz,          \* validators that may sign anything
    Forgeable,    \* the types of the messages Byz does forge
    Down,         \* validators that never run
    Blocks,       \* the blocks a proposer can build at a height
    NoBlock,      \* the nil *types.Block / zero hash
    StaleBlock,   \* a block built on a head that is not rs.height - 1
    Clients,      \* validators whose RPC endpoint receives writes
    Synchronous,  \* TRUE: a round timer outlasts every delivery in flight
    Uniform,      \* TRUE: links are equally fast (see Overtakes)
    MaxHeight,    \* nothing runs above this height
    MaxRound,     \* no round change asks for a round above this one
    MaxQueue,     \* writes queued at one validator
    MaxRestarts,  \* process restarts in a behaviour
    MaxLosses,    \* messages lost in a behaviour
    MaxFaults     \* restarts and lost messages together

Validators == 0 .. N - 1
Honest == Validators \ (Byz \cup Down)
BlockOrNil == Blocks \cup {NoBlock, StaleBlock}

(***************************************************************************)
(* DeriveQuorum is ceil(2N/3); config refuses an override below it, and a  *)
(* VALIDATOR_SET of fewer than four.                                       *)
(***************************************************************************)
MinValidators == 4

DeriveQuorum(n) == (2 * n + 2) \div 3

MsgTypes == {"PROPOSAL", "PREPARE", "COMMIT", "ROUND_CHANGE"}

ASSUME ConsensusAssumption ==
    /\ N \in Nat /\ N >= MinValidators
    /\ Quorum \in DeriveQuorum(N) .. N
    /\ Byz \subseteq Validators /\ Down \subseteq Validators /\ Clients \subseteq Validators
    /\ NoBlock \notin Blocks /\ StaleBlock \notin Blocks
    /\ NoBlock # StaleBlock
    /\ Forgeable \subseteq MsgTypes
    /\ Synchronous \in BOOLEAN /\ Uniform \in BOOLEAN
    /\ MaxHeight \in Nat /\ MaxRound \in Nat
    /\ MaxQueue \in Nat /\ MaxRestarts \in Nat /\ MaxLosses \in Nat /\ MaxFaults \in Nat

VARIABLES
    node,      \* [Honest -> Node]: what each engine goroutine owns
    link,      \* [Honest \X Honest -> Seq(Messages)]: sent, not yet handled
    cast,      \* history: COMMIT votes honest validators have broadcast
    restarts,  \* process restarts so far
    losses     \* messages lost so far

vars == <<node, link, cast, restarts, losses>>

-----------------------------------------------------------------------------
(* Messages.  A COMMIT carries round 0: its digest and its dedup key omit  *)
(* the round.  block is the lock's hash in a ROUND-CHANGE.                 *)

Message(t, h, r, b, lr, v) ==
    [type |-> t, height |-> h, round |-> r, block |-> b, lockedRound |-> lr, signer |-> v]

Messages ==
    [type : MsgTypes, height : Nat, round : Nat, block : BlockOrNil,
     lockedRound : Nat, signer : Validators]

\* Mutant: the proposer of a height never changes.
ProposerOfHeight(h, r) == h % N

ProposerAt(h, r) == ((h % N) + (r % N)) % N

-----------------------------------------------------------------------------
(* roundState.  changes[r] is kept as the ROUND-CHANGE messages of seen.   *)

NewRoundState(n, h) ==
    [n EXCEPT !.height = h, !.round = 0, !.ph = "idle", !.proposal = NoBlock,
              !.locked = NoBlock, !.lockedRound = 0, !.seen = {}, !.faulty = {},
              !.prepares = {}, !.commits = {}, !.timerArmed = FALSE,
              !.peerActivity = FALSE]

SameVote(p, m) == p.type = m.type /\ p.round = m.round /\ p.signer = m.signer

\* What record already holds under m's (round, type, signer) key.
Earlier(n, m) == {p \in n.seen : SameVote(p, m)}

\* Mutant: the lock a ROUND-CHANGE carries counts as its vote.
EquivocatesByLock(n, m) == \E p \in Earlier(n, m) : p.block # m.block

\* The BlockHash of a ROUND-CHANGE is zero whatever lock it carries, so two
\* of them are never different votes.
Equivocates(n, m) ==
    m.type # "ROUND_CHANGE" /\ \E p \in Earlier(n, m) : p.block # m.block

Tally(n, m) ==
    [n EXCEPT !.seen = @ \cup {m},
              !.prepares = IF m.type = "PREPARE" THEN @ \cup {<<m.block, m.signer>>} ELSE @,
              !.commits  = IF m.type = "COMMIT"  THEN @ \cup {<<m.block, m.signer>>} ELSE @]

\* Both votes of an equivocator are discarded.
Withdraw(n, m) ==
    LET votes == {<<p.block, p.signer>> : p \in Earlier(n, m)}
    IN  [n EXCEPT !.faulty = @ \cup {m.signer},
                  !.prepares = IF m.type = "PREPARE" THEN @ \ votes ELSE @,
                  !.commits  = IF m.type = "COMMIT"  THEN @ \ votes ELSE @]

\* record, for a message this validator signs itself.
RecordOwn(n, m) ==
    IF Equivocates(n, m) THEN Withdraw(n, m)
    ELSE IF Earlier(n, m) = {} THEN Tally(n, m) ELSE n

\* Mutant: votes are counted whatever block they are for.
VotersForAny(votes, b) == {v \in Validators : \E c \in BlockOrNil : <<c, v>> \in votes}

Voters(votes, b) == {v \in Validators : <<b, v>> \in votes}
PrepareCount(n, b) == Cardinality(Voters(n.prepares, b))
CommitCount(n, b) == Cardinality(Voters(n.commits, b))

Lock(n, b, r) == [n EXCEPT !.locked = b, !.lockedRound = r]

AcceptableProposal(n, b) == n.locked = NoBlock \/ n.locked = b

Changes(n, r) == {m \in n.seen : m.type = "ROUND_CHANGE" /\ m.round = r}
ChangeCount(n, r) == Cardinality({m.signer : m \in Changes(n, r)})

\* The blocks highestLock may return: Go's map order settles a tie.
HighestLocks(n, r) ==
    LET locks == {m \in Changes(n, r) : m.block # NoBlock}
    IN  {m.block : m \in {x \in locks : \A y \in locks : y.lockedRound <= x.lockedRound}}

\* Mutant: the lock is forgotten with the round.
EnterRoundUnlocked(n, r) ==
    [n EXCEPT !.round = r, !.ph = "idle", !.proposal = NoBlock, !.prepares = {},
              !.locked = NoBlock, !.lockedRound = 0]

EnterRound(n, r) ==
    [n EXCEPT !.round = r, !.ph = "idle", !.proposal = NoBlock, !.prepares = {}]

-----------------------------------------------------------------------------
(* Engine handlers.                                                        *)

Send(n, m) == [n EXCEPT !.out = Append(@, m)]

\* checkSynced: the height under vote is the one after the local head.
Current(n) == n.height = Len(n.chain) + 1

ArmTimer(n) == [n EXCEPT !.timerArmed = TRUE]

ArmTimerIfWorkPending(n) ==
    [n EXCEPT !.timerArmed =
        ~(n.queue = 0 /\ n.ph = "idle" /\ n.locked = NoBlock /\ ~n.peerActivity)]

CastPrepare(v, n, b) ==
    LET m == Message("PREPARE", n.height, n.round, b, 0, v)
    IN  Send(RecordOwn([n EXCEPT !.ph = "prePrepared"], m), m)

\* The quorum check inside castPrepare is left to the callers that can pass
\* it: Quorum > 1, so not in a round whose tallies are still empty.
BroadcastProposal(v, n, b) ==
    ArmTimer(CastPrepare(v,
        Send([n EXCEPT !.proposal = b], Message("PROPOSAL", n.height, n.round, b, 0, v)), b))

\* The requests that may be left once those that cannot be built any more
\* are answered with their error.  Each could be built when it was submitted,
\* so it takes a block since then to spoil one.
StillBuildable(n) == IF n.chain = <<>> THEN {n.queue} ELSE 0 .. n.queue

\* With q requests left, the first is proposed, as any of the blocks the
\* clock may lead to.
ProposeQueued(v, n, q) ==
    IF q = 0 THEN {[n EXCEPT !.queue = 0]}
    ELSE {BroadcastProposal(v, [n EXCEPT !.queue = q, !.candidate = Len(n.chain) + 1], b) :
             b \in IF Current(n) THEN Blocks ELSE {StaleBlock}}

\* A lock outranks the queue.
MaybePropose(v, n) ==
    IF ~(ProposerAt(n.height, n.round) = v /\ n.ph = "idle" /\ (n.synced \/ Current(n)))
      THEN {n}
    ELSE IF n.locked # NoBlock
      THEN {BroadcastProposal(v, n, n.locked)}
    ELSE UNION {ProposeQueued(v, n, q) : q \in StillBuildable(n)}

\* The end of startHeight, when every buffered message has been replayed.
Settle(v, n) == UNION {MaybePropose(v, x) : x \in {ArmTimerIfWorkPending(n)}}

\* startHeight first replays what the future buffer holds for the height.
\* The replay is drained by action Replay, during which the goroutine does
\* nothing else; everything at or below the new height leaves the buffer.
StartHeight(v, n, h) ==
    LET fresh == [NewRoundState(n, h) EXCEPT !.replay = Those(n.future, {m \in Elements(n.future) : m.height = h}),
                                             !.future = Those(n.future, {m \in Elements(n.future) : m.height > h})]
    IN  UNION {IF x.replay = <<>> THEN Settle(v, x) ELSE {x} : x \in {fresh}}

\* The request whose candidate carries this number is answered.
ResolveWaiters(n, h) ==
    [n EXCEPT !.queue = IF n.candidate = h /\ n.queue > 0 THEN @ - 1 ELSE @,
              !.candidate = 0]

\* ApplyExternalBlock accepts the next block and the block already at that
\* height, and reports a fork for another one.
Finalize(v, n, b) ==
    IF Current(n)
      THEN StartHeight(v, ResolveWaiters([n EXCEPT !.chain = Append(@, b)], n.height), n.height + 1)
    ELSE IF n.height <= Len(n.chain) /\ n.chain[n.height] = b
      THEN StartHeight(v, ResolveWaiters(n, n.height), n.height + 1)
    ELSE {n}

\* Without the block's body the node waits for catch-up.
CheckCommitQuorum(v, n, b) ==
    IF CommitCount(n, b) >= Quorum /\ b \in {n.proposal, n.locked}
      THEN Finalize(v, n, b)
      ELSE {n}

CheckPrepareQuorum(v, n, b) ==
    IF n.ph = "prePrepared" /\ n.proposal = b /\ PrepareCount(n, b) >= Quorum
      THEN LET m == Message("COMMIT", n.height, 0, b, 0, v)
               locked == [Lock(n, b, n.round) EXCEPT !.ph = "prepared"]
           IN  UNION {CheckCommitQuorum(v, x, b) : x \in {Send(RecordOwn(locked, m), m)}}
      ELSE {n}

\* A validator locked on nothing adopts the highest lock the quorum reports.
CheckRoundChangeQuorum(v, n, r) ==
    IF r > n.round /\ ChangeCount(n, r) >= Quorum
      THEN LET e == EnterRound(n, r)
               adopted == IF n.locked = NoBlock /\ HighestLocks(n, r) # {}
                            THEN {Lock(e, b, r) : b \in HighestLocks(n, r)}
                            ELSE {e}
           IN  UNION {MaybePropose(v, x) : x \in {ArmTimer(a) : a \in adopted}}
      ELSE {n}

\* VerifyCandidate re-executes the block on the local head, so it fails
\* unless the block is the next one.
OnProposal(v, n, m) ==
    IF /\ m.signer = ProposerAt(n.height, m.round)
       /\ m.round = n.round
       /\ n.ph = "idle"
       /\ AcceptableProposal(n, m.block)
       /\ m.block \in Blocks /\ Current(n)
      THEN LET prepared == CastPrepare(v, [n EXCEPT !.proposal = m.block], m.block)
           IN  {ArmTimer(p) : p \in UNION {CheckPrepareQuorum(v, x, m.block) : x \in {prepared}}}
      ELSE {n}

OnRoundChange(v, n, m) == CheckRoundChangeQuorum(v, n, m.round)

Dispatch(v, n, m) ==
    CASE m.type = "PROPOSAL"     -> OnProposal(v, n, m)
      [] m.type = "PREPARE"      -> CheckPrepareQuorum(v, n, m.block)
      [] m.type = "COMMIT"       -> CheckCommitQuorum(v, n, m.block)
      [] m.type = "ROUND_CHANGE" -> OnRoundChange(v, n, m)
      [] OTHER                   -> {n}

\* Mutant: a peer's message does not start the round timer.
OnMessageUntimed(v, n, m) ==
    IF m.height < n.height THEN {n}
    ELSE IF m.height > n.height THEN {[n EXCEPT !.future = Append(@, m)]}
    ELSE IF Equivocates(n, m) THEN {Withdraw(n, m)}
    ELSE IF Earlier(n, m) # {} THEN {n}
    ELSE UNION {Dispatch(v, x, m) : x \in {[Tally(n, m) EXCEPT !.peerActivity = TRUE]}}

\* A node behind buffers the message and votes on nothing.  A duplicate and
\* an equivocation go no further than the tallies.
OnMessage(v, n, m) ==
    IF m.height < n.height THEN {n}
    ELSE IF m.height > n.height THEN {[n EXCEPT !.future = Append(@, m)]}
    ELSE IF Equivocates(n, m) THEN {Withdraw(n, m)}
    ELSE IF Earlier(n, m) # {} THEN {n}
    ELSE UNION {Dispatch(v, x, m) : x \in {ArmTimer([Tally(n, m) EXCEPT !.peerActivity = TRUE])}}

\* The lock travels with the ROUND-CHANGE.  The timer is re-armed first, so
\* a validator that is alone in wanting a new round keeps asking.
OnRoundTimeout(v, n) ==
    LET m == Message("ROUND_CHANGE", n.height, n.round + 1, n.locked,
                     IF n.locked = NoBlock THEN 0 ELSE n.lockedRound, v)
    IN  UNION {CheckRoundChangeQuorum(v, x, n.round + 1) :
                   x \in {ArmTimer(Send(RecordOwn(n, m), m))}}

OnSubmit(v, n) ==
    LET queued == {ArmTimerIfWorkPending([n EXCEPT !.queue = @ + 1])}
        Prepared(p) == IF p.out = <<>> THEN {p}
                       ELSE {ArmTimer(x) : x \in CheckPrepareQuorum(v, p, p.proposal)}
    IN  UNION {Prepared(p) : p \in UNION {MaybePropose(v, x) : x \in queued}}

OnHeadMoved(v, n, h) == StartHeight(v, ResolveWaiters(n, h), h + 1)

-----------------------------------------------------------------------------
(* Events of Engine.Run.                                                   *)

\* A message that onMessage would drop unread: the height is settled, or the
\* very same message has been recorded.
Ignored(n, m) == m.height < n.height \/ m \in n.seen

\* The links once v has moved to n, sent n.out, and taken[p] messages have
\* left the front of link p.  What has become pointless leaves at once, and
\* what repeats a message still under way is not kept twice.
Links(v, n, taken) ==
    [p \in Honest \X Honest |->
        LET fresh == Elements(n.out) \ Elements(link[p])
            sent == IF p[1] = v /\ p[2] # v THEN link[p] \o Those(n.out, fresh) ELSE link[p]
            to == IF p[2] = v THEN n ELSE node[p[2]]
            left == SubSeq(sent, taken[p] + 1, Len(sent))
        IN  IF v \notin {p[1], p[2]} THEN link[p]
            ELSE Those(left, {m \in Elements(left) : ~Ignored(to, m)})]

Untouched == [p \in Honest \X Honest |-> 0]

\* publishStatus ends every event; what the handlers signed is broadcast.
Step(v, n, taken) ==
    /\ node' = [node EXCEPT ![v] =
          [n EXCEPT !.out = <<>>, !.synced = IF n.replay = <<>> THEN Current(n) ELSE @]]
    /\ link' = Links(v, n, taken)
    /\ cast' = cast \cup {m \in Elements(n.out) : m.type = "COMMIT"}

\* The goroutine takes its next event.  MaxHeight bounds the chain.
Ready(v) == node[v].height <= MaxHeight /\ node[v].replay = <<>>

Submit(v) ==
    /\ Ready(v)
    /\ node[v].queue < MaxQueue
    /\ \E n \in OnSubmit(v, node[v]) : Step(v, n, Untouched)
    /\ UNCHANGED <<restarts, losses>>

\* The votes of a round follow from its ROUND-CHANGEs.  One reaches v before
\* them only over a faster path.
Overtakes(m, v) ==
    m.type \in {"PROPOSAL", "PREPARE"} /\ \E w \in Honest : \E i \in 1 .. Len(link[w, v]) :
        link[w, v][i].type = "ROUND_CHANGE" /\ link[w, v][i].round <= m.round

Deliver(u, v) ==
    /\ Ready(v)
    /\ link[u, v] # <<>>
    /\ Uniform => ~Overtakes(Head(link[u, v]), v)
    /\ \E n \in OnMessage(v, node[v], Head(link[u, v])) : Step(v, n, [Untouched EXCEPT ![<<u, v>>] = 1])
    /\ UNCHANGED <<restarts, losses>>

\* One buffered message of startHeight's loop; the last one is followed by
\* the rest of startHeight.  A height finalized on the way starts the next.
Replay(v) ==
    /\ node[v].height <= MaxHeight /\ node[v].replay # <<>>
    /\ LET n == [node[v] EXCEPT !.replay = Tail(@)]
       IN  \E x \in OnMessage(v, n, Head(node[v].replay)) :
               IF x.height = n.height /\ x.replay = <<>>
                 THEN \E y \in Settle(v, x) : Step(v, y, Untouched)
                 ELSE Step(v, x, Untouched)
    /\ UNCHANGED <<restarts, losses>>

RoundTimeout(v) ==
    /\ Ready(v)
    /\ node[v].timerArmed
    /\ node[v].round < MaxRound
    /\ Synchronous => \A u, w \in Honest :
          node[w].height <= MaxHeight => link[u, w] = <<>> /\ node[w].replay = <<>>
    /\ \E n \in OnRoundTimeout(v, node[v]) : Step(v, n, Untouched)
    /\ UNCHANGED <<restarts, losses>>

\* The chain moved under the engine: the event names a height that is new
\* to it.  The feed is lossy, so heights may be skipped.
HeadMoved(v) ==
    /\ node[v].replay = <<>>
    /\ \E h \in node[v].height .. Len(node[v].chain) :
           \E n \in OnHeadMoved(v, node[v], h) : Step(v, n, Untouched)
    /\ UNCHANGED <<restarts, losses>>

\* The follower applies the next block of another validator's chain.  The
\* engine hears of it in a later event.
CatchUp(v, w) ==
    /\ Len(node[v].chain) < Len(node[w].chain)
    /\ node' = [node EXCEPT ![v].chain = Append(@, node[w].chain[Len(@) + 1])]
    /\ UNCHANGED <<link, cast, restarts, losses>>

\* A failed send: the worker logs it and goes on to the next message.
Lose(u, v) ==
    /\ losses < MaxLosses /\ restarts + losses < MaxFaults
    /\ link[u, v] # <<>>
    /\ link' = [link EXCEPT ![<<u, v>>] = Tail(@)]
    /\ losses' = losses + 1
    /\ UNCHANGED <<node, cast, restarts>>

\* A process restart: the chain is on disk, everything else was in memory.
\* The queues of its links may go with it.
Boot(n) ==
    [n EXCEPT !.queue = 0, !.candidate = 0, !.synced = FALSE, !.future = <<>>]

Restart(v) ==
    /\ Ready(v)
    /\ restarts < MaxRestarts /\ restarts + losses < MaxFaults
    /\ restarts' = restarts + 1
    /\ \E n \in StartHeight(v, Boot(node[v]), Len(node[v].chain) + 1) :
           \/ Step(v, n, Untouched)
           \/ Step(v, n, [p \in Honest \X Honest |-> IF v \in {p[1], p[2]} THEN Len(link[p]) ELSE 0])
    /\ UNCHANGED losses

\* A Byzantine validator puts any signed message of a bounded height and
\* round in front of any honest one.
Forge(m, v) ==
    /\ Ready(v)
    /\ \E n \in OnMessage(v, node[v], m) : n # node[v] /\ Step(v, n, Untouched)
    /\ UNCHANGED <<restarts, losses>>

ForgedMessages(h) ==
    {m \in {Message(t, h, r, b, 0, z) :
                t \in Forgeable, r \in 0 .. MaxRound, b \in Blocks \cup {NoBlock}, z \in Byz} :
        /\ m.type = "COMMIT" => m.round = 0
        /\ m.type # "ROUND_CHANGE" => m.block # NoBlock}

-----------------------------------------------------------------------------
GenesisNode ==
    [height |-> 1, round |-> 0, ph |-> "idle", proposal |-> NoBlock,
     locked |-> NoBlock, lockedRound |-> 0, seen |-> {}, faulty |-> {},
     prepares |-> {}, commits |-> {}, timerArmed |-> FALSE, peerActivity |-> FALSE,
     queue |-> 0, candidate |-> 0, synced |-> TRUE, chain |-> <<>>, future |-> <<>>,
     replay |-> <<>>, out |-> <<>>]

Init ==
    /\ node = [v \in Honest |-> GenesisNode]
    /\ link = [p \in Honest \X Honest |-> <<>>]
    /\ cast = {}
    /\ restarts = 0 /\ losses = 0

\* What happens within one height ...
HeightNext ==
    \/ \E v \in Honest \cap Clients : Submit(v)
    \/ \E v \in Honest : RoundTimeout(v) \/ HeadMoved(v)
    \/ \E v, w \in Honest : Deliver(v, w) \/ CatchUp(v, w)
    \/ \E v \in Honest : \E m \in ForgedMessages(node[v].height) : Forge(m, v)

\* ... and what needs a second one, or a fault.
Next ==
    \/ HeightNext
    \/ \E v \in Honest : Replay(v) \/ Restart(v)
    \/ \E v, w \in Honest : Lose(v, w)

\* With MaxHeight = 1 and MaxFaults = 0 the two have the same behaviours.
HeightSpec == Init /\ [][HeightNext]_vars
Spec == Init /\ [][Next]_vars

\* The goroutine and its timer keep running and what is sent arrives.
Fairness ==
    /\ \A v \in Honest :
        /\ WF_vars(RoundTimeout(v))
        /\ WF_vars(HeadMoved(v))
        /\ WF_vars(\E w \in Honest : CatchUp(v, w))
        /\ WF_vars(\E u \in Honest : Deliver(u, v))

FairSpec == HeightSpec /\ Fairness

-----------------------------------------------------------------------------
TypeOK ==
    /\ \A v \in Honest :
        /\ node[v].height \in Nat \ {0} /\ node[v].round \in 0 .. MaxRound
        /\ node[v].ph \in {"idle", "prePrepared", "prepared"}
        /\ node[v].proposal \in BlockOrNil /\ node[v].locked \in BlockOrNil
        /\ node[v].lockedRound \in Nat
        /\ node[v].seen \subseteq Messages
        /\ node[v].faulty \subseteq Validators
        /\ node[v].prepares \subseteq BlockOrNil \X Validators
        /\ node[v].commits \subseteq BlockOrNil \X Validators
        /\ node[v].queue \in 0 .. MaxQueue
        /\ node[v].chain \in Seq(Blocks)
        /\ node[v].out = <<>>
        /\ node[v].future \in Seq(Messages) /\ node[v].replay \in Seq(Messages)
    /\ cast \subseteq Messages
    /\ link \in [Honest \X Honest -> Seq(Messages)]


\* CONSENSUS.md section 5: no two distinct blocks are finalized at a height.
Agreement ==
    \A v, w \in Honest : \A h \in 1 .. Len(node[v].chain) :
        h <= Len(node[w].chain) => node[v].chain[h] = node[w].chain[h]

\* enterRound: a lock "must not be forgotten under any circumstances", however
\* many rounds the height takes and whatever lock a quorum reports.
LockHeld ==
    [][\A v \in Honest :
          /\ node[v].locked # NoBlock
          /\ node'[v].height = node[v].height
          /\ restarts' = restarts
          => node'[v].locked = node[v].locked]_vars

Quorums == {Q \in SUBSET Validators : Cardinality(Q) >= Quorum}

\* What the engine promises as a whole: it implements module Finality.
Ledger == INSTANCE Finality WITH
    Byz <- Byz \cup Down,
    cast <- {[signer |-> m.signer, height |-> m.height, block |-> m.block] : m \in cast},
    chain <- [v \in Honest |-> node[v].chain]

LedgerSpec == Ledger!Spec

\* The quiescence rule must not lose a wake-up: whoever has a write, a
\* proposal, a lock or an active peer at its height has a timer running.
WorkPending(n) ==
    n.queue > 0 \/ n.ph # "idle" \/ n.locked # NoBlock \/ n.peerActivity

WorkIsTimed ==
    \A v \in Honest : Ready(v) /\ WorkPending(node[v]) => node[v].timerArmed

\* The equivocation detector never accuses a validator that follows the
\* protocol, whatever order its messages arrive in.  One that restarts has
\* forgotten what it signed.
HonestNotFaulty == restarts = 0 => \A v \in Honest : node[v].faulty \cap Honest = {}

\* The engine's state is well formed, and it accuses nobody wrongly.
EngineInv == TypeOK /\ HonestNotFaulty

\* armTimer: the first N rounds are one rotation, and "a transaction
\* submitted to a node whose turn has just passed" lands within it.  A write
\* accepted in round 0 is answered before anyone leaves round N.
WritesLand ==
    \A v \in Honest :
        (node[v].queue > 0 /\ node[v].round = 0 /\ node[v].height <= MaxHeight)
            ~> (node[v].queue = 0 \/ node[v].height > MaxHeight)
=============================================================================
