------------------------------- MODULE DevClock -------------------------------
(***************************************************************************)
(* The time of the chain: how a block gets its timestamp                   *)
(* (internal/chain/seal.go, sequencer.go), the dev clock that shifts it    *)
(* (evm_increaseTime, evm_setNextBlockTimestamp, evm_mine), what of that   *)
(* survives a restart, and, under consensus, the clock a validator takes   *)
(* over with each block it accepts (follow.go) and the bound it puts on    *)
(* the blocks it is offered (candidate.go).                                *)
(*                                                                         *)
(* now is the wall clock, the same at all nodes, in seconds.  An offset    *)
(* stays far inside the 136 years maxDevOffsetSeconds bounds it by, so     *)
(* the clamps, and the refusal of a longer jump, are left out.             *)
(***************************************************************************)
EXTENDS Integers, FiniteSets, Sequences

CONSTANTS
    ClockNodes,   \* the nodes; in solo mode only one of them, Sealer, builds
    Sealer,
    ClockQuorum,  \* of the ClockNodes, in BFT mode
    Modes,        \* the CONSENSUS_MODEs looked at: "solo", "bft"
    Drift,        \* MaxFutureDrift
    Jumps,        \* seconds evm_increaseTime is asked for
    Pins,         \* how far past the head a timestamp is asked for
    FirstWall, LastWall, \* the wall clock's range
    MaxBlocks,
    MaxDevCalls   \* of IncreaseTime and SetNextBlockTimestamp

ASSUME DevClockAssumption ==
    /\ Sealer \in ClockNodes /\ IsFiniteSet(ClockNodes)
    /\ ClockQuorum \in Nat \ {0}
    /\ Modes \subseteq {"solo", "bft"}
    /\ Drift \in Nat /\ Jumps \subseteq Nat /\ Pins \subseteq Nat \ {0}
    /\ FirstWall \in Nat /\ LastWall \in Nat
    /\ MaxBlocks \in Nat /\ MaxDevCalls \in Nat

NoPin == -1

VARIABLES
    mode, now,
    blocks,     \* what is final, in order: [time, dated, kept]
    offered,    \* the block being voted on, at most one: [block, yes]
    applied,    \* [ClockNodes -> Nat]: the blocks a node has on its chain
    devOffset,  \* [ClockNodes -> Int]
    pinnedTime, \* [ClockNodes -> Nat or NoPin]
    \* History: when a node got its head or was started, the time it promised
    \* its next block since, and the seconds its head is ahead of its clock
    \* because blocks were sealed within one second.
    since, promised, hurry,
    pins,       \* whether any timestamp was ever asked for
    devCalls

clockVars == <<mode, now, blocks, offered, applied, devOffset, pinnedTime,
               since, promised, hurry, pins, devCalls>>
historyVars == <<since, promised, hurry>>

AtLeast(a, b) == IF a < b THEN b ELSE a

TimeOf(k) == IF k = 0 THEN 0 ELSE blocks[k].time
HeadTime(n) == TimeOf(applied[n])
Builders == IF mode = "solo" THEN {Sealer} ELSE ClockNodes

-----------------------------------------------------------------------------
(* The timestamp of the next block.                                        *)

\* Mutant: the wall clock alone.
WallTimestamp(n) == now + devOffset[n]

NextTimestamp(n) == AtLeast(now + devOffset[n], HeadTime(n) + 1)

PeekTimestamp(n, pin) ==
    IF pin = NoPin THEN NextTimestamp(n) ELSE AtLeast(pin, HeadTime(n) + 1)

\* What a clock that starts from the head and runs with the wall clock would
\* show now.
Due(n) == AtLeast(promised[n], HeadTime(n) + (now - since[n]) - hurry[n])

\* Of its making, a block notes whether it is dated now, or later, and
\* whether it is due; one that is given its time is not asked.
NewBlock(n, pin) ==
    LET t == PeekTimestamp(n, pin)
    IN  [time |-> t, dated |-> t >= now, kept |-> pin # NoPin \/ t >= Due(n)]

-----------------------------------------------------------------------------
(* evm_setNextBlockTimestamp and evm_increaseTime.                         *)

SetNextBlockTimestamp(n, ts) ==
    /\ devCalls < MaxDevCalls /\ devCalls' = devCalls + 1
    /\ ts > HeadTime(n)
    /\ pinnedTime' = [pinnedTime EXCEPT ![n] = ts]
    /\ pins' = TRUE
    /\ UNCHANGED <<mode, now, blocks, offered, applied, devOffset, historyVars>>

\* Mutant: added to the offset, wherever the head is.
IncreaseTimeOffWall(n, s) ==
    /\ devCalls < MaxDevCalls /\ devCalls' = devCalls + 1
    /\ devOffset' = [devOffset EXCEPT ![n] = @ + s]
    /\ promised' = [promised EXCEPT ![n] = AtLeast(@, HeadTime(n) + s)]
    /\ UNCHANGED <<mode, now, blocks, offered, applied, pinnedTime, since, hurry, pins>>

IncreaseTime(n, s) ==
    /\ devCalls < MaxDevCalls /\ devCalls' = devCalls + 1
    /\ devOffset' = [devOffset EXCEPT ![n] = AtLeast(@ + s, HeadTime(n) + s - now)]
    /\ promised' = [promised EXCEPT ![n] = AtLeast(@, HeadTime(n) + s)]
    /\ UNCHANGED <<mode, now, blocks, offered, applied, pinnedTime, since, hurry, pins>>

\* The process is started again: seedDevClockFromHead.  Mutant first.
RestartsUnseeded(n) ==
    /\ devOffset' = [devOffset EXCEPT ![n] = 0]
    /\ pinnedTime' = [pinnedTime EXCEPT ![n] = NoPin]
    /\ since' = [since EXCEPT ![n] = now]
    /\ promised' = [promised EXCEPT ![n] = 0]
    /\ hurry' = [hurry EXCEPT ![n] = 0]
    /\ UNCHANGED <<mode, now, blocks, offered, applied, pins, devCalls>>

Restarts(n) ==
    /\ devOffset' = [devOffset EXCEPT ![n] = AtLeast(0, HeadTime(n) - now)]
    /\ pinnedTime' = [pinnedTime EXCEPT ![n] = NoPin]
    /\ since' = [since EXCEPT ![n] = now]
    /\ promised' = [promised EXCEPT ![n] = 0]
    /\ hurry' = [hurry EXCEPT ![n] = 0]
    /\ UNCHANGED <<mode, now, blocks, offered, applied, pins, devCalls>>

-----------------------------------------------------------------------------
(* Solo mode: what is built is sealed.                                     *)

\* commitTimestamp follows the sync; if that fails the head has moved, the
\* caller gets the error, and the pin stays.
SealBlock(n, pin, synced) ==
    LET block == NewBlock(n, pin)
    IN  /\ Len(blocks) < MaxBlocks
        /\ blocks' = Append(blocks, block)
        /\ applied' = [applied EXCEPT ![n] = @ + 1]
        /\ pinnedTime' = [pinnedTime EXCEPT ![n] = IF synced THEN NoPin ELSE pin]
        /\ devOffset' = [devOffset EXCEPT ![n] = IF synced /\ pin # NoPin THEN block.time - now ELSE @]
        /\ since' = [since EXCEPT ![n] = now]
        /\ promised' = [promised EXCEPT ![n] = 0]
        /\ hurry' = [hurry EXCEPT ![n] =
                       IF pin # NoPin THEN 0 ELSE AtLeast(0, @ + 1 - (now - since[n]))]
        /\ UNCHANGED <<mode, now, offered, devCalls>>

\* SubmitTx, MineEmptyBlock, SetBalance.
SealNext(n, synced) ==
    mode = "solo" /\ SealBlock(n, pinnedTime[n], synced) /\ UNCHANGED pins

\* MineEmptyBlockAt.
SealAt(n, ts, synced) ==
    mode = "solo" /\ ts > HeadTime(n) /\ SealBlock(n, ts, synced) /\ pins' = TRUE

-----------------------------------------------------------------------------
(* BFT mode: what is built is offered, and sealed once a quorum has        *)
(* prepared it.  Nothing of the vote but that is kept here.                *)

Offer(n, pin) ==
    /\ mode = "bft" /\ offered = {} /\ applied[n] = Len(blocks) /\ Len(blocks) < MaxBlocks
    /\ offered' = {[block |-> NewBlock(n, pin), yes |-> {n}]}
    /\ UNCHANGED <<mode, now, blocks, applied, devOffset, pinnedTime, historyVars, devCalls>>

\* BuildCandidate, BuildSysOpCandidate, BuildEmptyCandidate without a time.
BuildCandidate(n) == Offer(n, pinnedTime[n]) /\ UNCHANGED pins

BuildEmptyCandidateAt(n, ts) == ts > HeadTime(n) /\ Offer(n, ts) /\ pins' = TRUE

\* VerifyCandidate, of the block's time.
VerifyOffered(n, o) ==
    /\ n \notin o.yes /\ applied[n] = Len(blocks)
    /\ o.block.time <= now + devOffset[n] + Drift
    /\ o.block.time > HeadTime(n)
    /\ offered' = {[o EXCEPT !.yes = @ \cup {n}]}
    /\ UNCHANGED <<mode, now, blocks, applied, devOffset, pinnedTime, historyVars, pins, devCalls>>

\* A round change: what was built is gone, and no node's pin with it.
DropCandidate(o) ==
    /\ Cardinality(o.yes) < ClockQuorum
    /\ offered' = {}
    /\ UNCHANGED <<mode, now, blocks, applied, devOffset, pinnedTime, historyVars, pins, devCalls>>

SealOffered(o) ==
    /\ Cardinality(o.yes) >= ClockQuorum
    /\ blocks' = Append(blocks, o.block)
    /\ offered' = {}
    /\ UNCHANGED <<mode, now, applied, devOffset, pinnedTime, historyVars, pins, devCalls>>

\* Mutant: the clock is left alone, as it is in solo mode.
ApplyOfferedUnadopted(n) ==
    /\ mode = "bft" /\ applied[n] < Len(blocks)
    /\ applied' = [applied EXCEPT ![n] = @ + 1]
    /\ since' = [since EXCEPT ![n] = now]
    /\ promised' = [promised EXCEPT ![n] = 0]
    /\ hurry' = [hurry EXCEPT ![n] = 0]
    /\ UNCHANGED <<mode, now, blocks, offered, devOffset, pinnedTime, pins, devCalls>>

\* ApplyExternalBlock, when the engine finalizes the block or the follower
\* pulls it: adoptTimestamp sets the offset, whichever way it moves, and the
\* pin is not consumed.
ApplyOffered(n) ==
    /\ mode = "bft" /\ applied[n] < Len(blocks)
    /\ applied' = [applied EXCEPT ![n] = @ + 1]
    /\ devOffset' = [devOffset EXCEPT ![n] = blocks[applied[n] + 1].time - now]
    /\ since' = [since EXCEPT ![n] = now]
    /\ promised' = [promised EXCEPT ![n] = 0]
    /\ hurry' = [hurry EXCEPT ![n] = 0]
    /\ UNCHANGED <<mode, now, blocks, offered, pinnedTime, pins, devCalls>>

ClockTicks ==
    /\ now < LastWall
    /\ now' = now + 1
    /\ UNCHANGED <<mode, blocks, offered, applied, devOffset, pinnedTime, historyVars, pins, devCalls>>

-----------------------------------------------------------------------------
ClockInit ==
    /\ mode \in Modes /\ now = FirstWall
    /\ blocks = <<>> /\ offered = {}
    /\ applied = [n \in ClockNodes |-> 0]
    /\ devOffset = [n \in ClockNodes |-> 0]
    /\ pinnedTime = [n \in ClockNodes |-> NoPin]
    /\ since = [n \in ClockNodes |-> FirstWall]
    /\ promised = [n \in ClockNodes |-> 0]
    /\ hurry = [n \in ClockNodes |-> 0]
    /\ pins = FALSE /\ devCalls = 0

DevCall(n) ==
    \/ \E s \in Jumps : IncreaseTime(n, s)
    \/ \E d \in Pins : SetNextBlockTimestamp(n, HeadTime(n) + d)
    \/ \E d \in Pins : BuildEmptyCandidateAt(n, HeadTime(n) + d)
    \/ \E d \in Pins, synced \in BOOLEAN : SealAt(n, HeadTime(n) + d, synced)

ClockNext ==
    \/ \E n \in Builders :
         \/ DevCall(n) \/ Restarts(n)
         \/ \E synced \in BOOLEAN : SealNext(n, synced)
         \/ BuildCandidate(n) \/ ApplyOffered(n)
         \/ \E o \in offered : VerifyOffered(n, o)
    \/ \E o \in offered : DropCandidate(o) \/ SealOffered(o)
    \/ ClockTicks

ClockSpec == ClockInit /\ [][ClockNext]_clockVars

-----------------------------------------------------------------------------
\* Where no timestamp was ever asked for, no block is dated before the
\* moment it was built: the time of a block is the wall clock's, or later.
DatedNow == ~pins => \A k \in 1 .. Len(blocks) : blocks[k].dated

\* The deadlines of an election are met by a clock that does not stand
\* still: a block is later than its parent, and by as much as was promised
\* and as passed since its builder had the parent or was started; of a
\* burst of blocks, and a restart, only the burst's seconds are made up.
\* With one sealer, blocks are dated now, too.
ClockInv ==
    /\ \A k \in 1 .. Len(blocks) : blocks[k].time > TimeOf(k - 1)
    /\ \A k \in 1 .. Len(blocks) : blocks[k].kept
    /\ mode = "solo" => DatedNow
=============================================================================
