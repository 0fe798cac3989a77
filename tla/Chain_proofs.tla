----------------------------- MODULE Chain_proofs -----------------------------
(***************************************************************************)
(* Proofs about the chain of a node, its copies and what gets into it.     *)
(* DevClock: block times grow, and keep what was promised.  Replication,   *)
(* for any replicas, sizes of queues and pages and number of retries: what *)
(* is answered is within what is on disk, and every block a replica holds, *)
(* or that is on its way to one, is or was the primary's.  Submission, for *)
(* any validators and writes: the chain takes an account's transactions in *)
(* nonce order, because an offer that reaches the vote was built on the    *)
(* chain as it is; and no engine drops a write it does not answer, because *)
(* each of its operations hands on what it held.                           *)
(***************************************************************************)
EXTENDS DevClock, Replication, Submission, Induction_proofs, SequenceTheorems, TLAPS

-----------------------------------------------------------------------------
(* The time of the chain.                                                  *)

Block == [time : Nat, dated : BOOLEAN, kept : BOOLEAN]

\* The variables keep their shapes; a node has applied what is final, and all
\* of it where only one builds.
ClockType ==
    /\ mode \in {"solo", "bft"} /\ now \in Nat
    /\ blocks \in Seq(Block)
    /\ offered \subseteq [block : Block, yes : SUBSET ClockNodes]
    /\ applied \in [ClockNodes -> 0 .. Len(blocks)]
    /\ devOffset \in [ClockNodes -> Int]
    /\ pinnedTime \in [ClockNodes -> Nat \cup {NoPin}]
    /\ since \in [ClockNodes -> Nat]
    /\ promised \in [ClockNodes -> Nat]
    /\ hurry \in [ClockNodes -> Nat]
    /\ pins \in BOOLEAN
    /\ mode = "solo" => applied[Sealer] = Len(blocks) /\ offered = {}

\* What a node promised it shows, and without a pin at least the time that
\* has passed since its head.
ClockKept ==
    \A n \in ClockNodes :
        /\ promised[n] = 0 \/ promised[n] <= now + devOffset[n]
        /\ pinnedTime[n] = NoPin => HeadTime(n) - since[n] - hurry[n] <= devOffset[n]

\* Block times grow, and the block on offer is later than all; whatever is
\* built is due.
TimesGrow ==
    /\ \A k \in 1 .. Len(blocks) : blocks[k].time > TimeOf(k - 1) /\ blocks[k].kept
    /\ \A o \in offered : o.block.time > TimeOf(Len(blocks)) /\ o.block.kept

\* With one sealer, whose clock nobody set, no offset is negative.
SoloDated ==
    mode = "solo" /\ ~pins =>
        /\ devOffset[Sealer] >= 0 /\ pinnedTime[Sealer] = NoPin
        /\ \A k \in 1 .. Len(blocks) : blocks[k].dated

ClockIInv == ClockType /\ ClockKept /\ TimesGrow /\ SoloDated

\* The times of a node are numbers.
LEMMA NodeTimes ==
    ASSUME ClockType, NEW n \in ClockNodes
    PROVE  /\ HeadTime(n) \in Nat /\ now \in Nat /\ devOffset[n] \in Int
           /\ since[n] \in Nat /\ promised[n] \in Nat /\ hurry[n] \in Nat
<1>1. applied[n] \in 0 .. Len(blocks) /\ blocks \in Seq(Block)
  BY DEF ClockType
<1>2. ASSUME applied[n] # 0 PROVE blocks[applied[n]] \in Block
  BY <1>1, <1>2
<1>3. applied[n] # 0 => blocks[applied[n]].time \in Nat
  BY <1>2 DEF Block
<1> QED BY <1>3 DEF HeadTime, TimeOf, ClockType

\* A block is later than its parent, due, and dated unless the clock was
\* turned back.
LEMMA NewBlockFacts ==
    ASSUME ClockType, ClockKept, NEW n \in ClockNodes, NEW pin \in Nat \cup {NoPin},
           pin = NoPin => pinnedTime[n] = NoPin
    PROVE  /\ NewBlock(n, pin) \in Block
           /\ NewBlock(n, pin).time > HeadTime(n)
           /\ NewBlock(n, pin).kept
           /\ pin = NoPin => NewBlock(n, pin).time = NextTimestamp(n)
           /\ devOffset[n] >= 0 /\ pin = NoPin => NewBlock(n, pin).dated
<1>1. /\ HeadTime(n) \in Nat /\ now \in Nat /\ devOffset[n] \in Int /\ since[n] \in Nat
      /\ promised[n] \in Nat /\ hurry[n] \in Nat
  BY NodeTimes
<1>2. PeekTimestamp(n, pin) \in Nat /\ PeekTimestamp(n, pin) > HeadTime(n)
  BY <1>1 DEF PeekTimestamp, NextTimestamp, AtLeast, NoPin
<1>3. /\ NewBlock(n, pin).time = PeekTimestamp(n, pin)
      /\ NewBlock(n, pin).dated = (PeekTimestamp(n, pin) >= now)
      /\ NewBlock(n, pin).kept = (pin # NoPin \/ PeekTimestamp(n, pin) >= Due(n))
      /\ NewBlock(n, pin) \in Block
  BY <1>2 DEF NewBlock, Block
<1>4. pin = NoPin => PeekTimestamp(n, pin) = NextTimestamp(n) /\ NextTimestamp(n) >= Due(n)
  BY <1>1 DEF PeekTimestamp, NextTimestamp, AtLeast, Due, ClockKept
<1>5. devOffset[n] >= 0 /\ pin = NoPin => PeekTimestamp(n, pin) >= now
  BY <1>1 DEF PeekTimestamp, NextTimestamp, AtLeast
<1> QED BY <1>2, <1>3, <1>4, <1>5

LEMMA ClockInitInv == ClockInit => ClockIInv
<1> SUFFICES ASSUME ClockInit PROVE ClockIInv
  OBVIOUS
<1>1. ClockType
  <2>1. blocks = <<>> /\ <<>> \in Seq(Block) /\ Len(blocks) = 0
    BY DEF ClockInit
  <2>2. mode \in {"solo", "bft"} /\ now \in Nat /\ pins \in BOOLEAN /\ offered = {}
    BY DevClockAssumption DEF ClockInit
  <2>3. /\ applied \in [ClockNodes -> 0 .. 0] /\ applied[Sealer] = 0
        /\ devOffset \in [ClockNodes -> Int]
        /\ pinnedTime \in [ClockNodes -> Nat \cup {NoPin}]
        /\ since \in [ClockNodes -> Nat]
        /\ promised \in [ClockNodes -> Nat]
        /\ hurry \in [ClockNodes -> Nat]
    BY DevClockAssumption DEF ClockInit
  <2> QED BY <2>1, <2>2, <2>3 DEF ClockType
<1>2. ClockKept
  BY DevClockAssumption DEF ClockInit, ClockKept, HeadTime, TimeOf
<1>3. TimesGrow /\ SoloDated
  BY DevClockAssumption DEF ClockInit, TimesGrow, SoloDated
<1> QED BY <1>1, <1>2, <1>3 DEF ClockIInv

\* evm_increaseTime: the clock moves forward, and as far as was promised.
LEMMA IncreaseTimeInv ==
    ASSUME ClockIInv, NEW n \in ClockNodes, NEW s \in Nat, IncreaseTime(n, s)
    PROVE  ClockIInv'
<1> DEFINE off == AtLeast(devOffset[n] + s, HeadTime(n) + s - now)
           due == AtLeast(promised[n], HeadTime(n) + s)
<1>1. UNCHANGED <<mode, now, blocks, offered, applied, pinnedTime, since, hurry, pins>>
  BY DEF IncreaseTime
<1>2. /\ off \in Int /\ off >= devOffset[n] /\ now + off >= HeadTime(n) + s
      /\ due \in Nat /\ due \in {promised[n], HeadTime(n) + s}
  BY NodeTimes DEF ClockIInv, AtLeast
<1>3. devOffset' = [devOffset EXCEPT ![n] = off] /\ promised' = [promised EXCEPT ![n] = due]
  BY DEF IncreaseTime
<1> HIDE DEF off, due
<1>4. ClockType'
  BY <1>1, <1>2, <1>3 DEF ClockIInv, ClockType
<1>5. ClockKept'
  <2> SUFFICES ASSUME NEW x \in ClockNodes
               PROVE  /\ promised'[x] = 0 \/ promised'[x] <= now + devOffset'[x]
                      /\ pinnedTime[x] = NoPin => HeadTime(x) - since[x] - hurry[x] <= devOffset'[x]
    BY <1>1 DEF ClockKept, HeadTime, TimeOf
  <2>1. /\ devOffset'[x] = (IF x = n THEN off ELSE devOffset[x])
        /\ promised'[x] = (IF x = n THEN due ELSE promised[x])
    BY <1>3 DEF ClockIInv, ClockType
  <2> QED BY <1>2, <2>1, NodeTimes DEF ClockIInv, ClockKept
<1>6. TimesGrow' /\ SoloDated'
  BY <1>1, <1>2, <1>3, DevClockAssumption DEF ClockIInv, ClockType, TimesGrow, SoloDated, TimeOf
<1> QED BY <1>4, <1>5, <1>6 DEF ClockIInv

\* evm_setNextBlockTimestamp: a pin, and nothing else.
LEMMA SetNextBlockTimestampInv ==
    ASSUME ClockIInv, NEW n \in ClockNodes, NEW ts \in Nat, SetNextBlockTimestamp(n, ts)
    PROVE  ClockIInv'
<1>1. UNCHANGED <<mode, now, blocks, offered, applied, devOffset, since, promised, hurry>>
  BY DEF SetNextBlockTimestamp, historyVars
<1>2. pins' = TRUE /\ pinnedTime' = [pinnedTime EXCEPT ![n] = ts]
  BY DEF SetNextBlockTimestamp
<1>3. ClockType'
  BY <1>1, <1>2 DEF ClockIInv, ClockType
<1>4. ASSUME NEW x \in ClockNodes PROVE pinnedTime'[x] = NoPin => pinnedTime[x] = NoPin
  BY <1>2 DEF ClockIInv, ClockType, NoPin
<1>5. ClockKept'
  BY <1>1, <1>4 DEF ClockIInv, ClockKept, HeadTime, TimeOf
<1>6. TimesGrow' /\ SoloDated'
  BY <1>1, <1>2 DEF ClockIInv, TimesGrow, SoloDated, TimeOf
<1> QED BY <1>3, <1>5, <1>6 DEF ClockIInv

\* A process that starts again shows its head's time, or the wall clock's.
LEMMA RestartsInv ==
    ASSUME ClockIInv, NEW n \in ClockNodes, Restarts(n)
    PROVE  ClockIInv'
<1> DEFINE off == AtLeast(0, HeadTime(n) - now)
<1>1. UNCHANGED <<mode, now, blocks, offered, applied, pins>>
  BY DEF Restarts
<1>2. off \in Nat /\ off >= HeadTime(n) - now
  BY NodeTimes DEF ClockIInv, AtLeast
<1>3. /\ devOffset' = [devOffset EXCEPT ![n] = off]
      /\ pinnedTime' = [pinnedTime EXCEPT ![n] = NoPin]
      /\ since' = [since EXCEPT ![n] = now]
      /\ promised' = [promised EXCEPT ![n] = 0]
      /\ hurry' = [hurry EXCEPT ![n] = 0]
  BY DEF Restarts
<1> HIDE DEF off
<1>4. ClockType'
  BY <1>1, <1>2, <1>3 DEF ClockIInv, ClockType
<1>5. ClockKept'
  <2> SUFFICES ASSUME NEW x \in ClockNodes
               PROVE  /\ promised'[x] = 0 \/ promised'[x] <= now + devOffset'[x]
                      /\ pinnedTime'[x] = NoPin => HeadTime(x) - since'[x] - hurry'[x] <= devOffset'[x]
    BY <1>1 DEF ClockKept, HeadTime, TimeOf
  <2>1. CASE x = n
    BY <1>2, <1>3, <2>1, NodeTimes DEF ClockIInv, ClockType
  <2>2. CASE x # n
    BY <1>3, <2>2, NodeTimes DEF ClockIInv, ClockType, ClockKept
  <2> QED BY <2>1, <2>2
<1>6. TimesGrow' /\ SoloDated'
  BY <1>1, <1>2, <1>3, DevClockAssumption DEF ClockIInv, ClockType, TimesGrow, SoloDated, TimeOf
<1> QED BY <1>4, <1>5, <1>6 DEF ClockIInv

\* The wall clock runs on.
LEMMA TickInv ==
    ASSUME ClockIInv, ClockTicks
    PROVE  ClockIInv'
<1>1. /\ now' = now + 1
      /\ UNCHANGED <<mode, blocks, offered, applied, devOffset, pinnedTime, since, promised, hurry, pins>>
  BY DEF ClockTicks, historyVars
<1>2. ClockType'
  BY <1>1 DEF ClockIInv, ClockType
<1>3. ClockKept'
  <2> SUFFICES ASSUME NEW x \in ClockNodes
               PROVE  /\ promised[x] = 0 \/ promised[x] <= now + 1 + devOffset[x]
                      /\ pinnedTime[x] = NoPin => HeadTime(x) - since[x] - hurry[x] <= devOffset[x]
    BY <1>1 DEF ClockKept, HeadTime, TimeOf
  <2> QED BY NodeTimes DEF ClockIInv, ClockKept
<1>4. TimesGrow' /\ SoloDated'
  BY <1>1 DEF ClockIInv, TimesGrow, SoloDated, TimeOf
<1> QED BY <1>2, <1>3, <1>4 DEF ClockIInv

\* Solo mode: the block becomes the head.  A pin is used up with the sync.
LEMMA SealBlockInv ==
    ASSUME ClockIInv, mode = "solo", NEW pin \in Nat \cup {NoPin}, NEW synced \in BOOLEAN,
           pin = NoPin => pinnedTime[Sealer] = NoPin,
           SealBlock(Sealer, pin, synced), pins' = IF pin = NoPin THEN pins ELSE TRUE
    PROVE  ClockIInv'
<1> DEFINE n == Sealer
           b == NewBlock(n, pin)
           off == IF synced /\ pin # NoPin THEN b.time - now ELSE devOffset[n]
           rush == IF pin # NoPin THEN 0 ELSE AtLeast(0, hurry[n] + 1 - (now - since[n]))
           left == IF synced THEN NoPin ELSE pin
<1>0. n \in ClockNodes /\ ClockType /\ ClockKept /\ applied[n] = Len(blocks) /\ offered = {}
  BY DevClockAssumption DEF ClockIInv, ClockType
<1>1. /\ b \in Block /\ b.time > HeadTime(n) /\ b.kept
      /\ pin = NoPin => b.time = NextTimestamp(n)
      /\ devOffset[n] >= 0 /\ pin = NoPin => b.dated
  BY <1>0, NewBlockFacts
<1>2. /\ HeadTime(n) \in Nat /\ now \in Nat /\ devOffset[n] \in Int /\ since[n] \in Nat
      /\ promised[n] \in Nat /\ hurry[n] \in Nat /\ b.time \in Nat
  BY <1>0, <1>1, NodeTimes DEF Block
<1>3. /\ blocks' = Append(blocks, b)
      /\ applied' = [applied EXCEPT ![n] = @ + 1]
      /\ pinnedTime' = [pinnedTime EXCEPT ![n] = left]
      /\ devOffset' = [devOffset EXCEPT ![n] = off]
      /\ since' = [since EXCEPT ![n] = now]
      /\ promised' = [promised EXCEPT ![n] = 0]
      /\ hurry' = [hurry EXCEPT ![n] = rush]
      /\ UNCHANGED <<mode, now, offered, devCalls>>
  BY DEF SealBlock
<1>4. off \in Int /\ rush \in Nat /\ left \in Nat \cup {NoPin}
  BY <1>2 DEF AtLeast, NoPin
<1>5. left = NoPin => b.time - now - rush <= off
  <2>1. CASE pin = NoPin
    <3>1. HeadTime(n) - since[n] - hurry[n] <= devOffset[n]
      BY <1>0, <2>1 DEF ClockKept
    <3>2. rush >= 0 /\ rush >= hurry[n] + 1 - (now - since[n]) /\ off = devOffset[n]
      BY <1>2, <2>1 DEF AtLeast
    <3>3. b.time = now + devOffset[n] \/ b.time = HeadTime(n) + 1
      BY <1>1, <2>1 DEF NextTimestamp, AtLeast
    <3> QED BY <1>2, <1>4, <3>1, <3>2, <3>3
  <2>2. CASE pin # NoPin
    BY <1>2, <2>2
  <2> QED BY <2>1, <2>2
<1> HIDE DEF b, off, rush, left
<1>6. /\ blocks \in Seq(Block) /\ blocks' \in Seq(Block) /\ Len(blocks') = Len(blocks) + 1
      /\ \A k \in 1 .. Len(blocks) : blocks'[k] = blocks[k]
      /\ blocks'[Len(blocks) + 1] = b
  BY <1>0, <1>1, <1>3 DEF ClockType
<1>7. ClockType'
  <2>1. applied' \in [ClockNodes -> 0 .. Len(blocks')] /\ applied'[Sealer] = Len(blocks')
    BY <1>0, <1>3, <1>6 DEF ClockType
  <2> QED BY <1>0, <1>2, <1>3, <1>4, <1>6, <2>1 DEF ClockType
<1>8. \A k \in 0 .. Len(blocks) : TimeOf(k)' = TimeOf(k)
  BY <1>6 DEF TimeOf
<1>9. HeadTime(n)' = b.time /\ \A x \in ClockNodes \ {n} : HeadTime(x)' = HeadTime(x)
  <2>1. applied'[n] = Len(blocks) + 1 /\ \A x \in ClockNodes \ {n} : applied'[x] = applied[x]
    BY <1>0, <1>3 DEF ClockType
  <2>2. Len(blocks) + 1 # 0
    BY <1>6
  <2>3. HeadTime(n)' = b.time
    BY <1>6, <2>1, <2>2 DEF HeadTime, TimeOf
  <2>4. \A x \in ClockNodes \ {n} : HeadTime(x)' = HeadTime(x)
    <3> SUFFICES ASSUME NEW x \in ClockNodes \ {n} PROVE HeadTime(x)' = HeadTime(x)
      OBVIOUS
    <3>1. applied[x] \in 0 .. Len(blocks)
      BY <1>0 DEF ClockType
    <3>2. TimeOf(applied[x])' = IF applied'[x] = 0 THEN 0 ELSE blocks'[applied'[x]].time
      BY DEF TimeOf
    <3>3. applied[x] # 0 => blocks'[applied[x]] = blocks[applied[x]]
      BY <1>6, <3>1
    <3> QED BY <2>1, <3>2, <3>3 DEF HeadTime, TimeOf
  <2> QED BY <2>3, <2>4
<1>10. ClockKept'
  <2> SUFFICES ASSUME NEW x \in ClockNodes
               PROVE  /\ promised'[x] = 0 \/ promised'[x] <= now + devOffset'[x]
                      /\ pinnedTime'[x] = NoPin => HeadTime(x)' - since'[x] - hurry'[x] <= devOffset'[x]
    BY <1>3 DEF ClockKept
  <2>1. CASE x = n
    BY <1>0, <1>3, <1>5, <1>9, <2>1 DEF ClockType
  <2>2. CASE x # n
    <3>1. /\ promised'[x] = promised[x] /\ pinnedTime'[x] = pinnedTime[x] /\ since'[x] = since[x]
          /\ hurry'[x] = hurry[x] /\ devOffset'[x] = devOffset[x] /\ HeadTime(x)' = HeadTime(x)
      BY <1>0, <1>3, <1>9, <2>2 DEF ClockType
    <3> QED BY <1>0, <3>1 DEF ClockKept
  <2> QED BY <2>1, <2>2
<1>11. TimesGrow'
  <2>1. TimeOf(Len(blocks)) = HeadTime(n)
    BY <1>0 DEF HeadTime
  <2>2. ASSUME NEW k \in 1 .. Len(blocks') PROVE blocks'[k].time > TimeOf(k - 1)' /\ blocks'[k].kept
    <3>1. TimeOf(k - 1)' = TimeOf(k - 1)
      BY <1>6, <1>8
    <3>2. CASE k = Len(blocks) + 1
      BY <1>1, <1>6, <2>1, <3>1, <3>2
    <3>3. CASE k # Len(blocks) + 1
      BY <1>6, <3>1, <3>3 DEF ClockIInv, TimesGrow
    <3> QED BY <3>2, <3>3
  <2> QED BY <1>0, <1>3, <2>2 DEF TimesGrow
<1>12. SoloDated'
  <2> SUFFICES ASSUME ~pins' PROVE /\ devOffset'[n] >= 0 /\ pinnedTime'[n] = NoPin
                                   /\ \A k \in 1 .. Len(blocks') : blocks'[k].dated
    BY DEF SoloDated
  <2>1. pin = NoPin /\ ~pins
    OBVIOUS
  <2>2. devOffset[n] >= 0 /\ \A k \in 1 .. Len(blocks) : blocks[k].dated
    BY <2>1 DEF ClockIInv, SoloDated
  <2>3. devOffset'[n] = devOffset[n] /\ pinnedTime'[n] = NoPin
    BY <1>0, <1>3, <2>1 DEF ClockType, off, left
  <2> QED BY <1>1, <1>6, <2>1, <2>2, <2>3
<1> QED BY <1>7, <1>10, <1>11, <1>12 DEF ClockIInv

\* What a validator builds is offered, and later than the head of all.
LEMMA OfferInv ==
    ASSUME ClockIInv, NEW n \in ClockNodes, NEW pin \in Nat \cup {NoPin},
           pin = NoPin => pinnedTime[n] = NoPin, Offer(n, pin), pins' \in BOOLEAN
    PROVE  ClockIInv'
<1> DEFINE b == NewBlock(n, pin)
<1>1. b \in Block /\ b.time > HeadTime(n) /\ b.kept
  BY NewBlockFacts DEF ClockIInv
<1>2. /\ mode = "bft" /\ applied[n] = Len(blocks) /\ offered' = {[block |-> b, yes |-> {n}]}
      /\ UNCHANGED <<mode, now, blocks, applied, devOffset, pinnedTime, since, promised, hurry>>
  BY DEF Offer, historyVars
<1> HIDE DEF b
<1>3. ClockType'
  BY <1>1, <1>2 DEF ClockIInv, ClockType
<1>4. ClockKept'
  BY <1>2 DEF ClockIInv, ClockKept, HeadTime, TimeOf
<1>5. TimesGrow' /\ SoloDated'
  BY <1>1, <1>2 DEF ClockIInv, TimesGrow, SoloDated, HeadTime, TimeOf
<1> QED BY <1>3, <1>4, <1>5 DEF ClockIInv

\* A validator's vote changes nothing of the block.
LEMMA VerifyOfferedInv ==
    ASSUME ClockIInv, NEW n \in ClockNodes, NEW o \in offered, VerifyOffered(n, o)
    PROVE  ClockIInv'
<1>1. /\ offered' = {[o EXCEPT !.yes = @ \cup {n}]}
      /\ UNCHANGED <<mode, now, blocks, applied, devOffset, pinnedTime, since, promised, hurry, pins>>
  BY DEF VerifyOffered, historyVars
<1>2. o \in [block : Block, yes : SUBSET ClockNodes] /\ mode # "solo"
  BY DEF ClockIInv, ClockType
<1>3. /\ [o EXCEPT !.yes = @ \cup {n}] \in [block : Block, yes : SUBSET ClockNodes]
      /\ [o EXCEPT !.yes = @ \cup {n}].block = o.block
  BY <1>2
<1>4. ClockType'
  BY <1>1, <1>2, <1>3 DEF ClockIInv, ClockType
<1>5. ClockKept'
  BY <1>1 DEF ClockIInv, ClockKept, HeadTime, TimeOf
<1>6. TimesGrow'
  BY <1>1, <1>3 DEF ClockIInv, TimesGrow, TimeOf
<1>7. SoloDated'
  BY <1>1 DEF ClockIInv, SoloDated
<1> QED BY <1>4, <1>5, <1>6, <1>7 DEF ClockIInv

\* A block that is dropped is gone.
LEMMA DropCandidateInv ==
    ASSUME ClockIInv, NEW o \in offered, DropCandidate(o)
    PROVE  ClockIInv'
<1>1. /\ offered' = {}
      /\ UNCHANGED <<mode, now, blocks, applied, devOffset, pinnedTime, since, promised, hurry, pins>>
  BY DEF DropCandidate, historyVars
<1>2. ClockType'
  BY <1>1 DEF ClockIInv, ClockType
<1>3. ClockKept' /\ TimesGrow' /\ SoloDated'
  BY <1>1 DEF ClockIInv, ClockKept, TimesGrow, SoloDated, HeadTime, TimeOf
<1> QED BY <1>2, <1>3 DEF ClockIInv

\* What a node has applied, it has at the same time as before.
LEMMA HeadTimesStand ==
    ASSUME ClockType, NEW b, blocks' = Append(blocks, b), applied' = applied
    PROVE  \A x \in ClockNodes : HeadTime(x)' = HeadTime(x)
<1> SUFFICES ASSUME NEW x \in ClockNodes PROVE HeadTime(x)' = HeadTime(x)
  OBVIOUS
<1>1. applied[x] \in 0 .. Len(blocks) /\ blocks \in Seq(Block)
  BY DEF ClockType
<1>2. applied[x] # 0 => blocks'[applied[x]] = blocks[applied[x]]
  BY <1>1
<1> QED BY <1>2 DEF HeadTime, TimeOf

\* The block on offer is final.
LEMMA SealOfferedInv ==
    ASSUME ClockIInv, NEW o \in offered, SealOffered(o)
    PROVE  ClockIInv'
<1>1. /\ blocks' = Append(blocks, o.block) /\ offered' = {}
      /\ UNCHANGED <<mode, now, applied, devOffset, pinnedTime, since, promised, hurry, pins>>
  BY DEF SealOffered, historyVars
<1>2. mode # "solo" /\ o.block \in Block /\ blocks \in Seq(Block)
  BY DEF ClockIInv, ClockType
<1>3. /\ blocks' \in Seq(Block) /\ Len(blocks') = Len(blocks) + 1
      /\ \A k \in 1 .. Len(blocks) : blocks'[k] = blocks[k]
      /\ blocks'[Len(blocks) + 1] = o.block
  BY <1>1, <1>2
<1>4. applied \in [ClockNodes -> 0 .. Len(blocks')]
  BY <1>3 DEF ClockIInv, ClockType
<1>5. ClockType'
  BY <1>1, <1>2, <1>3, <1>4 DEF ClockIInv, ClockType
<1>6. \A x \in ClockNodes : HeadTime(x)' = HeadTime(x)
  BY <1>1, HeadTimesStand DEF ClockIInv
<1>7. ClockKept'
  BY <1>1, <1>6 DEF ClockIInv, ClockKept
<1>8. ASSUME NEW k \in 1 .. Len(blocks') PROVE blocks'[k].time > TimeOf(k - 1)' /\ blocks'[k].kept
  <2>1. TimeOf(k - 1)' = TimeOf(k - 1)
    BY <1>3 DEF TimeOf
  <2>2. CASE k = Len(blocks) + 1
    BY <1>3, <2>1, <2>2 DEF ClockIInv, TimesGrow
  <2>3. CASE k # Len(blocks) + 1
    BY <1>3, <2>1, <2>3 DEF ClockIInv, TimesGrow
  <2> QED BY <2>2, <2>3
<1>9. TimesGrow' /\ SoloDated'
  BY <1>1, <1>2, <1>8 DEF TimesGrow, SoloDated
<1> QED BY <1>5, <1>7, <1>9 DEF ClockIInv

\* A block that is taken over brings its time with it.
LEMMA ApplyOfferedInv ==
    ASSUME ClockIInv, NEW n \in ClockNodes, ApplyOffered(n)
    PROVE  ClockIInv'
<1> DEFINE off == blocks[applied[n] + 1].time - now
<1>1. /\ mode = "bft" /\ applied[n] < Len(blocks)
      /\ applied' = [applied EXCEPT ![n] = @ + 1]
      /\ devOffset' = [devOffset EXCEPT ![n] = off]
      /\ since' = [since EXCEPT ![n] = now]
      /\ promised' = [promised EXCEPT ![n] = 0]
      /\ hurry' = [hurry EXCEPT ![n] = 0]
      /\ UNCHANGED <<mode, now, blocks, offered, pinnedTime, pins>>
  BY DEF ApplyOffered
<1>2. ClockType /\ applied[n] \in 0 .. Len(blocks) /\ blocks \in Seq(Block) /\ now \in Nat
  BY DEF ClockIInv, ClockType
<1>3. blocks[applied[n] + 1] \in Block
  BY <1>1, <1>2
<1>4. off \in Int /\ off + now = blocks[applied[n] + 1].time
  BY <1>2, <1>3 DEF Block
<1> HIDE DEF off
<1>5. ClockType'
  BY <1>1, <1>2, <1>4 DEF ClockType
<1>6. applied'[n] = applied[n] + 1 /\ HeadTime(n)' = now + off
  BY <1>1, <1>2, <1>4 DEF ClockType, HeadTime, TimeOf
<1>7. ClockKept'
  <2> SUFFICES ASSUME NEW x \in ClockNodes
               PROVE  /\ promised'[x] = 0 \/ promised'[x] <= now + devOffset'[x]
                      /\ pinnedTime[x] = NoPin => HeadTime(x)' - since'[x] - hurry'[x] <= devOffset'[x]
    BY <1>1 DEF ClockKept
  <2>1. CASE x = n
    BY <1>1, <1>2, <1>4, <1>6, <2>1 DEF ClockType
  <2>2. CASE x # n
    <3>1. /\ promised'[x] = promised[x] /\ since'[x] = since[x] /\ hurry'[x] = hurry[x]
          /\ devOffset'[x] = devOffset[x] /\ applied'[x] = applied[x]
      BY <1>1, <1>2, <2>2 DEF ClockType
    <3>2. HeadTime(x)' = HeadTime(x)
      BY <1>1, <3>1 DEF HeadTime, TimeOf
    <3> QED BY <3>1, <3>2 DEF ClockIInv, ClockKept
  <2> QED BY <2>1, <2>2
<1>8. TimesGrow' /\ SoloDated'
  BY <1>1 DEF ClockIInv, TimesGrow, SoloDated, TimeOf
<1> QED BY <1>5, <1>7, <1>8 DEF ClockIInv

LEMMA ClockNextInv == ClockIInv /\ [ClockNext]_clockVars => ClockIInv'
<1> SUFFICES ASSUME ClockIInv, [ClockNext]_clockVars PROVE ClockIInv'
  OBVIOUS
<1>1. ASSUME UNCHANGED clockVars PROVE ClockIInv'
  <2>1. ClockType'
    BY <1>1 DEF clockVars, ClockIInv, ClockType
  <2>2. ClockKept' /\ TimesGrow' /\ SoloDated'
    BY <1>1 DEF clockVars, ClockIInv, ClockKept, TimesGrow, SoloDated, HeadTime, TimeOf
  <2> QED BY <2>1, <2>2 DEF ClockIInv
<1>2. ASSUME NEW n \in Builders, DevCall(n) PROVE ClockIInv'
  <2>1. n \in ClockNodes /\ HeadTime(n) \in Nat /\ ClockType
    BY <1>2, DevClockAssumption, NodeTimes DEF Builders, ClockIInv
  <2>2. ASSUME NEW d \in Pins PROVE HeadTime(n) + d \in Nat /\ HeadTime(n) + d # NoPin
    BY <2>1, <2>2, DevClockAssumption DEF NoPin
  <2>3. ASSUME NEW s \in Jumps, IncreaseTime(n, s) PROVE ClockIInv'
    BY <2>1, <2>3, IncreaseTimeInv, DevClockAssumption
  <2>4. ASSUME NEW d \in Pins, SetNextBlockTimestamp(n, HeadTime(n) + d) PROVE ClockIInv'
    BY <2>1, <2>2, <2>4, SetNextBlockTimestampInv
  <2>5. ASSUME NEW d \in Pins, BuildEmptyCandidateAt(n, HeadTime(n) + d) PROVE ClockIInv'
    BY <2>1, <2>2, <2>5, OfferInv DEF BuildEmptyCandidateAt
  <2>6. ASSUME NEW d \in Pins, NEW synced \in BOOLEAN, SealAt(n, HeadTime(n) + d, synced)
        PROVE  ClockIInv'
    BY <2>1, <2>2, <2>6, SealBlockInv DEF SealAt, Builders
  <2> QED BY <1>2, <2>3, <2>4, <2>5, <2>6 DEF DevCall
<1>3. ASSUME NEW n \in Builders, Restarts(n) PROVE ClockIInv'
  BY <1>3, RestartsInv, DevClockAssumption DEF Builders
<1>4. ASSUME NEW n \in Builders, NEW synced \in BOOLEAN, SealNext(n, synced) PROVE ClockIInv'
  <2>1. mode = "solo" /\ n = Sealer /\ SealBlock(Sealer, pinnedTime[Sealer], synced) /\ pins' = pins
    BY <1>4 DEF SealNext, Builders
  <2>2. pinnedTime[Sealer] \in Nat \cup {NoPin} /\ pins \in BOOLEAN
    BY DevClockAssumption DEF ClockIInv, ClockType
  <2>3. pinnedTime[Sealer] # NoPin => pins = TRUE
    BY <2>1, <2>2 DEF ClockIInv, SoloDated
  <2>4. pins' = IF pinnedTime[Sealer] = NoPin THEN pins ELSE TRUE
    BY <2>1, <2>3
  <2> QED BY <2>1, <2>2, <2>4, SealBlockInv
<1>5. ASSUME NEW n \in Builders, BuildCandidate(n) PROVE ClockIInv'
  <2>1. n \in ClockNodes /\ pinnedTime[n] \in Nat \cup {NoPin} /\ pins \in BOOLEAN
    BY DevClockAssumption DEF Builders, ClockIInv, ClockType
  <2> QED BY <1>5, <2>1, OfferInv DEF BuildCandidate
<1>6. ASSUME NEW n \in Builders, ApplyOffered(n) PROVE ClockIInv'
  BY <1>6, ApplyOfferedInv, DevClockAssumption DEF Builders
<1>7. ASSUME NEW n \in Builders, NEW o \in offered, VerifyOffered(n, o) PROVE ClockIInv'
  BY <1>7, VerifyOfferedInv, DevClockAssumption DEF Builders
<1>8. ASSUME NEW o \in offered, DropCandidate(o) \/ SealOffered(o) PROVE ClockIInv'
  BY <1>8, DropCandidateInv, SealOfferedInv
<1> QED BY <1>1, <1>2, <1>3, <1>4, <1>5, <1>6, <1>7, <1>8, TickInv DEF ClockNext

\* For any number of nodes, in either mode, whatever jumps and timestamps
\* are asked for, and however the rounds, the restarts and the clock
\* interleave: blocks grow in time, each by what was promised and what has
\* passed, and with one sealer whose clock nobody set none is dated back.
THEOREM ClockInvAlways == ClockSpec => []ClockInv
<1>1. ClockIInv => ClockInv
  BY DEF ClockIInv, TimesGrow, SoloDated, ClockInv, DatedNow
<1> QED BY <1>1, ClockInitInv, ClockNextInv, PTL DEF ClockSpec

-----------------------------------------------------------------------------
Ledgers == Seq(Nat)

-----------------------------------------------------------------------------
(* Ledgers and their prefixes.                                             *)

LEMMA UptoIsPrefix ==
    ASSUME NEW l \in Ledgers, NEW k \in 0 .. Len(l)
    PROVE  /\ Upto(l, k) \in Ledgers
           /\ Len(Upto(l, k)) = k
           /\ \A i \in 1 .. k : Upto(l, k)[i] = l[i]
<1>1. \A i \in 1 .. k : l[i] \in Nat
  BY ElementOfSeq DEF Ledgers
<1>2. 1 \in Int /\ k \in Int
  OBVIOUS
<1>3. /\ SubSeq(l, 1, k) \in Seq(Nat)
      /\ Len(SubSeq(l, 1, k)) = IF 1 <= k THEN k - 1 + 1 ELSE 0
      /\ \A i \in 1 .. k - 1 + 1 : SubSeq(l, 1, k)[i] = l[1 + i - 1]
  BY <1>1, <1>2, SubSeqProperties
<1>4. k - 1 + 1 = k /\ \A i \in 1 .. k : 1 + i - 1 = i
  OBVIOUS
<1>5. QED
  BY <1>3, <1>4 DEF Upto, Ledgers

\* A ledger holds a block that agrees with it as far as it goes.
LEMMA HasBlockPointwise ==
    ASSUME NEW l \in Ledgers, NEW b \in Ledgers
    PROVE  HasBlock(l, b) <=> Len(b) <= Len(l) /\ \A i \in 1 .. Len(b) : b[i] = l[i]
<1>0. Len(l) \in Nat /\ Len(b) \in Nat
  BY DEF Ledgers
<1>1. ASSUME Len(b) <= Len(l)
      PROVE  Upto(l, Len(b)) = b <=> \A i \in 1 .. Len(b) : b[i] = l[i]
  <2>1. /\ Upto(l, Len(b)) \in Ledgers /\ Len(Upto(l, Len(b))) = Len(b)
        /\ \A i \in 1 .. Len(b) : Upto(l, Len(b))[i] = l[i]
    BY <1>0, <1>1, UptoIsPrefix
  <2>2. ASSUME \A i \in 1 .. Len(b) : b[i] = l[i]
        PROVE  Upto(l, Len(b)) = b
    BY <2>1, <2>2, SeqEqual DEF Ledgers
  <2>3. QED
    BY <2>1, <2>2
<1>2. QED
  BY <1>1 DEF HasBlock

LEMMA HasBlockTransitive ==
    ASSUME NEW l \in Ledgers, NEW b \in Ledgers, NEW c \in Ledgers,
           HasBlock(l, b), HasBlock(b, c)
    PROVE  HasBlock(l, c)
<1>0. Len(l) \in Nat /\ Len(b) \in Nat /\ Len(c) \in Nat
  BY DEF Ledgers
<1>1. Len(c) <= Len(b) /\ Len(b) <= Len(l)
  BY DEF HasBlock
<1>2. \A i \in 1 .. Len(c) : i \in 1 .. Len(b)
  BY <1>0, <1>1
<1>3. \A i \in 1 .. Len(c) : c[i] = l[i]
  BY <1>2, HasBlockPointwise
<1>4. QED
  BY <1>0, <1>1, <1>3, HasBlockPointwise

\* A ledger holds its own prefixes, and itself.
LEMMA HasItsPrefixes ==
    ASSUME NEW l \in Ledgers, NEW k \in 0 .. Len(l)
    PROVE  HasBlock(l, Upto(l, k)) /\ HasBlock(l, l)
BY UptoIsPrefix, HasBlockPointwise

\* And goes on holding them when it grows.
LEMMA AppendHasLedger ==
    ASSUME NEW l \in Ledgers, NEW n \in Nat
    PROVE  Append(l, n) \in Ledgers /\ HasBlock(Append(l, n), l)
<1>1. /\ Append(l, n) \in Ledgers /\ Len(Append(l, n)) = Len(l) + 1
      /\ \A i \in 1 .. Len(l) : Append(l, n)[i] = l[i]
  BY AppendProperties DEF Ledgers
<1>2. Len(l) \in Nat
  BY DEF Ledgers
<1>3. Len(l) <= Len(Append(l, n)) /\ \A i \in 1 .. Len(l) : l[i] = Append(l, n)[i]
  BY <1>1, <1>2
<1>4. QED
  BY <1>1, <1>3, HasBlockPointwise

\* What of it lies within the part that is kept is kept.
LEMMA CutKeeps ==
    ASSUME NEW l \in Ledgers, NEW k \in 0 .. Len(l), NEW b \in Ledgers,
           HasBlock(l, b), Len(b) <= k
    PROVE  HasBlock(Upto(l, k), b)
<1>0. Len(b) \in Nat
  BY DEF Ledgers
<1>1. \A i \in 1 .. Len(b) : i \in 1 .. k /\ b[i] = l[i]
  BY <1>0, HasBlockPointwise
<1>2. QED
  BY <1>1, UptoIsPrefix, HasBlockPointwise

\* A block that extends a ledger makes of it the ledger it was sent as.
LEMMA ExtendedIsBlock ==
    ASSUME NEW b \in Ledgers, Len(b) >= 1
    PROVE  Front(b) \in Ledgers /\ Last(b) \in Nat /\ Append(Front(b), Last(b)) = b
<1>0. Len(b) \in Nat /\ Len(b) - 1 \in 0 .. Len(b) /\ Front(b) = Upto(b, Len(b) - 1)
  BY DEF Ledgers, Front, Upto
<1>1. /\ Front(b) \in Ledgers /\ Len(Front(b)) = Len(b) - 1
      /\ \A i \in 1 .. Len(b) - 1 : Front(b)[i] = b[i]
  BY <1>0, UptoIsPrefix
<1>2. Last(b) \in Nat /\ Last(b) = b[Len(b)]
  BY ElementOfSeq DEF Last, Ledgers
<1>3. /\ Append(Front(b), Last(b)) \in Ledgers
      /\ Len(Append(Front(b), Last(b))) = Len(b)
      /\ \A i \in 1 .. Len(b) - 1 : Append(Front(b), Last(b))[i] = b[i]
      /\ Append(Front(b), Last(b))[Len(b)] = b[Len(b)]
  BY <1>0, <1>1, <1>2, AppendProperties DEF Ledgers
<1>4. \A i \in 1 .. Len(b) : Append(Front(b), Last(b))[i] = b[i]
  BY <1>0, <1>3
<1>5. QED
  BY <1>1, <1>2, <1>3, <1>4, SeqEqual DEF Ledgers

\* A page that fits makes of the ledger the one it was read from.
LEMMA PageIsLedger ==
    ASSUME NEW l \in Ledgers, NEW p \in Ledgers, Len(p) > Len(l),
           Front(Upto(p, Len(l) + 1)) = l
    PROVE  l \o SubSeq(p, Len(l) + 1, Len(p)) = p /\ HasBlock(p, l)
<1>0. Len(l) \in Nat /\ Len(p) \in Nat
  BY DEF Ledgers
<1>1. /\ Upto(p, Len(l) + 1) \in Ledgers /\ Len(Upto(p, Len(l) + 1)) = Len(l) + 1
      /\ \A i \in 1 .. Len(l) + 1 : Upto(p, Len(l) + 1)[i] = p[i]
  BY <1>0, UptoIsPrefix
<1>2. \A i \in 1 .. Len(l) : Front(Upto(p, Len(l) + 1))[i] = p[i]
  <2>1. Front(Upto(p, Len(l) + 1)) = Upto(Upto(p, Len(l) + 1), Len(l))
    BY <1>0, <1>1 DEF Front, Upto
  <2>2. Len(l) \in 0 .. Len(Upto(p, Len(l) + 1))
    BY <1>0, <1>1
  <2>3. QED
    BY <1>0, <1>1, <2>1, <2>2, UptoIsPrefix
<1>3. HasBlock(p, l)
  BY <1>0, <1>2, HasBlockPointwise
<1>4. SubSeq(p, 1, Len(l)) = l
  BY <1>3 DEF HasBlock, Upto
<1>5. SubSeq(p, 1, Len(l)) \o SubSeq(p, Len(l) + 1, Len(p)) = SubSeq(p, 1, Len(p))
  <2>1. /\ p \in Seq(Nat) /\ 1 \in 1 .. Len(p) + 1
        /\ Len(l) \in 1 - 1 .. Len(p) /\ Len(p) \in Len(l) .. Len(p)
    BY <1>0 DEF Ledgers
  <2>2. QED
    BY <2>1, ConcatAdjacentSubSeq
<1>6. SubSeq(p, 1, Len(p)) = p
  BY SubSeqFull DEF Ledgers
<1>7. QED
  BY <1>3, <1>4, <1>5, <1>6

\* A prefix of what a ledger holds, it holds.
LEMMA PrefixOfPrefix ==
    ASSUME NEW l \in Ledgers, NEW b \in Ledgers, HasBlock(l, b), NEW k \in 0 .. Len(b)
    PROVE  Upto(b, k) \in Ledgers /\ HasBlock(l, Upto(b, k)) /\ Upto(b, k) = Upto(l, k)
<1>1. Upto(b, k) \in Ledgers /\ HasBlock(b, Upto(b, k))
  BY UptoIsPrefix, HasItsPrefixes
<1>2. HasBlock(l, Upto(b, k))
  BY <1>1, HasBlockTransitive
<1>3. QED
  BY <1>1, <1>2, UptoIsPrefix DEF HasBlock

-----------------------------------------------------------------------------
(* The inductive invariant.                                                *)

ReplicationType ==
    /\ ledger \in [Nodes -> Ledgers]
    /\ blocksMade \in Nat /\ sealing \in BOOLEAN
    /\ durable \in Ledgers /\ receipts \in SUBSET Ledgers /\ lost \in SUBSET Ledgers
    /\ pushQueue \in [Replicas -> Seq(Ledgers)]
    /\ worker \in [Replicas -> [block : Ledgers, attempt : Nat, asked : BOOLEAN]]
    /\ arrived \in [Replicas -> SUBSET Ledgers]
    /\ pull \in [Replicas -> [stage : {"none", "asked", "page"}, upTo : Ledgers]]

\* What is answered is on disk, and what is on disk is read.
AnsweredIsDurable ==
    /\ HasBlock(ledger[Primary], durable)
    /\ \A b \in receipts : HasBlock(durable, b)

Known(b) == HasBlock(ledger[Primary], b) \/ b \in lost

\* Every block at a replica, or on its way to one, is or was the primary's.
ReplicasKnow == \A r \in Replicas : \A k \in 0 .. Len(ledger[r]) : Known(Upto(ledger[r], k))
PushesKnown ==
    \A r \in Replicas :
        /\ \A i \in 1 .. Len(pushQueue[r]) : Known(pushQueue[r][i])
        /\ Known(worker[r].block)
        /\ \A b \in arrived[r] : Known(b)
PagesKnown == \A r \in Replicas : \A k \in 0 .. Len(pull[r].upTo) : Known(Upto(pull[r].upTo, k))

OnTheirWay == PushesKnown /\ PagesKnown

DiskInv == ReplicationType /\ AnsweredIsDurable /\ ReplicasKnow /\ OnTheirWay

LEMMA NodesType == Primary \in Nodes /\ \A r \in Replicas : r \in Nodes /\ r # Primary
BY ReplicationAssumption DEF Nodes

LEMMA NothingType ==
    /\ <<>> \in Ledgers /\ Len(<<>>) = 0
    /\ \A l \in Ledgers : HasBlock(l, <<>>) /\ Upto(l, 0) = <<>>
<1>1. <<>> \in Ledgers /\ Len(<<>>) = 0
  BY DEF Ledgers
<1>2. \A l \in Ledgers : Upto(l, 0) = <<>> /\ Len(l) \in Nat
  BY SubSeqEmpty DEF Upto, Ledgers
<1>3. QED
  BY <1>1, <1>2 DEF HasBlock

LEMMA DiskInit == ReplicationInit => DiskInv
<1>1. SUFFICES ASSUME ReplicationInit PROVE DiskInv
  OBVIOUS
<1>2. ReplicationType
  <2>1. <<>> \in Ledgers /\ <<>> \in Seq(Ledgers)
    BY NothingType
  <2>2. [block |-> <<>>, attempt |-> 0, asked |-> FALSE] \in
            [block : Ledgers, attempt : Nat, asked : BOOLEAN]
    BY <2>1
  <2>3. [stage |-> "none", upTo |-> <<>>] \in [stage : {"none", "asked", "page"}, upTo : Ledgers]
    BY <2>1
  <2>4. QED
    BY <1>1, <2>1, <2>2, <2>3 DEF ReplicationInit, ReplicationType, Idle, NoPull, Nothing
<1>3. ledger[Primary] = <<>> /\ \A r \in Replicas : ledger[r] = <<>>
  BY <1>1, NodesType DEF ReplicationInit
<1>4. Known(<<>>) /\ \A k \in 0 .. Len(<<>>) : Known(Upto(<<>>, k))
  BY <1>3, NothingType DEF Known
<1>5. AnsweredIsDurable /\ ReplicasKnow
  BY <1>1, <1>3, <1>4, NothingType DEF AnsweredIsDurable, ReplicasKnow, ReplicationInit
<1>6. OnTheirWay
  BY <1>1, <1>4 DEF OnTheirWay, PushesKnown, PagesKnown, ReplicationInit, Idle, NoPull, Nothing
<1>7. QED
  BY <1>2, <1>5, <1>6 DEF DiskInv

-----------------------------------------------------------------------------
(* The primary's steps.                                                    *)

\* Whatever is known stays known if each block is kept or is lost.
LEMMA KnownStays ==
    ASSUME DiskInv, ReplicationType',
           lost \subseteq lost',
           \A b \in Ledgers : HasBlock(ledger[Primary], b) => Known(b)'
    PROVE  \A b \in Ledgers : Known(b) => Known(b)'
BY DEF Known

LEMMA ReplicasStayKnown ==
    ASSUME DiskInv, \A b \in Ledgers : Known(b) => Known(b)',
           \A r \in Replicas : ledger'[r] = ledger[r]
    PROVE  ReplicasKnow'
<1>1. ASSUME NEW r \in Replicas, NEW k \in 0 .. Len(ledger[r])
      PROVE  Known(Upto(ledger[r], k))'
  <2>1. ledger[r] \in Ledgers
    BY NodesType DEF DiskInv, ReplicationType
  <2>2. Upto(ledger[r], k) \in Ledgers
    BY <2>1, UptoIsPrefix
  <2>3. Known(Upto(ledger[r], k))
    BY DEF DiskInv, ReplicasKnow
  <2>4. Upto(ledger[r], k)' = Upto(ledger[r], k)
    BY DEF Upto
  <2>5. QED
    BY <2>2, <2>3, <2>4 DEF Known, Upto
<1>2. QED
  BY <1>1 DEF ReplicasKnow

LEMMA PagesStayKnown ==
    ASSUME DiskInv, \A b \in Ledgers : Known(b) => Known(b)', pull' = pull
    PROVE  PagesKnown'
<1>1. ASSUME NEW r \in Replicas, NEW k \in 0 .. Len(pull[r].upTo)
      PROVE  Known(Upto(pull[r].upTo, k))'
  <2>1. pull[r].upTo \in Ledgers
    BY DEF DiskInv, ReplicationType
  <2>2. Upto(pull[r].upTo, k) \in Ledgers
    BY <2>1, UptoIsPrefix
  <2>3. QED
    BY <2>2 DEF DiskInv, OnTheirWay, PagesKnown, Known, Upto
<1>2. QED
  BY <1>1 DEF PagesKnown

LEMMA PushesStayKnown ==
    ASSUME DiskInv, \A b \in Ledgers : Known(b) => Known(b)', UNCHANGED <<pushVars, arrived>>
    PROVE  PushesKnown'
<1>1. ASSUME NEW r \in Replicas
      PROVE  /\ \A i \in 1 .. Len(pushQueue[r]) : Known(pushQueue[r][i])'
             /\ Known(worker[r].block)'
             /\ \A b \in arrived[r] : Known(b)'
  <2>1. /\ pushQueue[r] \in Seq(Ledgers) /\ worker[r].block \in Ledgers
        /\ arrived[r] \subseteq Ledgers
    BY DEF DiskInv, ReplicationType
  <2>2. \A i \in 1 .. Len(pushQueue[r]) : pushQueue[r][i] \in Ledgers
    BY <2>1, ElementOfSeq
  <2>3. QED
    BY <2>1, <2>2 DEF DiskInv, OnTheirWay, PushesKnown, Known, pushVars
<1>2. QED
  BY <1>1 DEF PushesKnown, pushVars

LEMMA WriteKeepsInv == DiskInv /\ Write => DiskInv'
<1>1. SUFFICES ASSUME DiskInv, Write PROVE DiskInv'
  OBVIOUS
<1>2. /\ ledger[Primary] \in Ledgers /\ blocksMade + 1 \in Nat
      /\ ledger'[Primary] = Append(ledger[Primary], blocksMade + 1)
      /\ \A r \in Replicas : ledger'[r] = ledger[r]
  BY <1>1, NodesType DEF DiskInv, ReplicationType, Write
<1>3. ledger'[Primary] \in Ledgers /\ HasBlock(ledger'[Primary], ledger[Primary])
  BY <1>2, AppendHasLedger
<1>4. ReplicationType'
  BY <1>1, <1>2, <1>3, NodesType DEF DiskInv, ReplicationType, Write, pushVars, replicaVars
<1>5. \A b \in Ledgers : HasBlock(ledger[Primary], b) => HasBlock(ledger'[Primary], b)
  BY <1>2, <1>3, HasBlockTransitive
<1>6. \A b \in Ledgers : Known(b) => Known(b)'
  BY <1>1, <1>4, <1>5, KnownStays DEF Known, Write, HasBlock, Upto
<1>7. AnsweredIsDurable'
  BY <1>1, <1>5 DEF AnsweredIsDurable, DiskInv, ReplicationType, Write, HasBlock, Upto
<1>8. ReplicasKnow'
  BY <1>1, <1>2, <1>6, ReplicasStayKnown
<1>9. OnTheirWay'
  BY <1>1, <1>6, PagesStayKnown, PushesStayKnown DEF OnTheirWay, Write, replicaVars
<1>10. QED
  BY <1>4, <1>7, <1>8, <1>9 DEF DiskInv
LEMMA SyncKeepsInv == DiskInv /\ Sync => DiskInv'
<1>1. SUFFICES ASSUME DiskInv, Sync PROVE DiskInv'
  OBVIOUS
<1>2. ledger[Primary] \in Ledgers /\ \A r \in Replicas : pushQueue[r] \in Seq(Ledgers)
  BY <1>1, NodesType DEF DiskInv, ReplicationType
<1>3. \A r \in Replicas : /\ pushQueue'[r] \in Seq(Ledgers)
                          /\ \A i \in 1 .. Len(pushQueue'[r]) :
                               \/ i \in 1 .. Len(pushQueue[r]) /\ pushQueue'[r][i] = pushQueue[r][i]
                               \/ pushQueue'[r][i] = ledger[Primary]
  <2>1. SUFFICES ASSUME NEW r \in Replicas
                 PROVE  /\ pushQueue'[r] \in Seq(Ledgers)
                        /\ \A i \in 1 .. Len(pushQueue'[r]) :
                               \/ i \in 1 .. Len(pushQueue[r]) /\ pushQueue'[r][i] = pushQueue[r][i]
                               \/ pushQueue'[r][i] = ledger[Primary]
    OBVIOUS
  <2>2. CASE pushQueue'[r] = pushQueue[r]
    BY <1>2, <2>2
  <2>3. CASE pushQueue'[r] = Append(pushQueue[r], ledger[Primary])
    <3>1. /\ pushQueue'[r] \in Seq(Ledgers) /\ Len(pushQueue'[r]) = Len(pushQueue[r]) + 1
          /\ \A i \in 1 .. Len(pushQueue[r]) : pushQueue'[r][i] = pushQueue[r][i]
          /\ pushQueue'[r][Len(pushQueue[r]) + 1] = ledger[Primary]
      BY <1>2, <2>3, AppendProperties
    <3>2. Len(pushQueue[r]) \in Nat
      BY <1>2
    <3>3. QED
      BY <3>1, <3>2
  <2>4. QED
    BY <1>1, <2>2, <2>3 DEF Sync
<1>4. ReplicationType'
  BY <1>1, <1>2, <1>3 DEF DiskInv, ReplicationType, Sync, replicaVars
<1>5. HasBlock(ledger[Primary], ledger[Primary]) /\ HasBlock(ledger[Primary], durable)
  BY <1>1, <1>2, HasItsPrefixes DEF DiskInv, ReplicationType, AnsweredIsDurable, Ledgers
<1>6. \A b \in receipts : HasBlock(ledger[Primary], b)
  BY <1>1, <1>2, <1>5, HasBlockTransitive DEF DiskInv, ReplicationType, AnsweredIsDurable
<1>7. AnsweredIsDurable'
  BY <1>1, <1>5, <1>6 DEF AnsweredIsDurable, Sync, HasBlock, Upto
<1>8. \A b \in Ledgers : Known(b) => Known(b)'
  BY <1>1 DEF Known, Sync, HasBlock, Upto
<1>9. ReplicasKnow' /\ PagesKnown'
  BY <1>1, <1>8, ReplicasStayKnown, PagesStayKnown DEF Sync, replicaVars
<1>10. PushesKnown'
  <2>1. Known(ledger[Primary])
    BY <1>5 DEF Known
  <2>2. ASSUME NEW r \in Replicas, NEW i \in 1 .. Len(pushQueue'[r])
        PROVE  Known(pushQueue[r][i])'
    <3>1. CASE i \in 1 .. Len(pushQueue[r]) /\ pushQueue'[r][i] = pushQueue[r][i]
      <4>1. pushQueue[r][i] \in Ledgers
        BY <1>2, <3>1, ElementOfSeq
      <4>2. Known(pushQueue[r][i])
        BY <1>1, <3>1 DEF DiskInv, OnTheirWay, PushesKnown
      <4>3. QED
        BY <1>8, <3>1, <4>1, <4>2 DEF Known
    <3>2. CASE pushQueue'[r][i] = ledger[Primary]
      BY <1>1, <1>5, <3>2 DEF Known, Sync, HasBlock, Upto
    <3>3. QED
      BY <1>3, <3>1, <3>2
  <2>3. \A r \in Replicas : Known(worker[r].block)'
    BY <1>1, <1>8 DEF DiskInv, ReplicationType, OnTheirWay, PushesKnown, Known, Sync
  <2>4. \A r \in Replicas : \A b \in arrived'[r] : Known(b)'
    BY <1>1, <1>8 DEF DiskInv, ReplicationType, OnTheirWay, PushesKnown, Known, Sync, replicaVars
  <2>5. QED
    BY <2>2, <2>3, <2>4 DEF PushesKnown
<1>11. QED
  BY <1>4, <1>7, <1>9, <1>10 DEF DiskInv, OnTheirWay

LEMMA SyncFailsKeepsInv == DiskInv /\ SyncFails => DiskInv'
<1>1. SUFFICES ASSUME DiskInv, SyncFails PROVE DiskInv'
  OBVIOUS
<1>2. ReplicationType'
  BY <1>1 DEF DiskInv, ReplicationType, SyncFails, pushVars, replicaVars
<1>3. AnsweredIsDurable' /\ \A b \in Ledgers : Known(b) => Known(b)'
  BY <1>1 DEF DiskInv, AnsweredIsDurable, Known, SyncFails, HasBlock, Upto
<1>4. ReplicasKnow' /\ PagesKnown' /\ PushesKnown'
  BY <1>1, <1>3, ReplicasStayKnown, PagesStayKnown, PushesStayKnown DEF SyncFails, replicaVars
<1>5. QED
  BY <1>2, <1>3, <1>4 DEF DiskInv, OnTheirWay

LEMMA PowerCutKeepsInv ==
    ASSUME DiskInv, NEW k, PowerCut(k)
    PROVE  DiskInv'
<1>1. ledger[Primary] \in Ledgers /\ durable \in Ledgers
  BY NodesType DEF DiskInv, ReplicationType
<1>2. Len(durable) \in Nat /\ Len(ledger[Primary]) \in Nat
  BY <1>1 DEF Ledgers
<1>3. k \in 0 .. Len(ledger[Primary]) /\ Len(durable) <= k
  BY <1>2 DEF PowerCut
<1>4. /\ ledger'[Primary] = Upto(ledger[Primary], k) /\ ledger'[Primary] \in Ledgers
      /\ \A r \in Replicas : ledger'[r] = ledger[r]
      /\ durable' = Upto(ledger[Primary], k)
  BY <1>1, <1>3, UptoIsPrefix, NodesType DEF DiskInv, ReplicationType, PowerCut
<1>5. ReplicationType'
  <2>1. ledger' \in [Nodes -> Ledgers] /\ durable' \in Ledgers
    BY <1>4, NodesType DEF DiskInv, ReplicationType, PowerCut
  <2>2. lost' \in SUBSET Ledgers
    <3>1. \A j \in k + 1 .. Len(ledger[Primary]) : Upto(ledger[Primary], j) \in Ledgers
      BY <1>1, <1>2, <1>3, UptoIsPrefix
    <3>2. QED
      BY <3>1 DEF DiskInv, ReplicationType, PowerCut
  <2>3. Idle \in [block : Ledgers, attempt : Nat, asked : BOOLEAN] /\ <<>> \in Seq(Ledgers)
    BY NothingType DEF Idle, Nothing
  <2>4. worker' \in [Replicas -> [block : Ledgers, attempt : Nat, asked : BOOLEAN]]
    BY <2>3 DEF PowerCut
  <2>5. pushQueue' \in [Replicas -> Seq(Ledgers)]
    BY <2>3 DEF PowerCut
  <2>6. QED
    BY <2>1, <2>2, <2>4, <2>5 DEF DiskInv, ReplicationType, PowerCut, replicaVars
<1>6. HasBlock(ledger'[Primary], durable) /\ HasBlock(ledger'[Primary], durable')
  BY <1>1, <1>3, <1>4, CutKeeps, HasItsPrefixes DEF DiskInv, AnsweredIsDurable
<1>7. AnsweredIsDurable'
  BY <1>1, <1>4, <1>6, HasBlockTransitive
  DEF DiskInv, ReplicationType, AnsweredIsDurable, PowerCut, HasBlock, Upto
<1>8. \A b \in Ledgers : HasBlock(ledger[Primary], b) => Known(b)'
  <2>1. SUFFICES ASSUME NEW b \in Ledgers, HasBlock(ledger[Primary], b)
                 PROVE  HasBlock(ledger'[Primary], b) \/ b \in lost'
    BY DEF Known, HasBlock, Upto
  <2>2. Len(b) \in Nat /\ Len(b) <= Len(ledger[Primary]) /\ b = Upto(ledger[Primary], Len(b))
    BY <2>1 DEF HasBlock, Ledgers
  <2>3. CASE Len(b) <= k
    BY <1>1, <1>3, <1>4, <2>1, <2>3, CutKeeps
  <2>4. CASE Len(b) > k
    <3>1. Len(b) \in k + 1 .. Len(ledger[Primary])
      BY <1>2, <1>3, <2>2, <2>4
    <3>2. QED
      BY <2>2, <3>1 DEF PowerCut
  <2>5. QED
    BY <1>3, <2>2, <2>3, <2>4
<1>9. \A b \in Ledgers : Known(b) => Known(b)'
  BY <1>5, <1>8, KnownStays DEF PowerCut
<1>10. ReplicasKnow' /\ PagesKnown'
  BY <1>4, <1>9, ReplicasStayKnown, PagesStayKnown DEF PowerCut, replicaVars
<1>11. PushesKnown'
  <2>1. \A r \in Replicas : pushQueue'[r] = <<>> /\ worker'[r].block = <<>> /\ arrived'[r] = arrived[r]
    BY DEF PowerCut, Idle, Nothing, replicaVars
  <2>2. HasBlock(ledger'[Primary], <<>>)
    BY <1>4, NothingType
  <2>3. \A r \in Replicas : Known(worker[r].block)'
    BY <2>1, <2>2 DEF Known
  <2>4. \A r \in Replicas : \A i \in 1 .. Len(pushQueue'[r]) : Known(pushQueue[r][i])'
    BY <2>1, NothingType
  <2>5. \A r \in Replicas : \A b \in arrived'[r] : Known(b)'
    BY <1>9, <2>1 DEF DiskInv, ReplicationType, OnTheirWay, PushesKnown, Known
  <2>6. QED
    BY <2>3, <2>4, <2>5 DEF PushesKnown
<1>12. QED
  BY <1>5, <1>7, <1>10, <1>11 DEF DiskInv, OnTheirWay
-----------------------------------------------------------------------------
(* The pushes and the pulls.                                               *)

\* The primary stands still: what is known stays known.
LEMMA PrimaryUnmoved ==
    ASSUME DiskInv, UNCHANGED primaryVars, ledger'[Primary] = ledger[Primary]
    PROVE  AnsweredIsDurable' /\ \A b \in Ledgers : Known(b) => Known(b)'
BY DEF DiskInv, AnsweredIsDurable, Known, primaryVars, HasBlock, Upto

LEMMA TakeKeepsInv ==
    ASSUME DiskInv, NEW r \in Replicas, Take(r)
    PROVE  DiskInv'
<1>1. /\ pushQueue[r] \in Seq(Ledgers) /\ pushQueue[r] # <<>>
      /\ Head(pushQueue[r]) \in Ledgers /\ Tail(pushQueue[r]) \in Seq(Ledgers)
      /\ Len(Tail(pushQueue[r])) = Len(pushQueue[r]) - 1 /\ Len(pushQueue[r]) \in Nat
      /\ \A i \in 1 .. Len(Tail(pushQueue[r])) : Tail(pushQueue[r])[i] = pushQueue[r][i + 1]
      /\ Head(pushQueue[r]) = pushQueue[r][1]
  <2>1. pushQueue[r] \in Seq(Ledgers) /\ pushQueue[r] # <<>>
    BY DEF Take, DiskInv, ReplicationType
  <2>2. QED
    BY <2>1, HeadTailProperties
<1>2. 1 \in 1 .. Len(pushQueue[r])
      /\ \A i \in 1 .. Len(Tail(pushQueue[r])) : i + 1 \in 1 .. Len(pushQueue[r])
  BY <1>1
<1>3. ReplicationType'
  <2>1. [Idle EXCEPT !.block = Head(pushQueue[r])] \in [block : Ledgers, attempt : Nat, asked : BOOLEAN]
    BY <1>1 DEF Idle
  <2>2. QED
    BY <1>1, <2>1 DEF DiskInv, ReplicationType, Take, primaryVars, replicaVars
<1>4. AnsweredIsDurable' /\ \A b \in Ledgers : Known(b) => Known(b)'
  BY PrimaryUnmoved DEF Take
<1>5. ReplicasKnow' /\ PagesKnown'
  BY <1>4, ReplicasStayKnown, PagesStayKnown DEF Take, replicaVars
<1>6. PushesKnown'
  <2>1. ASSUME NEW x \in Replicas, NEW i \in 1 .. Len(pushQueue'[x])
        PROVE  Known(pushQueue[x][i])'
    <3>1. CASE x = r
      BY <1>1, <1>2, <1>4, <2>1, <3>1, ElementOfSeq
      DEF Take, DiskInv, ReplicationType, OnTheirWay, PushesKnown, Known, HasBlock, Upto
    <3>2. CASE x # r
      <4>1. pushQueue'[x] = pushQueue[x] /\ pushQueue[x] \in Seq(Ledgers)
        BY <3>2 DEF Take, DiskInv, ReplicationType
      <4>2. pushQueue[x][i] \in Ledgers
        BY <2>1, <4>1, ElementOfSeq
      <4>3. QED
        BY <1>4, <2>1, <4>1, <4>2 DEF DiskInv, OnTheirWay, PushesKnown, Known
    <3>3. QED
      BY <3>1, <3>2
  <2>2. ASSUME NEW x \in Replicas
        PROVE  Known(worker[x].block)'
    <3>1. CASE x = r
      <4>1. worker'[x].block = pushQueue[r][1] /\ pushQueue[r][1] \in Ledgers
        BY <1>1, <3>1 DEF Take, DiskInv, ReplicationType, Idle
      <4>2. Known(pushQueue[r][1])
        BY <1>2 DEF DiskInv, OnTheirWay, PushesKnown
      <4>3. QED
        BY <1>4, <4>1, <4>2 DEF Known
    <3>2. CASE x # r
      BY <1>4, <3>2 DEF Take, DiskInv, ReplicationType, OnTheirWay, PushesKnown, Known
    <3>3. QED
      BY <3>1, <3>2
  <2>3. \A x \in Replicas : \A b \in arrived'[x] : Known(b)'
    BY <1>4 DEF Take, DiskInv, ReplicationType, OnTheirWay, PushesKnown, Known, replicaVars
  <2>4. QED
    BY <2>1, <2>2, <2>3 DEF PushesKnown
<1>7. QED
  BY <1>3, <1>4, <1>5, <1>6 DEF DiskInv, OnTheirWay

LEMMA PushKeepsInv ==
    ASSUME DiskInv, NEW r \in Replicas, Push(r) \/ PushFails(r)
    PROVE  DiskInv'
<1>1. Idle \in [block : Ledgers, attempt : Nat, asked : BOOLEAN]
  BY NothingType DEF Idle, Nothing
<1>0. /\ \A x \in Replicas : worker'[x].block \in {worker[x].block, Nothing}
      /\ worker' \in [Replicas -> [block : Ledgers, attempt : Nat, asked : BOOLEAN]]
  <2>1. /\ worker \in [Replicas -> [block : Ledgers, attempt : Nat, asked : BOOLEAN]]
        /\ worker[r] \in [block : Ledgers, attempt : Nat, asked : BOOLEAN]
    BY DEF DiskInv, ReplicationType
  <2>2. CASE Push(r)
    <3>1. worker' = [worker EXCEPT ![r].asked = TRUE]
      BY <2>2 DEF Push
    <3>2. QED
      BY <2>1, <3>1
  <2>3. CASE PushFails(r)
    <3>1. worker' = [worker EXCEPT ![r] = Retried(worker[r])]
      BY <2>3 DEF PushFails
    <3>2. CASE worker[r].attempt >= Retries
      BY <1>1, <2>1, <3>1, <3>2 DEF Retried, Idle
    <3>3. CASE ~(worker[r].attempt >= Retries)
      <4>1. /\ Retried(worker[r]) \in [block : Ledgers, attempt : Nat, asked : BOOLEAN]
            /\ Retried(worker[r]).block = worker[r].block
        <5>1. /\ worker[r].attempt + 1 \in Nat /\ worker[r].block \in Ledgers
              /\ worker[r] = [block |-> worker[r].block, attempt |-> worker[r].attempt,
                              asked |-> worker[r].asked]
          BY <2>1
        <5>2. Retried(worker[r]) = [worker[r] EXCEPT !.attempt = worker[r].attempt + 1, !.asked = FALSE]
          BY <3>3 DEF Retried
        <5>3. Retried(worker[r]) = [block |-> worker[r].block, attempt |-> worker[r].attempt + 1,
                                    asked |-> FALSE]
          BY <5>1, <5>2
        <5>4. QED
          BY <5>1, <5>3
      <4>2. QED
        BY <2>1, <3>1, <4>1
    <3>4. QED
      BY <3>2, <3>3
  <2>4. QED
    BY <2>2, <2>3
<1>00. /\ \A x \in Replicas : \A b \in arrived'[x] : b \in arrived[x] \/ b = worker[x].block
       /\ arrived' \in [Replicas -> SUBSET Ledgers]
  <2>1. arrived \in [Replicas -> SUBSET Ledgers] /\ worker[r].block \in Ledgers
    BY DEF DiskInv, ReplicationType
  <2>2. \/ arrived' = arrived
        \/ arrived' = [arrived EXCEPT ![r] = @ \cup {worker[r].block}]
    BY DEF Push, PushFails, replicaVars
  <2>3. QED
    BY <2>1, <2>2
<1>2. ReplicationType'
  BY <1>0, <1>00 DEF DiskInv, ReplicationType, Push, PushFails, primaryVars, replicaVars
<1>3. AnsweredIsDurable' /\ \A b \in Ledgers : Known(b) => Known(b)'
  BY PrimaryUnmoved DEF Push, PushFails
<1>4. ReplicasKnow' /\ PagesKnown'
  BY <1>3, ReplicasStayKnown, PagesStayKnown DEF Push, PushFails, replicaVars
<1>5. PushesKnown'
  <2>1. pushQueue' = pushQueue
    BY DEF Push, PushFails, replicaVars
  <2>2. ASSUME NEW x \in Replicas, NEW i \in 1 .. Len(pushQueue[x])
        PROVE  Known(pushQueue[x][i])'
    <3>1. pushQueue[x] \in Seq(Ledgers)
      BY DEF DiskInv, ReplicationType
    <3>2. pushQueue[x][i] \in Ledgers
      BY <3>1, ElementOfSeq
    <3>3. QED
      BY <1>3, <2>1, <2>2, <3>2 DEF DiskInv, OnTheirWay, PushesKnown, Known
  <2>3. Known(Nothing)
    <3>1. ledger[Primary] \in Ledgers
      BY NodesType DEF DiskInv, ReplicationType
    <3>2. QED
      BY <3>1, NothingType DEF Known, Nothing
  <2>5. \A x \in Replicas : Known(worker[x].block)'
    BY <1>0, <1>3, <2>3, NothingType DEF DiskInv, ReplicationType, OnTheirWay, PushesKnown, Known, Nothing
  <2>7. \A x \in Replicas : \A b \in arrived'[x] : Known(b)'
    BY <1>3, <1>00 DEF DiskInv, ReplicationType, OnTheirWay, PushesKnown, Known
  <2>8. QED
    BY <2>1, <2>2, <2>5, <2>7 DEF PushesKnown
<1>6. QED
  BY <1>2, <1>3, <1>4, <1>5 DEF DiskInv, OnTheirWay
\* A replica takes a block, or not.
LEMMA ApplyBlockKeepsInv ==
    ASSUME DiskInv, NEW r \in Replicas, NEW b \in arrived[r], ApplyBlock(r, b)
    PROVE  DiskInv'
<1>1. b \in Ledgers /\ Known(b) /\ ledger[r] \in Ledgers
  BY NodesType DEF DiskInv, ReplicationType, OnTheirWay, PushesKnown
<1>2. \/ ledger' = ledger
      \/ /\ Extends(r, b) /\ ledger' = [ledger EXCEPT ![r] = b]
         /\ ledger'[r] = b
  <2>1. CASE Extends(r, b)
    <3>1. Len(b) >= 1 /\ Front(b) = ledger[r]
      BY <1>1, <2>1 DEF Extends, Ledgers
    <3>2. Append(ledger[r], Last(b)) = b
      BY <1>1, <3>1, ExtendedIsBlock
    <3>3. QED
      BY <2>1, <3>2, NodesType DEF ApplyBlock, AppendExternal, DiskInv, ReplicationType
  <2>2. CASE ~Extends(r, b)
    BY <2>2 DEF ApplyBlock, AppendExternal
  <2>3. QED
    BY <2>1, <2>2
<1>3. ledger'[Primary] = ledger[Primary] /\ \A x \in Replicas \ {r} : ledger'[x] = ledger[x]
  BY <1>2, NodesType DEF DiskInv, ReplicationType
<1>4. Idle \in [block : Ledgers, attempt : Nat, asked : BOOLEAN]
      /\ \A x \in Replicas : worker'[x] \in {worker[x], Idle}
  BY NothingType DEF Idle, Nothing, ApplyBlock, DiskInv, ReplicationType
<1>5. ReplicationType'
  BY <1>1, <1>2, <1>4 DEF DiskInv, ReplicationType, ApplyBlock, primaryVars
<1>6. AnsweredIsDurable' /\ \A c \in Ledgers : Known(c) => Known(c)'
  BY <1>3, PrimaryUnmoved DEF ApplyBlock
<1>7. ReplicasKnow'
  <2>1. ASSUME NEW x \in Replicas, NEW k \in 0 .. Len(ledger'[x])
        PROVE  Known(Upto(ledger[x], k))'
    <3>1. CASE ledger'[x] = ledger[x]
      <4>1. ledger[x] \in Ledgers /\ Known(Upto(ledger[x], k))
        BY <2>1, <3>1, NodesType DEF DiskInv, ReplicationType, ReplicasKnow
      <4>2. Upto(ledger[x], k) \in Ledgers
        BY <2>1, <3>1, <4>1, UptoIsPrefix
      <4>3. QED
        BY <1>6, <3>1, <4>1, <4>2 DEF Known, Upto
    <3>2. CASE ledger'[x] # ledger[x]
      <4>1. Extends(r, b) /\ ledger'[x] = b
        BY <1>2, <1>3, <3>2
      <4>2. Len(b) >= 1 /\ Front(b) = ledger[r] /\ Len(b) = Len(ledger[r]) + 1
            /\ Len(b) \in Nat /\ Len(ledger[r]) \in Nat
        BY <1>1, <4>1 DEF Extends, Ledgers
      <4>3. CASE k = Len(b)
        <5>1. Upto(b, k) = b
          BY <1>1, <4>3, SubSeqFull DEF Upto, Ledgers
        <5>2. QED
          BY <1>1, <1>6, <4>1, <5>1 DEF Known, Upto
      <4>4. CASE k # Len(b)
        <5>1. k \in 0 .. Len(ledger[r])
          BY <2>1, <4>1, <4>2, <4>4
        <5>2. HasBlock(b, ledger[r])
          <6>1. ledger[r] = Upto(b, Len(ledger[r]))
            BY <4>2 DEF Front, Upto
          <6>2. Len(ledger[r]) \in 0 .. Len(b)
            BY <4>2
          <6>3. QED
            BY <1>1, <6>1, <6>2, HasItsPrefixes
        <5>3. Upto(b, k) = Upto(ledger[r], k) /\ Upto(b, k) \in Ledgers
          BY <1>1, <5>1, <5>2, PrefixOfPrefix
        <5>4. Known(Upto(b, k))
          BY <5>1, <5>3 DEF DiskInv, ReplicasKnow
        <5>5. QED
          BY <1>6, <4>1, <5>3, <5>4 DEF Known, Upto
      <4>5. QED
        BY <4>3, <4>4
    <3>3. QED
      BY <3>1, <3>2
  <2>2. QED
    BY <2>1 DEF ReplicasKnow
<1>8. PagesKnown'
  BY <1>6, PagesStayKnown DEF ApplyBlock
<1>9. PushesKnown'
  <2>1. pushQueue' = pushQueue /\ \A x \in Replicas : arrived'[x] \subseteq arrived[x]
    BY DEF ApplyBlock, DiskInv, ReplicationType
  <2>2. ASSUME NEW x \in Replicas, NEW i \in 1 .. Len(pushQueue[x])
        PROVE  Known(pushQueue[x][i])'
    <3>1. pushQueue[x] \in Seq(Ledgers)
      BY DEF DiskInv, ReplicationType
    <3>2. pushQueue[x][i] \in Ledgers
      BY <3>1, ElementOfSeq
    <3>3. QED
      BY <1>6, <2>1, <2>2, <3>2 DEF DiskInv, OnTheirWay, PushesKnown, Known
  <2>3. Known(Nothing) /\ Nothing \in Ledgers
    <3>1. ledger[Primary] \in Ledgers
      BY NodesType DEF DiskInv, ReplicationType
    <3>2. QED
      BY <3>1, NothingType DEF Known, Nothing
  <2>4. \A x \in Replicas : Known(worker[x].block)'
    BY <1>4, <1>6, <2>3 DEF DiskInv, ReplicationType, OnTheirWay, PushesKnown, Known, Idle
  <2>5. \A x \in Replicas : \A c \in arrived'[x] : Known(c)'
    BY <1>6, <2>1 DEF DiskInv, ReplicationType, OnTheirWay, PushesKnown, Known
  <2>6. QED
    BY <2>1, <2>2, <2>4, <2>5 DEF PushesKnown
<1>10. QED
  BY <1>5, <1>6, <1>7, <1>8, <1>9 DEF DiskInv, OnTheirWay
\* A pull that only asks, is served or is given up moves no ledger.
LEMMA PullKeepsInv ==
    ASSUME DiskInv, NEW r \in Replicas, NEW q,
           q \in [stage : {"none", "asked", "page"}, upTo : Ledgers],
           \A k \in 0 .. Len(q.upTo) : Known(Upto(q.upTo, k)),
           pull' = [pull EXCEPT ![r] = q],
           UNCHANGED <<ledger, primaryVars, pushVars>>,
           \A x \in Replicas : arrived'[x] \subseteq arrived[x],
           arrived' \in [Replicas -> SUBSET Ledgers]
    PROVE  DiskInv'
<1>1. ReplicationType'
  BY DEF DiskInv, ReplicationType, primaryVars, pushVars
<1>2. AnsweredIsDurable' /\ \A b \in Ledgers : Known(b) => Known(b)'
  BY PrimaryUnmoved
<1>3. ReplicasKnow'
  BY <1>2, ReplicasStayKnown
<1>4. PagesKnown'
  <2>1. ASSUME NEW x \in Replicas, NEW k \in 0 .. Len(pull'[x].upTo)
        PROVE  Known(Upto(pull[x].upTo, k))'
    <3>1. Known(Upto(pull'[x].upTo, k)) /\ pull'[x].upTo \in Ledgers
      BY <1>1, <2>1 DEF DiskInv, ReplicationType, OnTheirWay, PagesKnown
    <3>2. Upto(pull'[x].upTo, k) \in Ledgers
      BY <2>1, <3>1, UptoIsPrefix
    <3>3. QED
      BY <1>2, <3>1, <3>2 DEF Known, Upto
  <2>2. QED
    BY <2>1 DEF PagesKnown
<1>5. PushesKnown'
  <2>1. ASSUME NEW x \in Replicas, NEW i \in 1 .. Len(pushQueue[x])
        PROVE  Known(pushQueue[x][i])'
    <3>1. pushQueue[x] \in Seq(Ledgers)
      BY DEF DiskInv, ReplicationType
    <3>2. pushQueue[x][i] \in Ledgers
      BY <3>1, ElementOfSeq
    <3>3. QED
      BY <1>2, <2>1, <3>2 DEF DiskInv, OnTheirWay, PushesKnown, Known, pushVars
  <2>2. \A x \in Replicas : Known(worker[x].block)' /\ \A b \in arrived'[x] : Known(b)'
    BY <1>2 DEF DiskInv, ReplicationType, OnTheirWay, PushesKnown, Known, pushVars
  <2>3. QED
    BY <2>1, <2>2 DEF PushesKnown, pushVars
<1>6. QED
  BY <1>1, <1>2, <1>3, <1>4, <1>5 DEF DiskInv, OnTheirWay

\* Nothing in a page is nothing unknown.
LEMMA NoPageKnown ==
    ASSUME DiskInv
    PROVE  /\ NoPull \in [stage : {"none", "asked", "page"}, upTo : Ledgers]
           /\ Asking \in [stage : {"none", "asked", "page"}, upTo : Ledgers]
           /\ NoPull.upTo = <<>> /\ Asking.upTo = <<>>
           /\ \A k \in 0 .. Len(<<>>) : Known(Upto(<<>>, k))
<1>1. ledger[Primary] \in Ledgers
  BY NodesType DEF DiskInv, ReplicationType
<1>2. \A k \in 0 .. Len(<<>>) : Upto(<<>>, k) = <<>>
  BY NothingType
<1>3. QED
  BY <1>1, <1>2, NothingType DEF NoPull, Asking, Nothing, Known

\* A page is read from the primary's ledger.
LEMMA ServeKeepsInv ==
    ASSUME DiskInv, NEW r \in Replicas, Serve(r)
    PROVE  DiskInv'
<1> DEFINE head == Len(ledger[Primary])
           last == IF Len(ledger[r]) + PullLimit < head THEN Len(ledger[r]) + PullLimit ELSE head
           page == [stage |-> "page", upTo |-> Upto(ledger[Primary], last)]
<1>1. ledger[Primary] \in Ledgers /\ ledger[r] \in Ledgers
  BY NodesType DEF DiskInv, ReplicationType
<1>2. last \in 0 .. Len(ledger[Primary])
  BY <1>1, ReplicationAssumption DEF Ledgers
<1>3. HasBlock(ledger[Primary], Upto(ledger[Primary], last)) /\ Upto(ledger[Primary], last) \in Ledgers
  BY <1>1, <1>2, HasItsPrefixes, UptoIsPrefix
<1>4. \A k \in 0 .. Len(Upto(ledger[Primary], last)) : Known(Upto(Upto(ledger[Primary], last), k))
  BY <1>1, <1>3, PrefixOfPrefix DEF Known
<1>5. page \in [stage : {"none", "asked", "page"}, upTo : Ledgers] /\ page.upTo = Upto(ledger[Primary], last)
  BY <1>3
<1>6. pull' = [pull EXCEPT ![r] = page]
      /\ UNCHANGED <<ledger, primaryVars, pushVars>> /\ arrived' = arrived
  BY DEF Serve
<1>7. arrived' \in [Replicas -> SUBSET Ledgers] /\ \A x \in Replicas : arrived'[x] \subseteq arrived[x]
  BY <1>6 DEF DiskInv, ReplicationType
<1> HIDE DEF last, page
<1>8. QED
  BY <1>4, <1>5, <1>6, <1>7, PullKeepsInv

\* A page that fits makes of a ledger what it was read from.
LEMMA ApplyPageKeepsInv ==
    ASSUME DiskInv, NEW r \in Replicas, ApplyPage(r)
    PROVE  DiskInv'
<1>1. /\ ledger[r] \in Ledgers /\ pull[r].upTo \in Ledgers
      /\ \A k \in 0 .. Len(pull[r].upTo) : Known(Upto(pull[r].upTo, k))
  BY NodesType DEF DiskInv, ReplicationType, OnTheirWay, PagesKnown
<1>2. \/ ledger' = ledger
      \/ ledger' = [ledger EXCEPT ![r] = pull[r].upTo] /\ ledger'[r] = pull[r].upTo
  <2>1. CASE PageFits(r)
    <3>1. Len(pull[r].upTo) > Len(ledger[r]) /\ Front(Upto(pull[r].upTo, Len(ledger[r]) + 1)) = ledger[r]
      BY <2>1 DEF PageFits, Extends, FirstOfPage
    <3>2. ledger[r] \o SubSeq(pull[r].upTo, Len(ledger[r]) + 1, Len(pull[r].upTo)) = pull[r].upTo
      BY <1>1, <3>1, PageIsLedger
    <3>3. QED
      BY <2>1, <3>2, NodesType DEF ApplyPage, DiskInv, ReplicationType
  <2>2. CASE ~PageFits(r)
    BY <2>2 DEF ApplyPage
  <2>3. QED
    BY <2>1, <2>2
<1>3. ledger'[Primary] = ledger[Primary] /\ \A x \in Replicas \ {r} : ledger'[x] = ledger[x]
  BY <1>2, NodesType DEF DiskInv, ReplicationType
<1>4. AfterPage(r) \in {NoPull, Asking} /\ pull' = [pull EXCEPT ![r] = AfterPage(r)]
      /\ UNCHANGED <<primaryVars, pushVars, arrived>>
  BY DEF ApplyPage, AfterPage
<1>5. ReplicationType'
  <2>1. ledger' \in [Nodes -> Ledgers]
    BY <1>1, <1>2 DEF DiskInv, ReplicationType
  <2>2. QED
    BY <1>4, <2>1, NoPageKnown DEF DiskInv, ReplicationType, primaryVars, pushVars
<1>6. AnsweredIsDurable' /\ \A b \in Ledgers : Known(b) => Known(b)'
  BY <1>3, <1>4, PrimaryUnmoved
<1>7. ReplicasKnow'
  <2>1. ASSUME NEW x \in Replicas, NEW k \in 0 .. Len(ledger'[x])
        PROVE  Known(Upto(ledger[x], k))'
    <3>1. \/ ledger'[x] = ledger[x]
          \/ ledger'[x] = pull[r].upTo
      BY <1>2, <1>3
    <3>2. Known(Upto(ledger'[x], k)) /\ ledger'[x] \in Ledgers
      BY <1>1, <2>1, <3>1, NodesType DEF DiskInv, ReplicationType, ReplicasKnow
    <3>3. Upto(ledger'[x], k) \in Ledgers
      BY <2>1, <3>2, UptoIsPrefix
    <3>4. QED
      BY <1>6, <3>2, <3>3 DEF Known, Upto
  <2>2. QED
    BY <2>1 DEF ReplicasKnow
<1>8. PagesKnown'
  <2>1. ASSUME NEW x \in Replicas, NEW k \in 0 .. Len(pull'[x].upTo)
        PROVE  Known(Upto(pull[x].upTo, k))'
    <3>1. pull'[x].upTo \in {pull[x].upTo, <<>>}
      BY <1>4, NoPageKnown DEF DiskInv, ReplicationType
    <3>2. Known(Upto(pull'[x].upTo, k)) /\ pull'[x].upTo \in Ledgers
      BY <2>1, <3>1, NoPageKnown, NothingType DEF DiskInv, ReplicationType, OnTheirWay, PagesKnown
    <3>3. Upto(pull'[x].upTo, k) \in Ledgers
      BY <2>1, <3>2, UptoIsPrefix
    <3>4. QED
      BY <1>6, <3>2, <3>3 DEF Known, Upto
  <2>2. QED
    BY <2>1 DEF PagesKnown
<1>9. PushesKnown'
  BY <1>4, <1>6, PushesStayKnown
<1>10. QED
  BY <1>5, <1>6, <1>7, <1>8, <1>9 DEF DiskInv, OnTheirWay

LEMMA RestartKeepsInv ==
    ASSUME DiskInv, NEW r \in Replicas, AskForPage(r) \/ PullFails(r) \/ ReplicaRestarts(r)
    PROVE  DiskInv'
<1>1. \E q \in {NoPull, Asking} : pull' = [pull EXCEPT ![r] = q]
  BY DEF AskForPage, PullFails, ReplicaRestarts
<1>2. UNCHANGED <<ledger, primaryVars, pushVars>>
  BY DEF AskForPage, PullFails, ReplicaRestarts
<1>3. arrived' \in [Replicas -> SUBSET Ledgers] /\ \A x \in Replicas : arrived'[x] \subseteq arrived[x]
  <2>1. arrived \in [Replicas -> SUBSET Ledgers]
    BY DEF DiskInv, ReplicationType
  <2>2. arrived' = arrived \/ arrived' = [arrived EXCEPT ![r] = {}]
    BY DEF AskForPage, PullFails, ReplicaRestarts
  <2>3. QED
    BY <2>1, <2>2
<1>4. QED
  BY <1>1, <1>2, <1>3, NoPageKnown, PullKeepsInv

LEMMA DiskNext == DiskInv /\ [ReplicationNext]_replicationVars => DiskInv'
<1>1. SUFFICES ASSUME DiskInv, [ReplicationNext]_replicationVars PROVE DiskInv'
  OBVIOUS
<1>2. CASE Write
  BY <1>1, <1>2, WriteKeepsInv
<1>3. CASE Sync
  BY <1>1, <1>3, SyncKeepsInv
<1>4. CASE SyncFails
  BY <1>1, <1>4, SyncFailsKeepsInv
<1>5. ASSUME NEW k \in 0 .. Len(ledger[Primary]), PowerCut(k)
      PROVE  DiskInv'
  BY <1>1, <1>5, PowerCutKeepsInv
<1>6. ASSUME NEW r \in Replicas, Take(r) PROVE DiskInv'
  BY <1>1, <1>6, TakeKeepsInv
<1>7. ASSUME NEW r \in Replicas, Push(r) \/ PushFails(r) PROVE DiskInv'
  BY <1>1, <1>7, PushKeepsInv
<1>8. ASSUME NEW r \in Replicas, NEW b \in arrived[r], ApplyBlock(r, b) PROVE DiskInv'
  BY <1>1, <1>8, ApplyBlockKeepsInv
<1>9. ASSUME NEW r \in Replicas, AskForPage(r) \/ PullFails(r) \/ ReplicaRestarts(r) PROVE DiskInv'
  BY <1>1, <1>9, RestartKeepsInv
<1>10. ASSUME NEW r \in Replicas, Serve(r) PROVE DiskInv'
  BY <1>1, <1>10, ServeKeepsInv
<1>11. ASSUME NEW r \in Replicas, ApplyPage(r) PROVE DiskInv'
  BY <1>1, <1>11, ApplyPageKeepsInv
<1>12. CASE UNCHANGED replicationVars
  <2>1. UNCHANGED <<ledger, primaryVars, pushVars, arrived>> /\ pull' = pull
    BY <1>12 DEF replicationVars, replicaVars
  <2>2. ReplicationType'
    BY <1>1, <2>1 DEF DiskInv, ReplicationType, primaryVars, pushVars
  <2>3. AnsweredIsDurable' /\ \A b \in Ledgers : Known(b) => Known(b)'
    BY <1>1, <2>1, PrimaryUnmoved
  <2>4. QED
    BY <1>1, <2>1, <2>2, <2>3, ReplicasStayKnown, PagesStayKnown, PushesStayKnown
    DEF DiskInv, OnTheirWay
<1>13. QED
  BY <1>1, <1>2, <1>3, <1>4, <1>5, <1>6, <1>7, <1>8, <1>9, <1>10, <1>11, <1>12 DEF ReplicationNext

\* The write order of persist, the sync and the answer, the copies at the
\* replicas and what is on its way to them, for any numbers of each.
THEOREM DiskInvAlways == ReplicationSpec => []DiskInv
<1>1. ReplicationInit => DiskInv
  BY DiskInit
<1>2. DiskInv /\ [ReplicationNext]_replicationVars => DiskInv'
  BY DiskNext
<1>3. QED
  BY <1>1, <1>2, PTL DEF ReplicationSpec

\* No power cut takes a block whose sender was answered.
THEOREM ReceiptsKeptAlways == ReplicationSpec => []ReceiptsKept
<1>1. DiskInv => ReceiptsKept
  <2>1. SUFFICES ASSUME DiskInv, NEW b \in receipts
                 PROVE  HasBlock(ledger[Primary], b)
    BY DEF ReceiptsKept
  <2>2. ledger[Primary] \in Ledgers /\ durable \in Ledgers /\ b \in Ledgers
    BY <2>1, NodesType DEF DiskInv, ReplicationType
  <2>3. QED
    BY <2>1, <2>2, HasBlockTransitive DEF DiskInv, AnsweredIsDurable
<1>2. QED
  BY <1>1, DiskInvAlways, PTL

\* A replica holds what the primary holds, or lost in a power cut.
THEOREM FollowInvAlways == ReplicationSpec => []FollowInv
<1>1. DiskInv => FollowInv
  <2>1. SUFFICES ASSUME DiskInv, NEW r \in Replicas, NEW k \in 1 .. Len(ledger[r])
                 PROVE  \/ HasBlock(ledger[Primary], Upto(ledger[r], k))
                        \/ Upto(ledger[r], k) \in lost
    BY DEF FollowInv
  <2>2. k \in 0 .. Len(ledger[r])
    BY <2>1
  <2>3. QED
    BY <2>1, <2>2 DEF DiskInv, ReplicasKnow, Known
<1>2. QED
  BY <1>1, DiskInvAlways, PTL

\* No copy of a block that somebody relies on is lost.
THEOREM CopiesInvAlways == ReplicationSpec => []CopiesInv
<1> QED BY ReceiptsKeptAlways, FollowInvAlways, PTL DEF CopiesInv

-----------------------------------------------------------------------------
(* Submission: writes on their way to the chain.                           *)

Fields == {"local", "height", "round", "idle", "synced", "submits", "queue", "out", "offer"}
Requests == [tx : Txs, candidate : Nat]

\* What an engine holds and what it offers.
Fits(n) ==
    /\ DOMAIN n = Fields
    /\ n.local \in Nat /\ n.height \in Nat
    /\ n.submits \in Seq(Txs) /\ n.queue \in Seq(Requests)
    /\ n.offer # NoTx => n.offer \in Txs /\ Buildable(n.offer, n.local)

Queued(q, t) == \E i \in 1 .. Len(q) : q[i].tx = t
Held(n, t) == (\E i \in 1 .. Len(n.submits) : n.submits[i] = t) \/ Queued(n.queue, t)
Told(n, t) == \E a \in n.out : a.tx = t

\* Whatever m holds is held by n, unless n answers it.
Keeps(m, n) == \A t : Held(m, t) \/ Told(m, t) => Held(n, t) \/ Told(n, t)

LEMMA AnswerAllFields ==
    ASSUME NEW n, DOMAIN n = Fields, NEW R, NEW r
    PROVE  /\ DOMAIN AnswerAll(n, R, r) = Fields
           /\ \A f \in Fields \ {"out"} : AnswerAll(n, R, r)[f] = n[f]
           /\ \A t : Told(n, t) => Told(AnswerAll(n, R, r), t)
           /\ \A q \in R : Told(AnswerAll(n, R, r), q.tx)
<1> DEFINE x == AnswerAll(n, R, r)
<1>1. DOMAIN x = Fields /\ \A f \in Fields \ {"out"} : x[f] = n[f]
  BY DEF AnswerAll
<1>2. x.out = n.out \cup {[tx |-> q.tx, result |-> r] : q \in R}
  BY DEF AnswerAll, Fields
<1>3. \A q \in R : [tx |-> q.tx, result |-> r] \in x.out
  BY <1>2
<1>4. \A q \in R : [tx |-> q.tx, result |-> r].tx = q.tx
  OBVIOUS
<1> HIDE DEF x
<1>5. \A q \in R : Told(x, q.tx)
  BY <1>3, <1>4 DEF Told
<1>6. \A t : Told(n, t) => Told(x, t)
  BY <1>2 DEF Told
<1> QED BY <1>1, <1>5, <1>6 DEF x

\* The first k requests are answered r.
Without(n, k) == SubSeq(n.queue, k + 1, Len(n.queue))
CutAt(n, k, r) ==
    AnswerAll([n EXCEPT !.queue = Without(n, k)], {n.queue[i] : i \in 1 .. k}, r)

\* Requests that are given up are answered.
LEMMA AnsweredSuffix ==
    ASSUME NEW n, Fits(n), NEW k \in 0 .. Len(n.queue), NEW r
    PROVE  /\ DOMAIN CutAt(n, k, r) = Fields
           /\ CutAt(n, k, r).queue = Without(n, k) /\ Without(n, k) \in Seq(Requests)
           /\ \A f \in Fields \ {"out", "queue"} : CutAt(n, k, r)[f] = n[f]
           /\ Fits(CutAt(n, k, r)) /\ Keeps(n, CutAt(n, k, r)) /\ Len(Without(n, k)) = Len(n.queue) - k
           /\ \A i \in 1 .. Len(n.queue) - k : Without(n, k)[i] = n.queue[k + i]
<1>0. PICK x, rest : x = CutAt(n, k, r) /\ rest = Without(n, k)
  OBVIOUS
<1> DEFINE q == n.queue
           m == [n EXCEPT !.queue = rest]
           R == {q[i] : i \in 1 .. k}
<1>1. q \in Seq(Requests) /\ Len(q) \in Nat /\ DOMAIN n = Fields
  BY DEF Fits
<1>2. /\ rest \in Seq(Requests) /\ Len(rest) = Len(q) - k
      /\ \A i \in 1 .. Len(q) - k : rest[i] = q[k + i]
  BY <1>0, <1>1 DEF Without
<1>3. DOMAIN m = Fields /\ m.queue = rest /\ \A f \in Fields \ {"queue"} : m[f] = n[f]
  BY <1>1 DEF Fields
<1> HIDE DEF m, R
<1>4. x = AnswerAll(m, R, r)
  BY <1>0 DEF m, R, CutAt
<1>5. /\ DOMAIN x = Fields /\ \A f \in Fields \ {"out"} : x[f] = m[f]
      /\ \A t : Told(m, t) => Told(x, t)
      /\ \A y \in R : Told(x, y.tx)
  <2>1. DOMAIN AnswerAll(m, R, r) = Fields /\ \A f \in Fields \ {"out"} : AnswerAll(m, R, r)[f] = m[f]
    BY <1>3, AnswerAllFields
  <2>2. \A t : Told(m, t) => Told(AnswerAll(m, R, r), t)
    BY <1>3, AnswerAllFields
  <2>3. \A y \in R : Told(AnswerAll(m, R, r), y.tx)
    BY <1>3, AnswerAllFields
  <2> QED BY <1>4, <2>1, <2>2, <2>3
<1>6. \A f \in Fields \ {"out", "queue"} : x[f] = n[f]
  BY <1>3, <1>5
<1>7. x.queue = rest /\ m.out = n.out
  BY <1>3, <1>5 DEF Fields
<1>8. /\ x.local = n.local /\ x.height = n.height /\ x.submits = n.submits /\ x.offer = n.offer
  BY <1>6 DEF Fields
<1>9. Fits(x)
  BY <1>2, <1>5, <1>7, <1>8 DEF Fits
<1>10. ASSUME NEW t, Queued(q, t) PROVE Queued(rest, t) \/ Told(x, t)
  <2>1. PICK i \in 1 .. Len(q) : q[i].tx = t
    BY <1>10 DEF Queued
  <2>2. CASE i <= k
    <3>1. q[i] \in R
      BY <1>1, <2>1, <2>2 DEF R
    <3> QED BY <1>5, <2>1, <3>1
  <2>3. CASE ~(i <= k)
    <3>1. i - k \in 1 .. Len(q) - k /\ k + (i - k) = i
      BY <1>1, <2>1, <2>3
    <3>2. rest[i - k] = q[i] /\ i - k \in 1 .. Len(rest)
      BY <1>2, <3>1
    <3> QED BY <2>1, <3>2 DEF Queued
  <2> QED BY <2>2, <2>3
<1>11. Keeps(n, x)
  <2>1. \A t : Told(n, t) => Told(x, t)
    BY <1>5, <1>7 DEF Told
  <2>2. \A t : Held(n, t) => Held(x, t) \/ Told(x, t)
    BY <1>7, <1>8, <1>10 DEF Held
  <2> QED BY <2>1, <2>2 DEF Keeps
<1> QED BY <1>0, <1>2, <1>5, <1>6, <1>7, <1>9, <1>11

LEMMA KeepsOn ==
    ASSUME NEW m, NEW n, NEW x, Keeps(m, n), Keeps(n, x)
    PROVE  Keeps(m, x)
BY DEF Keeps

LEMMA ProposeFirstKeeps ==
    ASSUME NEW n, Fits(n)
    PROVE  /\ Fits(ProposeFirst(n)) /\ Keeps(n, ProposeFirst(n))
<1> DEFINE q == n.queue
           I == {i \in 1 .. Len(q) : Buildable(q[i].tx, n.local)}
           first == SelectInSeq(q, LAMBDA y : Buildable(y.tx, n.local))
           refused == IF first = 0 THEN Len(q) ELSE first - 1
           rest == SubSeq(q, refused + 1, Len(q))
           R == {q[i] : i \in 1 .. refused}
           cut == AnswerAll([n EXCEPT !.queue = rest], R, "refused")
           c == [rest[1] EXCEPT !.candidate = n.local + 1]
           y == [cut EXCEPT !.queue = [rest EXCEPT ![1] = c], !.idle = FALSE, !.offer = q[first].tx]
<1>1. q \in Seq(Requests) /\ Len(q) \in Nat /\ DOMAIN n = Fields /\ n.local \in Nat
  BY DEF Fits
<1>2. first = 0 \/ first \in I
  <2>1. first = IF I # {} THEN CHOOSE i \in I : \A j \in I : i <= j ELSE 0
    BY DEF SelectInSeq, Min
  <2>2. I \subseteq Nat
    BY <1>1
  <2>3. I # {} => \E i \in I : \A j \in I : i <= j
    <3> HIDE DEF I
    <3> QED BY <2>2, LeastNatural
  <2> HIDE DEF I, first
  <2> QED BY <2>1, <2>3
<1>3. ProposeFirst(n) = IF first = 0 THEN cut
                        ELSE [cut EXCEPT !.queue[1].candidate = n.local + 1, !.idle = FALSE, !.offer = q[first].tx]
  BY DEF ProposeFirst
<1> HIDE DEF first
<1>4. refused \in 0 .. Len(q) /\ (first # 0 => refused = first - 1 /\ first \in 1 .. Len(q))
  BY <1>1, <1>2
<1> HIDE DEF refused
<1>5. /\ DOMAIN cut = Fields /\ cut.queue = rest /\ rest \in Seq(Requests)
      /\ \A f \in Fields \ {"out", "queue"} : cut[f] = n[f]
      /\ Fits(cut) /\ Keeps(n, cut) /\ Len(rest) = Len(q) - refused
      /\ \A i \in 1 .. Len(q) - refused : rest[i] = q[refused + i]
  <2>1. PICK x, s : x = cut /\ s = rest
    OBVIOUS
  <2>2. s = Without(n, refused) /\ refused \in 0 .. Len(n.queue)
    BY <1>4, <2>1 DEF Without
  <2>3. x = CutAt(n, refused, "refused")
    BY <2>1 DEF CutAt, Without
  <2> HIDE DEF cut, rest, R
  <2>4. /\ DOMAIN x = Fields /\ x.queue = s /\ s \in Seq(Requests)
        /\ \A f \in Fields \ {"out", "queue"} : x[f] = n[f]
        /\ Fits(x) /\ Keeps(n, x) /\ Len(s) = Len(n.queue) - refused
        /\ \A i \in 1 .. Len(n.queue) - refused : s[i] = n.queue[refused + i]
    BY <2>2, <2>3, AnsweredSuffix
  <2> QED BY <2>1, <2>4
<1> HIDE DEF cut, rest
<1>6. CASE first = 0
  BY <1>3, <1>5, <1>6
<1>7. CASE first # 0
  <2>1. /\ first \in 1 .. Len(q) /\ Buildable(q[first].tx, n.local) /\ q[first] \in Requests
        /\ q[first].tx \in Txs
    <3>1. first \in 1 .. Len(q) /\ Buildable(q[first].tx, n.local)
      BY <1>2, <1>7
    <3>2. q[first] \in Requests
      BY <1>1, <3>1
    <3> QED BY <3>1, <3>2 DEF Requests
  <2>2. Len(rest) \in Nat \ {0} /\ rest[1] = q[first] /\ rest[1] \in Requests
    BY <1>1, <1>4, <1>5, <1>7, <2>1
  <2>3. ProposeFirst(n) = y
    BY <1>3, <1>5, <1>7
  <2>4. c \in Requests /\ c.tx = rest[1].tx
    BY <1>1, <2>2 DEF Requests
  <2> DEFINE s == [rest EXCEPT ![1] = c]
  <2> HIDE DEF c
  <2>5. /\ s \in Seq(Requests) /\ Len(s) = Len(rest)
        /\ \A i \in 1 .. Len(rest) : s[i].tx = rest[i].tx
    BY <1>5, <2>2, <2>4
  <2> HIDE DEF s
  <2>6. y = [cut EXCEPT !.queue = s, !.idle = FALSE, !.offer = q[first].tx]
    BY DEF s
  <2> HIDE DEF y, q
  <2>7. /\ DOMAIN y = Fields /\ y.queue = s /\ y.offer = q[first].tx /\ y.local = cut.local
        /\ y.height = cut.height /\ y.submits = cut.submits /\ y.out = cut.out
    BY <1>5, <2>6 DEF Fields
  <2>8. cut.local = n.local
    BY <1>5 DEF Fields
  <2>9. Fits(y)
    BY <1>5, <2>1, <2>5, <2>7, <2>8 DEF Fits
  <2>10. Keeps(cut, y)
    <3>1. \A t : Queued(rest, t) => Queued(s, t)
      BY <2>5 DEF Queued
    <3> QED BY <1>5, <2>7, <3>1 DEF Keeps, Held, Told
  <2> QED BY <1>5, <2>3, <2>9, <2>10, KeepsOn
<1> QED BY <1>6, <1>7

LEMMA MaybeProposeKeeps ==
    ASSUME NEW v, NEW n, Fits(n), NEW x \in MaybePropose(v, n)
    PROVE  Fits(x) /\ Keeps(n, x)
<1>1. x = ProposeFirst(n) \/ x = n \/ x = [n EXCEPT !.idle = FALSE]
  BY DEF MaybePropose
<1>2. Keeps(n, n)
  BY DEF Keeps
<1>3. CASE x = [n EXCEPT !.idle = FALSE]
  <2>1. /\ DOMAIN x = Fields /\ x.local = n.local /\ x.height = n.height /\ x.submits = n.submits
        /\ x.queue = n.queue /\ x.out = n.out /\ x.offer = n.offer
    BY <1>3 DEF Fits, Fields
  <2>2. Fits(x)
    BY <2>1 DEF Fits
  <2> QED BY <2>1, <2>2 DEF Keeps, Held, Told
<1> QED BY <1>1, <1>2, <1>3, ProposeFirstKeeps

LEMMA StartHeightKeeps ==
    ASSUME NEW v, NEW n, Fits(n), NEW h \in Nat, NEW x \in StartHeight(v, n, h)
    PROVE  Fits(x) /\ Keeps(n, x)
<1>1. PICK m : m = [n EXCEPT !.height = h, !.round = 0, !.idle = TRUE]
  OBVIOUS
<1>2. /\ DOMAIN m = Fields /\ m.local = n.local /\ m.height = h /\ m.submits = n.submits
      /\ m.queue = n.queue /\ m.out = n.out /\ m.offer = n.offer
  BY <1>1 DEF Fits, Fields
<1>3. Fits(m)
  BY <1>2 DEF Fits
<1>4. Keeps(n, m)
  BY <1>2 DEF Keeps, Held, Told
<1>5. x \in MaybePropose(v, m)
  BY <1>1 DEF StartHeight
<1> QED BY <1>3, <1>4, <1>5, MaybeProposeKeeps, KeepsOn

\* The requests a block resolves are answered, the others wait on.
LEMMA ResolveWaitersKeeps ==
    ASSUME NEW n, Fits(n), NEW h
    PROVE  Fits(ResolveWaiters(n, h)) /\ Keeps(n, ResolveWaiters(n, h))
<1> DEFINE q == n.queue
           S == {y \in Elements(q) : y.candidate # h}
           others == Those(q, S)
           w == [i \in DOMAIN others |-> [others[i] EXCEPT !.candidate = 0]]
           R == {y \in Range(q) : y.candidate = h}
           m == [n EXCEPT !.queue = w]
           x == AnswerAll(m, R, "final")
<1>1. q \in Seq(Requests) /\ Len(q) \in Nat /\ DOMAIN n = Fields
  BY DEF Fits
<1>2. ResolveWaiters(n, h) = x
  BY DEF ResolveWaiters
<1>3. others \in Seq(Requests) /\ Elements(others) = Elements(q) \cap S
  <2> HIDE DEF S
  <2> QED BY <1>1, ThoseElements
<1> HIDE DEF others
<1>4. /\ w \in Seq(Requests) /\ Len(w) = Len(others) /\ \A i \in 1 .. Len(others) : w[i].tx = others[i].tx
  <2>1. DOMAIN others = 1 .. Len(others) /\ Len(others) \in Nat /\ \A i \in 1 .. Len(others) : others[i] \in Requests
    BY <1>3
  <2>2. \A i \in 1 .. Len(others) : [others[i] EXCEPT !.candidate = 0] \in Requests
                                 /\ [others[i] EXCEPT !.candidate = 0].tx = others[i].tx
    BY <2>1 DEF Requests
  <2>3. DOMAIN w = 1 .. Len(others) /\ \A i \in 1 .. Len(others) : w[i] = [others[i] EXCEPT !.candidate = 0]
    BY <2>1
  <2>4. w \in [1 .. Len(others) -> Requests] /\ \A i \in 1 .. Len(others) : w[i].tx = others[i].tx
    <3>1. \A i \in 1 .. Len(others) : w[i] \in Requests /\ w[i].tx = others[i].tx
      BY <2>2, <2>3
    <3>2. w = [i \in 1 .. Len(others) |-> w[i]]
      BY <2>3
    <3> HIDE DEF w
    <3> QED BY <3>1, <3>2
  <2> HIDE DEF w
  <2> QED BY <2>1, <2>4
<1> HIDE DEF w
<1>5. DOMAIN m = Fields /\ m.queue = w /\ \A f \in Fields \ {"queue"} : m[f] = n[f]
  BY <1>1 DEF Fields
<1> HIDE DEF m, R
<1>6. /\ DOMAIN x = Fields /\ \A f \in Fields \ {"out"} : x[f] = m[f]
      /\ \A t : Told(m, t) => Told(x, t)
      /\ \A y \in R : Told(x, y.tx)
  BY <1>5, AnswerAllFields
<1> HIDE DEF x
<1>7. /\ x.queue = w /\ m.out = n.out /\ x.local = n.local /\ x.height = n.height
      /\ x.submits = n.submits /\ x.offer = n.offer
  BY <1>5, <1>6 DEF Fields
<1>8. Fits(x)
  BY <1>4, <1>6, <1>7 DEF Fits
<1>9. ASSUME NEW t, Queued(q, t) PROVE Queued(w, t) \/ Told(x, t)
  <2>1. PICK i \in 1 .. Len(q) : q[i].tx = t
    BY <1>9 DEF Queued
  <2>2. CASE q[i].candidate = h
    <3>1. q[i] \in R
      BY <1>1, <2>1, <2>2 DEF R, Range
    <3> QED BY <1>6, <2>1, <3>1
  <2>3. CASE q[i].candidate # h
    <3>1. q[i] \in Elements(others)
      BY <1>3, <2>1, <2>3 DEF Elements
    <3>2. PICK j \in 1 .. Len(others) : others[j] = q[i]
      BY <3>1 DEF Elements
    <3>3. w[j].tx = t /\ j \in 1 .. Len(w)
      BY <1>4, <2>1, <3>2
    <3> QED BY <3>3 DEF Queued
  <2> QED BY <2>2, <2>3
<1>10. Keeps(n, x)
  BY <1>6, <1>7, <1>9 DEF Keeps, Held, Told
<1> QED BY <1>2, <1>8, <1>10

-----------------------------------------------------------------------------
(* Submission: the invariant.                                              *)

Taken(t, v) == Held(node[v], t) \/ WriteAnswered(t, v)

\* What may be offered fits the chain as it is.
Offered == \A t \in proposed : t \in Txs /\ Buildable(t, Len(chain))

NodesFit ==
    /\ DOMAIN node = Running
    /\ \A v \in Running : Fits(node[v]) /\ node[v].offer = NoTx /\ node[v].out = {}

\* A write that fell back goes no further.
PathsFit ==
    /\ path \in [Txs -> Seq(Running)]
    /\ entered \subseteq Txs \X (Nat \ {0})
    /\ \A e \in entered : e[2] > Len(path[e[1]]) => <<e[1], Len(path[e[1]])>> \in entered

EnteredTaken ==
    \A e \in entered : e[2] <= Len(path[e[1]]) => Taken(e[1], path[e[1]][e[2]])

WritesIInv ==
    /\ chain \in Seq(Txs) /\ NonceOrder /\ Offered
    /\ NodesFit /\ PathsFit /\ EnteredTaken

LEMMA WritesInitInv ==
    ASSUME Init
    PROVE  WritesIInv
<1>1. /\ chain = <<>> /\ proposed = {} /\ node = [v \in Running |-> GenesisNode]
      /\ path = [t \in Txs |-> <<>>] /\ entered = {} /\ answers = {}
  BY DEF Init
<1>2. /\ DOMAIN GenesisNode = Fields /\ GenesisNode.local \in Nat /\ GenesisNode.height \in Nat
      /\ GenesisNode.submits \in Seq(Txs) /\ GenesisNode.queue \in Seq(Requests)
      /\ GenesisNode.offer = NoTx /\ GenesisNode.out = {}
  BY DEF GenesisNode, Fields
<1>3. Fits(GenesisNode)
  BY <1>2 DEF Fits
<1>4. NodesFit
  BY <1>1, <1>2, <1>3 DEF NodesFit
<1>5. PathsFit /\ EnteredTaken
  BY <1>1 DEF PathsFit, EnteredTaken
<1> QED BY <1>1, <1>4, <1>5 DEF WritesIInv, NonceOrder, Offered

\* With the chain as it is, what fits still does.
LEMMA ChainStands ==
    ASSUME chain' = chain
    PROVE  /\ NonceOrder' <=> NonceOrder
           /\ \A t, h : Buildable(t, h)' <=> Buildable(t, h)
           /\ \A n : Fits(n)' <=> Fits(n)
<1>1. \A t, h : Buildable(t, h)' <=> Buildable(t, h)
  BY DEF Buildable
<1>2. \A n : Fits(n)' <=> Fits(n)
  BY <1>1 DEF Fits
<1>3. NonceOrder' <=> NonceOrder
  BY <1>1 DEF NonceOrder
<1> QED BY <1>1, <1>2, <1>3

\* The end of an event: deadlines pass, answers leave, an offer is made.
LEMMA StepKeeps ==
    ASSUME WritesIInv, NEW v \in Running, NEW n, Fits(n), Keeps(node[v], n), Step(v, n),
           UNCHANGED <<chain, path, entered>>
    PROVE  WritesIInv'
<1>1. PICK k \in 0 .. Len(n.queue) :
        LET late == {n.queue[i] : i \in 1 .. k}
            x == AnswerAll([n EXCEPT !.queue = SubSeq(@, k + 1, Len(@))], late, "timeout")
        IN  /\ node' = [node EXCEPT ![v] =
                  [x EXCEPT !.out = {}, !.offer = NoTx, !.synced = x.local = x.height - 1]]
            /\ answers' = answers \cup {[tx |-> a.tx, at |-> v, result |-> a.result] : a \in x.out}
            /\ proposed' = IF n.offer # NoTx /\ n.local = Len(chain) /\ n.height = n.local + 1
                             THEN proposed \cup {n.offer} ELSE proposed
  BY DEF Step
<1>2. PICK x : x = CutAt(n, k, "timeout")
  OBVIOUS
<1>4. PICK y : y = [x EXCEPT !.out = {}, !.offer = NoTx, !.synced = x.local = x.height - 1]
  OBVIOUS
<1>5. x = AnswerAll([n EXCEPT !.queue = SubSeq(@, k + 1, Len(@))], {n.queue[i] : i \in 1 .. k}, "timeout")
  BY <1>2 DEF CutAt, Without
<1>6. /\ node' = [node EXCEPT ![v] = y]
      /\ answers' = answers \cup {[tx |-> a.tx, at |-> v, result |-> a.result] : a \in x.out}
      /\ proposed' = IF n.offer # NoTx /\ n.local = Len(chain) /\ n.height = n.local + 1
                       THEN proposed \cup {n.offer} ELSE proposed
  BY <1>1, <1>4, <1>5
<1>7. DOMAIN x = Fields /\ Fits(x) /\ Keeps(n, x)
  BY <1>2, AnsweredSuffix
<1>8. Keeps(node[v], x)
  BY <1>7, KeepsOn
<1>9. /\ DOMAIN y = Fields /\ y.out = {} /\ y.offer = NoTx /\ y.local = x.local /\ y.height = x.height
      /\ y.submits = x.submits /\ y.queue = x.queue
  BY <1>4, <1>7 DEF Fields
<1>10. Fits(y)
  BY <1>7, <1>9 DEF Fits
<1>11. NodesFit'
  <2>1. DOMAIN node' = Running /\ node'[v] = y /\ \A w \in Running \ {v} : node'[w] = node[w]
    BY <1>6 DEF WritesIInv, NodesFit
  <2>2. \A w \in Running : Fits(node'[w]) /\ node'[w].offer = NoTx /\ node'[w].out = {}
    BY <1>9, <1>10, <2>1 DEF WritesIInv, NodesFit
  <2> QED BY <2>1, <2>2, ChainStands DEF NodesFit
<1>12. ASSUME NEW t, NEW w \in Running, Taken(t, w) PROVE Taken(t, w)'
  <2>1. node'[v] = y /\ \A u \in Running \ {v} : node'[u] = node[u]
    BY <1>6 DEF WritesIInv, NodesFit
  <2>2. WriteAnswered(t, w) => WriteAnswered(t, w)'
    BY <1>6 DEF WriteAnswered
  <2>3. CASE w = v /\ Held(node[v], t)
    <3>1. Held(x, t) \/ Told(x, t)
      BY <1>8, <2>3 DEF Keeps
    <3>2. CASE Held(x, t)
      <4>1. Held(y, t)
        BY <1>9, <3>2 DEF Held
      <4>2. Held(node[w], t)' <=> Held(node'[w], t)
        BY DEF Held, Queued
      <4> QED BY <2>1, <2>3, <4>1, <4>2 DEF Taken
    <3>3. CASE Told(x, t)
      <4>1. PICK a \in x.out : a.tx = t
        BY <3>3 DEF Told
      <4>2. [tx |-> a.tx, at |-> v, result |-> a.result] \in answers'
        BY <1>6
      <4>3. WriteAnswered(t, v)'
        BY <4>1, <4>2 DEF WriteAnswered
      <4> QED BY <2>3, <4>3 DEF Taken
    <3> QED BY <3>1, <3>2, <3>3
  <2>4. CASE w # v /\ Held(node[w], t)
    <3>1. Held(node[w], t)' <=> Held(node'[w], t)
      BY DEF Held, Queued
    <3> QED BY <2>1, <2>4, <3>1 DEF Taken
  <2> QED BY <1>12, <2>2, <2>3, <2>4 DEF Taken
<1>13. EnteredTaken' /\ PathsFit'
  <2>1. \A e \in entered : e[2] <= Len(path[e[1]]) => path[e[1]][e[2]] \in Running
    <3>1. ASSUME NEW e \in entered, e[2] <= Len(path[e[1]]) PROVE path[e[1]][e[2]] \in Running
      <4>1. path[e[1]] \in Seq(Running) /\ e[2] \in Nat \ {0}
        BY DEF WritesIInv, PathsFit
      <4> QED BY <3>1, <4>1
    <3> QED BY <3>1
  <2> QED BY <1>12, <2>1 DEF WritesIInv, EnteredTaken, PathsFit
<1>14. Offered'
  <2>1. ASSUME n.offer # NoTx, n.local = Len(chain) PROVE n.offer \in Txs /\ Buildable(n.offer, Len(chain))
    BY <2>1 DEF Fits
  <2>2. \A t \in proposed' : t \in Txs /\ Buildable(t, Len(chain))
    BY <1>6, <2>1 DEF WritesIInv, Offered
  <2> QED BY <2>2, ChainStands DEF Offered
<1> QED BY <1>11, <1>13, <1>14, ChainStands DEF WritesIInv

\* The engine of one node, on its own state.
LEMMA EngineKeeps ==
    ASSUME WritesIInv, NEW v \in Running,
           OnSubmit(v) \/ EnterRound(v) \/ OtherEvent(v) \/ Finalize(v) \/ HeadMoved(v)
    PROVE  WritesIInv'
<1>1. PICK n : n = node[v]
  OBVIOUS
<1>2. /\ Fits(n) /\ DOMAIN n = Fields /\ n.offer = NoTx /\ n.local \in Nat /\ n.height \in Nat
      /\ n.submits \in Seq(Txs) /\ n.queue \in Seq(Requests)
  BY <1>1 DEF WritesIInv, NodesFit, Fits
<1>3. Keeps(n, n)
  BY DEF Keeps
<1>4. CASE OnSubmit(v)
  <2>1. PICK q : q = [tx |-> Head(n.submits), candidate |-> 0]
    OBVIOUS
  <2>2. PICK m : m = [n EXCEPT !.submits = Tail(@), !.queue = Append(@, q)]
    OBVIOUS
  <2>3. PICK x \in MaybePropose(v, m) : Step(v, x)
    BY <1>1, <1>4, <2>1, <2>2 DEF OnSubmit
  <2>4. n.submits # <<>> /\ UNCHANGED <<chain, path, entered>>
    BY <1>1, <1>4 DEF OnSubmit
  <2>5. /\ DOMAIN m = Fields /\ m.submits = Tail(n.submits) /\ m.queue = Append(n.queue, q)
        /\ m.local = n.local /\ m.height = n.height /\ m.offer = n.offer /\ m.out = n.out
    BY <1>2, <2>2 DEF Fields
  <2>6. /\ Len(n.submits) \in Nat \ {0} /\ Tail(n.submits) \in Seq(Txs)
        /\ Head(n.submits) = n.submits[1] /\ n.submits[1] \in Txs
        /\ Len(Tail(n.submits)) = Len(n.submits) - 1
        /\ \A i \in 1 .. Len(n.submits) - 1 : Tail(n.submits)[i] = n.submits[i + 1]
    BY <1>2, <2>4
  <2>7. q \in Requests /\ q.tx = n.submits[1]
    BY <2>1, <2>6 DEF Requests
  <2>8. /\ Append(n.queue, q) \in Seq(Requests) /\ Len(Append(n.queue, q)) = Len(n.queue) + 1
        /\ Append(n.queue, q)[Len(n.queue) + 1] = q /\ Len(n.queue) \in Nat
        /\ \A i \in 1 .. Len(n.queue) : Append(n.queue, q)[i] = n.queue[i]
    BY <1>2, <2>7
  <2>9. Fits(m)
    BY <1>2, <2>5, <2>6, <2>8 DEF Fits
  <2>10. ASSUME NEW t, \E i \in 1 .. Len(n.submits) : n.submits[i] = t PROVE Held(m, t)
    <3>1. PICK i \in 1 .. Len(n.submits) : n.submits[i] = t
      BY <2>10
    <3>2. CASE i = 1
      <4>1. Len(n.queue) + 1 \in 1 .. Len(m.queue) /\ m.queue[Len(n.queue) + 1].tx = t
        BY <2>5, <2>7, <2>8, <3>1, <3>2
      <4> QED BY <4>1 DEF Held, Queued
    <3>3. CASE i # 1
      <4>1. i - 1 \in 1 .. Len(n.submits) - 1 /\ (i - 1) + 1 = i
        BY <2>6, <3>1, <3>3
      <4>2. m.submits[i - 1] = t /\ i - 1 \in 1 .. Len(m.submits)
        BY <2>5, <2>6, <3>1, <4>1
      <4> QED BY <4>2 DEF Held
    <3> QED BY <3>2, <3>3
  <2>11. \A t : Queued(n.queue, t) => Queued(m.queue, t)
    <3>1. 1 .. Len(n.queue) \subseteq 1 .. Len(m.queue)
      BY <2>5, <2>8
    <3> QED BY <2>5, <2>8, <3>1 DEF Queued
  <2>12. Keeps(n, m)
    <3>1. \A t : Held(n, t) => Held(m, t)
      BY <2>10, <2>11 DEF Held
    <3> QED BY <2>5, <3>1 DEF Keeps, Told
  <2>13. Fits(x) /\ Keeps(n, x)
    BY <2>3, <2>9, <2>12, MaybeProposeKeeps, KeepsOn
  <2> QED BY <1>1, <2>3, <2>4, <2>13, StepKeeps
<1>5. CASE EnterRound(v)
  <2>1. PICK m : m = [n EXCEPT !.round = @ + 1, !.idle = TRUE]
    OBVIOUS
  <2>2. PICK x \in MaybePropose(v, m) : Step(v, x)
    BY <1>1, <1>5, <2>1 DEF EnterRound
  <2>3. /\ DOMAIN m = Fields /\ m.submits = n.submits /\ m.queue = n.queue
        /\ m.local = n.local /\ m.height = n.height /\ m.offer = n.offer /\ m.out = n.out
    BY <1>2, <2>1 DEF Fields
  <2>4. Fits(m)
    BY <1>2, <2>3 DEF Fits
  <2>5. Keeps(n, m)
    BY <2>3 DEF Keeps, Held, Told
  <2>6. Fits(x) /\ Keeps(n, x)
    BY <2>2, <2>4, <2>5, MaybeProposeKeeps, KeepsOn
  <2>7. UNCHANGED <<chain, path, entered>>
    BY <1>5 DEF EnterRound
  <2> QED BY <1>1, <2>2, <2>6, <2>7, StepKeeps
<1>6. CASE OtherEvent(v)
  BY <1>1, <1>2, <1>3, <1>6, StepKeeps DEF OtherEvent
<1>7. CASE Finalize(v)
  <2>1. PICK m : m = [n EXCEPT !.local = n.height]
    OBVIOUS
  <2>2. PICK r : r = ResolveWaiters(m, n.height)
    OBVIOUS
  <2>3. PICK x \in StartHeight(v, r, n.height + 1) : Step(v, x)
    BY <1>1, <1>7, <2>1, <2>2 DEF Finalize
  <2>4. /\ DOMAIN m = Fields /\ m.submits = n.submits /\ m.queue = n.queue
        /\ m.local = n.height /\ m.height = n.height /\ m.offer = n.offer /\ m.out = n.out
    BY <1>2, <2>1 DEF Fields
  <2>5. Fits(m)
    BY <1>2, <2>4 DEF Fits
  <2>6. Keeps(n, m)
    BY <2>4 DEF Keeps, Held, Told
  <2>7. Fits(r) /\ Keeps(n, r)
    BY <2>2, <2>5, <2>6, ResolveWaitersKeeps, KeepsOn
  <2>8. n.height + 1 \in Nat
    BY <1>2
  <2>9. Fits(x) /\ Keeps(r, x)
    BY <2>3, <2>7, <2>8, StartHeightKeeps
  <2>10. UNCHANGED <<chain, path, entered>>
    BY <1>7 DEF Finalize
  <2> QED BY <1>1, <2>3, <2>7, <2>9, <2>10, KeepsOn, StepKeeps
<1>8. CASE HeadMoved(v)
  <2>1. PICK h \in n.height .. n.local : \E x \in StartHeight(v, ResolveWaiters(n, h), h + 1) : Step(v, x)
    BY <1>1, <1>8 DEF HeadMoved
  <2>2. PICK r : r = ResolveWaiters(n, h)
    OBVIOUS
  <2>3. PICK x \in StartHeight(v, r, h + 1) : Step(v, x)
    BY <2>1, <2>2
  <2>4. Fits(r) /\ Keeps(n, r)
    BY <1>2, <2>2, ResolveWaitersKeeps
  <2>5. h + 1 \in Nat
    BY <1>2
  <2>6. Fits(x) /\ Keeps(r, x)
    BY <2>3, <2>4, <2>5, StartHeightKeeps
  <2>7. UNCHANGED <<chain, path, entered>>
    BY <1>8 DEF HeadMoved
  <2> QED BY <1>1, <2>3, <2>4, <2>6, <2>7, KeepsOn, StepKeeps
<1> QED BY <1>4, <1>5, <1>6, <1>7, <1>8

LEMMA DecideKeeps ==
    ASSUME WritesIInv, Decide
    PROVE  WritesIInv'
<1>1. PICK t \in proposed : chain' = Append(chain, t)
  BY DEF Decide
<1>2. proposed' = {} /\ UNCHANGED <<node, path, entered, answers>>
  BY DEF Decide
<1>3. chain \in Seq(Txs) /\ t \in Txs /\ Buildable(t, Len(chain))
  BY DEF WritesIInv, Offered
<1>4. /\ chain' \in Seq(Txs) /\ Len(chain') = Len(chain) + 1 /\ Len(chain) \in Nat
      /\ chain'[Len(chain) + 1] = t /\ \A i \in 1 .. Len(chain) : chain'[i] = chain[i]
  BY <1>1, <1>3
<1>5. ASSUME NEW x, NEW h \in 0 .. Len(chain) PROVE Buildable(x, h)' <=> Buildable(x, h)
  <2>1. \A i \in 1 .. h : chain'[i] = chain[i]
    BY <1>4
  <2>2. {i \in 1 .. h : chain'[i].sender = x.sender} = {i \in 1 .. h : chain[i].sender = x.sender}
    BY <2>1
  <2> QED BY <2>2 DEF Buildable
<1>6. NonceOrder'
  <2>1. ASSUME NEW i \in 1 .. Len(chain'), NEW x, x = chain'[i] PROVE Buildable(x, i - 1)'
    <3>1. CASE i \in 1 .. Len(chain)
      <4>1. i - 1 \in 0 .. Len(chain) /\ x = chain[i]
        BY <1>4, <2>1, <3>1
      <4>2. Buildable(x, i - 1)
        BY <3>1, <4>1 DEF WritesIInv, NonceOrder
      <4> QED BY <1>5, <4>1, <4>2
    <3>2. CASE i \notin 1 .. Len(chain)
      <4>1. i - 1 = Len(chain) /\ x = t /\ i - 1 \in 0 .. Len(chain)
        BY <1>4, <2>1, <3>2
      <4> QED BY <1>3, <1>5, <4>1
    <3> QED BY <3>1, <3>2
  <2> QED BY <2>1 DEF NonceOrder, Buildable
<1>7. NodesFit'
  <2>1. \A v \in Running : Fits(node[v])' <=> Fits(node[v])
    BY <1>2 DEF Fits, WritesIInv, NodesFit
  <2> QED BY <1>2, <2>1 DEF WritesIInv, NodesFit
<1>8. PathsFit' /\ EnteredTaken'
  BY <1>2 DEF WritesIInv, PathsFit, EnteredTaken, Taken, Held, Queued, WriteAnswered
<1>9. Offered'
  BY <1>2 DEF Offered
<1> QED BY <1>4, <1>6, <1>7, <1>8, <1>9 DEF WritesIInv

LEMMA CatchUpKeeps ==
    ASSUME WritesIInv, NEW v \in Running, CatchUp(v)
    PROVE  WritesIInv'
<1>1. node' = [node EXCEPT ![v].local = @ + 1] /\ UNCHANGED <<chain, proposed, path, entered, answers>>
  BY DEF CatchUp
<1>2. PICK n : n = [node[v] EXCEPT !.local = @ + 1]
  OBVIOUS
<1>3. /\ DOMAIN node = Running /\ Fits(node[v]) /\ node[v].offer = NoTx /\ node[v].out = {}
      /\ DOMAIN node[v] = Fields /\ node[v].local \in Nat
  BY DEF WritesIInv, NodesFit, Fits
<1>4. /\ DOMAIN n = Fields /\ n.local = node[v].local + 1 /\ n.height = node[v].height
      /\ n.submits = node[v].submits /\ n.queue = node[v].queue /\ n.offer = NoTx /\ n.out = {}
  BY <1>2, <1>3 DEF Fields
<1>5. Fits(n)
  BY <1>3, <1>4 DEF Fits
<1>6. DOMAIN node' = Running /\ node'[v] = n /\ \A w \in Running \ {v} : node'[w] = node[w]
  BY <1>1, <1>2, <1>3
<1>7. NodesFit'
  <2>1. \A w \in Running : Fits(node'[w]) /\ node'[w].offer = NoTx /\ node'[w].out = {}
    BY <1>4, <1>5, <1>6 DEF WritesIInv, NodesFit
  <2> QED BY <1>1, <1>6, <2>1, ChainStands DEF NodesFit
<1>8. \A t : \A w \in Running : Taken(t, w) => Taken(t, w)'
  <2> SUFFICES ASSUME NEW t, NEW w \in Running, Taken(t, w) PROVE Taken(t, w)'
    OBVIOUS
  <2>1. Held(node[w], t) => Held(node'[w], t)
    BY <1>4, <1>6 DEF Held
  <2>2. Held(node[w], t)' <=> Held(node'[w], t)
    BY DEF Held, Queued
  <2>3. WriteAnswered(t, w)' <=> WriteAnswered(t, w)
    BY <1>1 DEF WriteAnswered
  <2> QED BY <2>1, <2>2, <2>3 DEF Taken
<1>9. PathsFit' /\ EnteredTaken'
  <2>1. ASSUME NEW e \in entered, e[2] <= Len(path[e[1]]) PROVE path[e[1]][e[2]] \in Running
    <3>1. path[e[1]] \in Seq(Running) /\ e[2] \in Nat \ {0}
      BY DEF WritesIInv, PathsFit
    <3> QED BY <2>1, <3>1
  <2> QED BY <1>1, <1>8, <2>1 DEF WritesIInv, EnteredTaken, PathsFit
<1>10. Offered'
  BY <1>1, ChainStands DEF WritesIInv, Offered
<1> QED BY <1>1, <1>7, <1>9, <1>10, ChainStands DEF WritesIInv

\* submit: the engine takes the write or its client is told.
LEMMA SubmitTakes ==
    ASSUME WritesIInv, NEW t \in Txs, NEW v \in Running, Submit(t, v), UNCHANGED chain
    PROVE  /\ NodesFit' /\ Taken(t, v)'
           /\ \A x : \A w \in Running : Taken(x, w) => Taken(x, w)'
<1>0. Len(node[v].submits) \in Nat /\ node[v].submits \in Seq(Txs) /\ DOMAIN node = Running
  BY DEF WritesIInv, NodesFit, Fits
<1>1. CASE Buildable(t, node[v].local)
  <2>1. node' = [node EXCEPT ![v].submits = Append(@, t)] /\ answers' = answers
    BY <1>1 DEF Submit
  <2>2. PICK n : n = [node[v] EXCEPT !.submits = Append(@, t)]
    OBVIOUS
  <2>3. /\ Fits(node[v]) /\ node[v].offer = NoTx /\ node[v].out = {} /\ DOMAIN node[v] = Fields
    BY DEF WritesIInv, NodesFit, Fits
  <2>4. /\ DOMAIN n = Fields /\ n.local = node[v].local /\ n.height = node[v].height
        /\ n.submits = Append(node[v].submits, t) /\ n.queue = node[v].queue /\ n.offer = NoTx /\ n.out = {}
    BY <2>2, <2>3 DEF Fields
  <2>5. /\ n.submits \in Seq(Txs) /\ Len(n.submits) = Len(node[v].submits) + 1
        /\ n.submits[Len(node[v].submits) + 1] = t
        /\ \A i \in 1 .. Len(node[v].submits) : n.submits[i] = node[v].submits[i]
    BY <1>0, <2>4
  <2>6. Fits(n)
    BY <2>3, <2>4, <2>5 DEF Fits
  <2>7. node'[v] = n /\ DOMAIN node' = Running /\ \A w \in Running \ {v} : node'[w] = node[w]
    BY <1>0, <2>1, <2>2
  <2>8. NodesFit'
    <3>1. \A w \in Running : Fits(node'[w]) /\ node'[w].offer = NoTx /\ node'[w].out = {}
      BY <2>4, <2>6, <2>7 DEF WritesIInv, NodesFit
    <3> QED BY <2>7, <3>1, ChainStands DEF NodesFit
  <2>9. \A x, w : Held(node[w], x)' <=> Held(node'[w], x)
    BY DEF Held, Queued
  <2>10. Held(n, t)
    <3>1. Len(node[v].submits) + 1 \in 1 .. Len(n.submits)
      BY <1>0, <2>5
    <3> QED BY <2>5, <3>1 DEF Held
  <2>11. \A x : Held(node[v], x) => Held(n, x)
    <3>1. 1 .. Len(node[v].submits) \subseteq 1 .. Len(n.submits)
      BY <1>0, <2>5
    <3> QED BY <2>4, <2>5, <3>1 DEF Held
  <2>12. \A x, w : WriteAnswered(x, w)' <=> WriteAnswered(x, w)
    BY <2>1 DEF WriteAnswered
  <2>13. Taken(t, v)'
    BY <2>7, <2>9, <2>10 DEF Taken
  <2>14. ASSUME NEW x, NEW w \in Running, Taken(x, w) PROVE Taken(x, w)'
    <3>1. Held(node[w], x) => Held(node'[w], x)
      BY <2>7, <2>11
    <3> QED BY <2>9, <2>12, <2>14, <3>1 DEF Taken
  <2> QED BY <2>8, <2>13, <2>14
<1>2. CASE ~Buildable(t, node[v].local)
  <2>1. node' = node /\ answers' = answers \cup {[tx |-> t, at |-> v, result |-> "refused"]}
    BY <1>2 DEF Submit
  <2>2. WriteAnswered(t, v)'
    <3>1. PICK a : a = [tx |-> t, at |-> v, result |-> "refused"]
      OBVIOUS
    <3>2. a \in answers' /\ a.tx = t /\ a.at = v
      BY <2>1, <3>1
    <3> QED BY <3>2 DEF WriteAnswered
  <2>3. \A x, w : WriteAnswered(x, w) => WriteAnswered(x, w)'
    BY <2>1 DEF WriteAnswered
  <2>4. \A x, w : Held(node[w], x)' <=> Held(node[w], x)
    BY <2>1 DEF Held, Queued
  <2>5. NodesFit'
    BY <2>1, ChainStands DEF WritesIInv, NodesFit
  <2> QED BY <2>2, <2>3, <2>4, <2>5 DEF Taken
<1> QED BY <1>1, <1>2

LEMMA ClientWritesKeeps ==
    ASSUME WritesIInv, NEW t \in Txs, NEW v \in Running, ClientWrites(t, v)
    PROVE  WritesIInv'
<1>1. /\ path[t] = <<>> /\ path' = [path EXCEPT ![t] = <<v>>]
      /\ UNCHANGED <<chain, proposed, node, entered, answers>>
  BY DEF ClientWrites
<1>2. path \in [Txs -> Seq(Running)] /\ <<v>> \in Seq(Running)
  BY DEF WritesIInv, PathsFit
<1>3. path' \in [Txs -> Seq(Running)] /\ path'[t] = <<v>> /\ \A x \in Txs \ {t} : path'[x] = path[x]
  BY <1>1, <1>2
<1>4. ASSUME NEW e \in entered PROVE e[1] # t
  <2>1. e[1] \in Txs /\ e[2] \in Nat \ {0}
    BY DEF WritesIInv, PathsFit
  <2>2. ASSUME e[1] = t PROVE FALSE
    <3>1. Len(path[e[1]]) = 0
      BY <1>1, <2>2
    <3>2. <<e[1], 0>> \in entered
      <4>1. e[2] > Len(path[e[1]])
        BY <2>1, <3>1
      <4>2. <<e[1], Len(path[e[1]])>> \in entered
        BY <4>1 DEF WritesIInv, PathsFit
      <4> QED BY <3>1, <4>2
    <3> QED BY <3>2 DEF WritesIInv, PathsFit
  <2> QED BY <2>2
<1>5. \A e \in entered : path'[e[1]] = path[e[1]]
  BY <1>3, <1>4 DEF WritesIInv, PathsFit
<1>6. \A x, w : Taken(x, w)' <=> Taken(x, w)
  BY <1>1 DEF Taken, Held, Queued, WriteAnswered
<1>7. PathsFit' /\ EnteredTaken'
  BY <1>1, <1>3, <1>5, <1>6 DEF WritesIInv, PathsFit, EnteredTaken
<1>8. NodesFit' /\ Offered'
  BY <1>1, ChainStands DEF WritesIInv, NodesFit, Offered
<1> QED BY <1>1, <1>7, <1>8, ChainStands DEF WritesIInv

LEMMA ForwardKeeps ==
    ASSUME WritesIInv, NEW t \in Txs, Forward(t)
    PROVE  WritesIInv'
<1>1. PICK p \in Running : path' = [path EXCEPT ![t] = Append(@, p)]
  BY DEF Forward
<1>2. <<t, Len(path[t])>> \notin entered /\ UNCHANGED <<chain, proposed, node, entered, answers>>
  BY DEF Forward
<1>3. path \in [Txs -> Seq(Running)] /\ path[t] \in Seq(Running) /\ Len(path[t]) \in Nat
  BY DEF WritesIInv, PathsFit
<1>4. PICK s : s = Append(path[t], p)
  OBVIOUS
<1>5. /\ s \in Seq(Running) /\ Len(s) = Len(path[t]) + 1
      /\ \A i \in 1 .. Len(path[t]) : s[i] = path[t][i]
  BY <1>3, <1>4
<1>6. path' \in [Txs -> Seq(Running)] /\ path'[t] = s /\ \A x \in Txs \ {t} : path'[x] = path[x]
  BY <1>1, <1>3, <1>4, <1>5
<1>7. ASSUME NEW e \in entered, e[1] = t PROVE e[2] \in 1 .. Len(path[t])
  <2>1. e[2] \in Nat \ {0}
    BY DEF WritesIInv, PathsFit
  <2>2. ~(e[2] > Len(path[t]))
    BY <1>2, <1>7 DEF WritesIInv, PathsFit
  <2> QED BY <1>3, <2>1, <2>2
<1>8. \A x, w : Taken(x, w)' <=> Taken(x, w)
  BY <1>2 DEF Taken, Held, Queued, WriteAnswered
<1>9. \A e \in entered : e[1] \in Txs /\ e[2] \in Nat \ {0}
  BY DEF WritesIInv, PathsFit
<1>10. PathsFit'
  <2>1. ASSUME NEW e \in entered, e[2] > Len(path'[e[1]]) PROVE <<e[1], Len(path'[e[1]])>> \in entered
    <3>1. e[1] # t
      BY <1>3, <1>5, <1>6, <1>7, <2>1
    <3>2. path'[e[1]] = path[e[1]]
      BY <1>6, <1>9, <3>1
    <3> QED BY <2>1, <3>2 DEF WritesIInv, PathsFit
  <2> QED BY <1>2, <1>6, <2>1 DEF WritesIInv, PathsFit
<1>11. EnteredTaken'
  <2>1. ASSUME NEW e \in entered, e[2] <= Len(path'[e[1]]) PROVE Taken(e[1], path'[e[1]][e[2]])
    <3>1. CASE e[1] = t
      <4>1. e[2] \in 1 .. Len(path[t]) /\ path'[t][e[2]] = path[t][e[2]]
        BY <1>5, <1>6, <1>7, <3>1
      <4>2. e[2] <= Len(path[t])
        BY <1>3, <4>1
      <4> QED BY <3>1, <4>1, <4>2 DEF WritesIInv, EnteredTaken
    <3>2. CASE e[1] # t
      <4>1. path'[e[1]] = path[e[1]]
        BY <1>6, <1>9, <3>2
      <4> QED BY <2>1, <4>1 DEF WritesIInv, EnteredTaken
    <3> QED BY <3>1, <3>2
  <2>2. ASSUME NEW e \in entered, e[2] <= Len(path'[e[1]]) PROVE \A w : w = path'[e[1]][e[2]] => Taken(e[1], w)'
    BY <1>8, <2>1, <2>2
  <2> QED BY <1>2, <2>2 DEF EnteredTaken, Taken, Held, Queued, WriteAnswered
<1>12. NodesFit' /\ Offered'
  BY <1>2, ChainStands DEF WritesIInv, NodesFit, Offered
<1> QED BY <1>2, <1>10, <1>11, <1>12, ChainStands DEF WritesIInv

\* A write is handled at place n of its path, which ends there.
LEMMA HandledKeeps ==
    ASSUME WritesIInv, NEW t \in Txs, path[t] # <<>>, NEW n \in 1 .. Len(path[t]),
           path' = [path EXCEPT ![t] = SubSeq(@, 1, n)],
           entered' = entered \cup {<<t, n>>}, Submit(t, path[t][n]), UNCHANGED <<chain, proposed>>
    PROVE  WritesIInv'
<1>1. path \in [Txs -> Seq(Running)] /\ path[t] \in Seq(Running) /\ Len(path[t]) \in Nat /\ n \in Nat \ {0}
  BY DEF WritesIInv, PathsFit
<1>2. PICK s, v : s = SubSeq(path[t], 1, n) /\ v = path[t][n]
  OBVIOUS
<1>3. /\ s \in Seq(Running) /\ Len(s) = n /\ v \in Running
      /\ \A i \in 1 .. n : s[i] = path[t][i]
  BY <1>1, <1>2
<1>4. path' \in [Txs -> Seq(Running)] /\ path'[t] = s /\ \A x \in Txs \ {t} : path'[x] = path[x]
  BY <1>1, <1>2, <1>3
<1>5. /\ NodesFit' /\ Taken(t, v)'
      /\ \A x : \A w \in Running : Taken(x, w) => Taken(x, w)'
  BY <1>2, <1>3, SubmitTakes
<1>6. entered \subseteq Txs \X (Nat \ {0}) /\ <<t, n>> \in Txs \X (Nat \ {0})
  BY <1>1 DEF WritesIInv, PathsFit
<1>7. PathsFit'
  <2>1. entered' \subseteq Txs \X (Nat \ {0})
    BY <1>6
  <2>2. ASSUME NEW e \in entered', e[2] > Len(path'[e[1]]) PROVE <<e[1], Len(path'[e[1]])>> \in entered'
    <3>1. CASE e[1] = t
      BY <1>3, <1>4, <3>1
    <3>2. CASE e[1] # t
      <4>1. e \in entered /\ path'[e[1]] = path[e[1]]
        BY <1>4, <1>6, <2>1, <3>2
      <4> QED BY <2>2, <4>1 DEF WritesIInv, PathsFit
    <3> QED BY <3>1, <3>2
  <2> QED BY <1>4, <2>1, <2>2 DEF PathsFit
<1>8. EnteredTaken'
  <2>1. ASSUME NEW e \in entered', e[2] <= Len(path'[e[1]]), NEW w, w = path'[e[1]][e[2]]
        PROVE  Taken(e[1], w)'
    <3>1. CASE e = <<t, n>>
      <4>1. e[1] = t /\ e[2] = n /\ w = v
        BY <1>1, <1>2, <1>3, <1>4, <2>1, <3>1
      <4> QED BY <1>5, <4>1
    <3>2. CASE e \in entered /\ e[1] = t
      <4>1. e[2] \in 1 .. n /\ w = path[t][e[2]]
        BY <1>3, <1>4, <1>6, <2>1, <3>2
      <4>2. e[2] <= Len(path[t]) /\ w \in Running
        BY <1>1, <4>1
      <4>3. Taken(t, w)
        BY <3>2, <4>1, <4>2 DEF WritesIInv, EnteredTaken
      <4> QED BY <1>5, <3>2, <4>2, <4>3
    <3>3. CASE e \in entered /\ e[1] # t
      <4>1. path'[e[1]] = path[e[1]] /\ e[2] \in Nat \ {0} /\ path[e[1]] \in Seq(Running)
        BY <1>1, <1>4, <1>6, <3>3
      <4>2. w \in Running /\ Taken(e[1], w)
        BY <2>1, <3>3, <4>1 DEF WritesIInv, EnteredTaken
      <4> QED BY <1>5, <4>2
    <3> QED BY <3>1, <3>2, <3>3
  <2> QED BY <2>1 DEF EnteredTaken, Taken, Held, Queued, WriteAnswered
<1>9. Offered'
  BY ChainStands DEF WritesIInv, Offered
<1> QED BY <1>5, <1>7, <1>8, <1>9, ChainStands DEF WritesIInv

LEMMA HandlersKeep ==
    ASSUME WritesIInv, NEW t \in Txs, Enter(t) \/ FallBack(t)
    PROVE  WritesIInv'
<1>1. path \in [Txs -> Seq(Running)] /\ path[t] \in Seq(Running) /\ Len(path[t]) \in Nat
  BY DEF WritesIInv, PathsFit
<1>2. PICK m : m = Len(path[t])
  OBVIOUS
<1>3. CASE Enter(t)
  <2>1. /\ path[t] # <<>> /\ entered' = entered \cup {<<t, Len(path[t])>>}
        /\ Submit(t, Last(path[t])) /\ UNCHANGED <<chain, path, proposed>>
    BY <1>3 DEF Enter
  <2>2. m \in 1 .. Len(path[t]) /\ SubSeq(path[t], 1, m) = path[t]
    BY <1>1, <1>2, <2>1
  <2>3. path' = [path EXCEPT ![t] = SubSeq(@, 1, m)]
    BY <1>1, <2>1, <2>2
  <2>4. Submit(t, path[t][m]) /\ entered' = entered \cup {<<t, m>>}
    BY <1>2, <2>1 DEF Last
  <2> QED BY <2>1, <2>2, <2>3, <2>4, HandledKeeps
<1>4. CASE FallBack(t)
  <2>1. /\ Len(path[t]) > 1 /\ path' = [path EXCEPT ![t] = Front(@)]
        /\ entered' = entered \cup {<<t, Len(path[t]) - 1>>}
        /\ Submit(t, Last(Front(path[t]))) /\ UNCHANGED <<chain, proposed>>
    BY <1>4 DEF FallBack
  <2>2. PICK k : k = m - 1
    OBVIOUS
  <2>3. k \in 1 .. Len(path[t]) /\ path[t] # <<>> /\ k = Len(path[t]) - 1
    BY <1>1, <1>2, <2>1, <2>2
  <2>4. path' = [path EXCEPT ![t] = SubSeq(@, 1, k)]
    BY <2>1, <2>3 DEF Front
  <2>5. Last(Front(path[t])) = path[t][k]
    <3>1. PICK f : f = Front(path[t])
      OBVIOUS
    <3>2. f = SubSeq(path[t], 1, k)
      BY <2>3, <3>1 DEF Front
    <3>3. Len(f) = k /\ f[k] = path[t][k]
      BY <1>1, <2>3, <3>2
    <3> QED BY <3>1, <3>3 DEF Last
  <2>6. Submit(t, path[t][k]) /\ entered' = entered \cup {<<t, k>>}
    BY <2>1, <2>3, <2>5
  <2> QED BY <2>1, <2>3, <2>4, <2>6, HandledKeeps
<1> QED BY <1>3, <1>4

LEMMA WritesStep ==
    ASSUME WritesIInv, [Next]_vars
    PROVE  WritesIInv'
<1>1. CASE UNCHANGED vars
  <2>1. UNCHANGED <<chain, proposed, node, path, entered, answers>>
    BY <1>1 DEF vars
  <2>2. NodesFit' /\ Offered'
    BY <2>1, ChainStands DEF WritesIInv, NodesFit, Offered
  <2>3. PathsFit' /\ EnteredTaken'
    BY <2>1 DEF WritesIInv, PathsFit, EnteredTaken, Taken, Held, Queued, WriteAnswered
  <2> QED BY <2>1, <2>2, <2>3, ChainStands DEF WritesIInv
<1>2. CASE Next
  BY <1>2, DecideKeeps, EngineKeeps, CatchUpKeeps, ClientWritesKeeps, ForwardKeeps, HandlersKeep DEF Next
<1> QED BY <1>1, <1>2

(* Whatever validators, transactions and bounds: each account's writes are *)
(* on the chain once and in nonce order, and none that a node took in is   *)
(* dropped without an answer.                                              *)
THEOREM WritesInvAlways == Spec => []WritesInv
<1>1. Init => WritesIInv
  BY WritesInitInv
<1>2. WritesIInv /\ [Next]_vars => WritesIInv'
  BY WritesStep
<1>3. WritesIInv => WritesInv
  <2> SUFFICES ASSUME WritesIInv PROVE WritesInv
    OBVIOUS
  <2>1. NonceOrder
    BY DEF WritesIInv
  <2>2. NoneForgotten
    <3> SUFFICES ASSUME NEW e \in entered, e[2] <= Len(path[e[1]])
                 PROVE  LET n == node[path[e[1]][e[2]]]
                        IN  \/ e[1] \in Range(n.submits)
                            \/ \E q \in Range(n.queue) : q.tx = e[1]
                            \/ WriteAnswered(e[1], path[e[1]][e[2]])
      BY DEF NoneForgotten
    <3>1. PICK t, v, n : t = e[1] /\ v = path[e[1]][e[2]] /\ n = node[v]
      OBVIOUS
    <3>2. path[e[1]] \in Seq(Running) /\ e[2] \in Nat \ {0}
      BY DEF WritesIInv, PathsFit
    <3>3. v \in Running
      BY <3>1, <3>2
    <3>4. n.submits \in Seq(Txs) /\ n.queue \in Seq(Requests)
      BY <3>1, <3>3 DEF WritesIInv, NodesFit, Fits
    <3>5. DOMAIN n.submits = 1 .. Len(n.submits) /\ DOMAIN n.queue = 1 .. Len(n.queue)
      BY <3>4
    <3>6. Held(n, t) \/ WriteAnswered(t, v)
      BY <3>1 DEF WritesIInv, EnteredTaken, Taken
    <3>7. t \in Range(n.submits) \/ (\E q \in Range(n.queue) : q.tx = t) \/ WriteAnswered(t, v)
      BY <3>5, <3>6 DEF Held, Queued, Range
    <3> QED BY <3>1, <3>7
  <2> QED BY <2>1, <2>2 DEF WritesInv
<1> QED BY <1>1, <1>2, <1>3, PTL DEF Spec
=============================================================================
