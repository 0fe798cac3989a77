------------------------------ MODULE Replication ------------------------------
(***************************************************************************)
(* Solo mode: one primary seals blocks and pushes them to its replicas     *)
(* (internal/p2p/pusher.go), a replica re-executes what it is pushed or    *)
(* pulls (internal/chain/follow.go, internal/p2p/follower.go, server.go),  *)
(* and a block is on disk once it was synced (internal/chain/seal.go).     *)
(*                                                                         *)
(* Blocks are numbered as they are made, whatever their height, and a      *)
(* ledger is the sequence of them.  The hash of a block commits to all     *)
(* that is before it: a block is sent as the ledger it ends.               *)
(***************************************************************************)
EXTENDS Naturals, SequencesExt

CONSTANTS
    Replicas,
    QueueSize,  \* DefaultPushQueueSize
    Retries,    \* DefaultPushRetries
    PullLimit,  \* DefaultPullLimit
    MaxMade     \* blocks made in a behaviour

Primary == "primary"
Nodes == Replicas \cup {Primary}

ASSUME ReplicationAssumption ==
    /\ Primary \notin Replicas
    /\ QueueSize \in Nat /\ Retries \in Nat
    /\ PullLimit \in Nat \ {0} /\ MaxMade \in Nat

Nothing == <<>>

VARIABLES
    ledger,    \* [Nodes -> Seq(Nat)]: what HeadInfo and BlockByNumber read
    blocksMade, \* so far, of any height
    sealing,   \* whether persist has written a block and not synced it
    durable,   \* what of the primary's ledger survives a power cut
    receipts,  \* history: blocks whose sender was given the receipt
    lost,      \* history: blocks a power cut took
    pushQueue,     \* [Replicas -> Seq(blocks)]: the worker's channel
    worker,    \* [Replicas -> [block, attempt, asked]]
    arrived,   \* [Replicas -> SUBSET blocks]: pushes that wait for the apply lock
    pull       \* [Replicas -> [stage, upTo]]: CatchUp, which holds the lock

primaryVars == <<blocksMade, sealing, durable, receipts, lost>>
pushVars == <<pushQueue, worker>>
replicaVars == <<arrived, pull>>
replicationVars == <<ledger, primaryVars, pushVars, replicaVars>>

Upto(l, k) == SubSeq(l, 1, k)
HasBlock(l, b) == Len(b) <= Len(l) /\ Upto(l, Len(b)) = b

Idle == [block |-> Nothing, attempt |-> 0, asked |-> FALSE]
NoPull == [stage |-> "none", upTo |-> Nothing]
Asking == [NoPull EXCEPT !.stage = "asked"]

-----------------------------------------------------------------------------
(* The primary.                                                            *)

\* SubmitTx and its like, to the end of persist's batch: readers, who take
\* no lock, see the block.  Mutant first: the sender does, too.
WriteAndAnswer ==
    /\ ~sealing /\ blocksMade < MaxMade
    /\ blocksMade' = blocksMade + 1
    /\ ledger' = [ledger EXCEPT ![Primary] = Append(@, blocksMade + 1)]
    /\ sealing' = TRUE
    /\ receipts' = receipts \cup {Append(ledger[Primary], blocksMade + 1)}
    /\ UNCHANGED <<durable, lost, pushVars, replicaVars>>

Write ==
    /\ ~sealing /\ blocksMade < MaxMade
    /\ blocksMade' = blocksMade + 1
    /\ ledger' = [ledger EXCEPT ![Primary] = Append(@, blocksMade + 1)]
    /\ sealing' = TRUE
    /\ UNCHANGED <<durable, receipts, lost, pushVars, replicaVars>>

\* SyncKeyValue, the feed, and the answer.  What is full misses the block.
Sync ==
    /\ sealing
    /\ sealing' = FALSE
    /\ durable' = ledger[Primary]
    /\ receipts' = receipts \cup {ledger[Primary]}
    /\ pushQueue' = [r \in Replicas |->
                   IF Len(pushQueue[r]) < QueueSize THEN Append(pushQueue[r], ledger[Primary]) ELSE pushQueue[r]]
    /\ UNCHANGED <<ledger, blocksMade, lost, worker, replicaVars>>

\* The head has moved all the same.
SyncFails ==
    /\ sealing
    /\ sealing' = FALSE
    /\ UNCHANGED <<ledger, blocksMade, durable, receipts, lost, pushVars, replicaVars>>

\* A power cut and the boot after it: of what was not synced any part may be
\* left.  The queues were in memory.
PowerCut(k) ==
    /\ k \in Len(durable) .. Len(ledger[Primary])
    /\ ledger' = [ledger EXCEPT ![Primary] = Upto(@, k)]
    /\ durable' = Upto(ledger[Primary], k)
    /\ lost' = lost \cup {Upto(ledger[Primary], j) : j \in k + 1 .. Len(ledger[Primary])}
    /\ sealing' = FALSE
    /\ pushQueue' = [r \in Replicas |-> <<>>]
    /\ worker' = [r \in Replicas |-> Idle]
    /\ UNCHANGED <<blocksMade, receipts, replicaVars>>

-----------------------------------------------------------------------------
(* peerWorker.                                                             *)

Take(r) ==
    /\ worker[r] = Idle /\ pushQueue[r] # <<>>
    /\ worker' = [worker EXCEPT ![r] = [Idle EXCEPT !.block = Head(pushQueue[r])]]
    /\ pushQueue' = [pushQueue EXCEPT ![r] = Tail(@)]
    /\ UNCHANGED <<ledger, primaryVars, replicaVars>>

Push(r) ==
    /\ worker[r].block # Nothing /\ ~worker[r].asked
    /\ worker' = [worker EXCEPT ![r].asked = TRUE]
    /\ arrived' = [arrived EXCEPT ![r] = @ \cup {worker[r].block}]
    /\ UNCHANGED <<ledger, primaryVars, pushQueue, pull>>

Retried(w) ==
    IF w.attempt >= Retries THEN Idle
    ELSE [w EXCEPT !.attempt = w.attempt + 1, !.asked = FALSE]

\* The request or the answer is lost, or is late: what has arrived stays.
PushFails(r) ==
    /\ worker[r].block # Nothing
    /\ worker' = [worker EXCEPT ![r] = Retried(worker[r])]
    /\ UNCHANGED <<ledger, primaryVars, pushQueue, replicaVars>>

-----------------------------------------------------------------------------
(* A replica.                                                              *)

\* Mutant: a block is taken for its number.
ExtendsByNumber(r, b) == Len(b) = Len(ledger[r]) + 1

\* verifyLinkage; what honest nodes made re-executes.
Extends(r, b) == Len(b) = Len(ledger[r]) + 1 /\ Front(b) = ledger[r]

\* Duplicates, forks, gaps and mismatches leave the ledger as it is.
AppendExternal(r, b) ==
    ledger' = IF Extends(r, b) THEN [ledger EXCEPT ![r] = Append(@, Last(b))] ELSE ledger

\* Follower.ApplyBlock.  The worker that waits for this block has its answer,
\* and does not retry a refusal; the kick a gap gives only hastens a poll.
ApplyBlock(r, b) ==
    /\ pull[r] = NoPull
    /\ arrived' = [arrived EXCEPT ![r] = @ \ {b}]
    /\ AppendExternal(r, b)
    /\ worker' = [worker EXCEPT ![r] = IF @.asked /\ @.block = b THEN Idle ELSE @]
    /\ UNCHANGED <<primaryVars, pushQueue, pull>>

\* CatchUp takes the lock and asks for the block after its own.
AskForPage(r) ==
    /\ pull[r] = NoPull
    /\ pull' = [pull EXCEPT ![r] = Asking]
    /\ UNCHANGED <<ledger, primaryVars, pushVars, arrived>>

\* handleBlocks, with all the primary can read.  Mutant first: the blocks
\* below its head.
ServeBelowHead(r) ==
    LET head == Len(ledger[Primary])
        last == IF Len(ledger[r]) + PullLimit < head THEN Len(ledger[r]) + PullLimit
                ELSE IF head > Len(ledger[r]) THEN head - 1 ELSE head
    IN  /\ pull[r] = Asking
        /\ pull' = [pull EXCEPT ![r] = [stage |-> "page", upTo |-> Upto(ledger[Primary], last)]]
        /\ UNCHANGED <<ledger, primaryVars, pushVars, arrived>>

Serve(r) ==
    LET head == Len(ledger[Primary])
        last == IF Len(ledger[r]) + PullLimit < head THEN Len(ledger[r]) + PullLimit ELSE head
    IN  /\ pull[r] = Asking
        /\ pull' = [pull EXCEPT ![r] = [stage |-> "page", upTo |-> Upto(ledger[Primary], last)]]
        /\ UNCHANGED <<ledger, primaryVars, pushVars, arrived>>

PullFails(r) ==
    /\ pull[r] = Asking
    /\ pull' = [pull EXCEPT ![r] = NoPull]
    /\ UNCHANGED <<ledger, primaryVars, pushVars, arrived>>

\* The blocks of the page that are not ours, one by one: the first decides,
\* the others follow from it.  A page that brought us on is followed by the
\* next; an empty one, and one that did not fit, ends it.
FirstOfPage(r) == Upto(pull[r].upTo, Len(ledger[r]) + 1)
PageFits(r) == Len(pull[r].upTo) > Len(ledger[r]) /\ Extends(r, FirstOfPage(r))

AfterPage(r) == IF PageFits(r) THEN Asking ELSE NoPull

ApplyPage(r) ==
    /\ pull[r].stage = "page"
    /\ ledger' = IF PageFits(r)
                   THEN [ledger EXCEPT ![r] = @ \o SubSeq(pull[r].upTo, Len(@) + 1, Len(pull[r].upTo))]
                   ELSE ledger
    /\ pull' = [pull EXCEPT ![r] = AfterPage(r)]
    /\ UNCHANGED <<primaryVars, pushVars, arrived>>

ReplicaRestarts(r) ==
    /\ arrived' = [arrived EXCEPT ![r] = {}]
    /\ pull' = [pull EXCEPT ![r] = NoPull]
    /\ UNCHANGED <<ledger, primaryVars, pushVars>>

-----------------------------------------------------------------------------
ReplicationInit ==
    /\ ledger = [n \in Nodes |-> <<>>]
    /\ blocksMade = 0 /\ sealing = FALSE /\ durable = <<>>
    /\ receipts = {} /\ lost = {}
    /\ pushQueue = [r \in Replicas |-> <<>>]
    /\ worker = [r \in Replicas |-> Idle]
    /\ arrived = [r \in Replicas |-> {}]
    /\ pull = [r \in Replicas |-> NoPull]

ReplicationNext ==
    \/ Write \/ Sync \/ SyncFails
    \/ \E k \in 0 .. Len(ledger[Primary]) : PowerCut(k)
    \/ \E r \in Replicas :
         \/ Take(r) \/ Push(r) \/ PushFails(r)
         \/ \E b \in arrived[r] : ApplyBlock(r, b)
         \/ AskForPage(r) \/ Serve(r) \/ PullFails(r) \/ ApplyPage(r)
         \/ ReplicaRestarts(r)

\* The ticker keeps a replica asking; of the requests it keeps making some
\* are answered, and of the pages it gets some are not cut off by a restart.
\* Nothing is asked of the pushes.
ReplicationFairness ==
    \A r \in Replicas : /\ WF_replicationVars(AskForPage(r))
                        /\ SF_replicationVars(Serve(r))
                        /\ SF_replicationVars(ApplyPage(r))

ReplicationSpec ==
    ReplicationInit /\ [][ReplicationNext]_replicationVars /\ ReplicationFairness

-----------------------------------------------------------------------------
\* A receipt is for ever: no power cut takes a block whose sender was
\* answered, although the database confirms writes it may still lose.
ReceiptsKept == \A b \in receipts : HasBlock(ledger[Primary], b)

\* A replica has the primary's blocks, whatever was pushed twice, late, out
\* of order or not at all, and whoever got there first.  What else it has a
\* power cut took from the primary, after a replica had read it and before
\* it was synced.
FollowInv ==
    \A r \in Replicas : \A k \in 1 .. Len(ledger[r]) :
        \/ HasBlock(ledger[Primary], Upto(ledger[r], k))
        \/ Upto(ledger[r], k) \in lost

\* Neither copy of a block is lost: not the one its sender was told of, and not
\* the one at a replica.
CopiesInv == ReceiptsKept /\ FollowInv

\* A replica that does not hold such a block has all the primary has in the
\* end, whatever became of the pushes.
ReplicaCatchesUp ==
    \A r \in Replicas :
        <>[](ledger[r] = ledger[Primary] \/ ~IsPrefix(ledger[r], ledger[Primary]))
=============================================================================
