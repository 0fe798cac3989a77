------------------------------ MODULE Submission ------------------------------
(***************************************************************************)
(* The life of a write in BFT mode: the RPC handler that forwards it to    *)
(* the current proposer (rpc/forward.go), Engine.submit and its queue      *)
(* (consensus/engine.go), the candidate blocks built from the queue        *)
(* (chain/candidate.go) and the answer its client gets.                    *)
(*                                                                         *)
(* The vote itself is modules Voting and Consensus.  Here a height is      *)
(* decided on any block proposed at it: with round changes, another        *)
(* validator's block or an earlier round's may win.  A block carries one   *)
(* transaction and is named by it.                                         *)
(***************************************************************************)
EXTENDS Integers, FiniteSets, SequencesExt, SequenceFilter

CONSTANTS
    N,          \* size of VALIDATOR_SET; a validator is its index in it
    Running,    \* validators that writes can reach; the others only vote
    Txs,        \* transactions: records [sender, nonce]
    NoTx,
    MaxRound,   \* no height goes beyond this round
    MaxHops,    \* a write is not forwarded more often
    MaxExpiries \* requests whose SubmitTimeout passes in a behaviour

Validators == 0 .. N - 1

ASSUME SubmissionAssumption ==
    /\ N \in Nat \ {0} /\ Running \subseteq Validators
    /\ \A t \in Txs : t = [sender |-> t.sender, nonce |-> t.nonce] /\ t.nonce \in Nat
    /\ NoTx \notin Txs
    /\ MaxRound \in Nat /\ MaxHops \in Nat /\ MaxExpiries \in Nat

VARIABLES
    chain,     \* the blocks decided so far, in order
    proposed,  \* blocks proposed at the height after it
    node,      \* [Running -> Node]: what each engine goroutine owns
    path,      \* [Txs -> Seq(Running)]: the nodes whose HTTP handler holds the write
    entered,   \* pairs <<t, i>>: the i-th node of path[t] has handled t locally
    answers,   \* what requests were answered: records [tx, at, result]
    expiries   \* deadlines passed so far

vars == <<chain, proposed, node, path, entered, answers, expiries>>

ProposerAt(h, r) == ((h % N) + (r % N)) % N

-----------------------------------------------------------------------------
(* Candidates.                                                             *)

\* validateTx on the head at this height: the account's next nonce.
Buildable(t, head) ==
    t.nonce = Cardinality({i \in 1 .. head : chain[i].sender = t.sender})

Answer(n, t, r) == [n EXCEPT !.out = @ \cup {[tx |-> t, result |-> r]}]

AnswerAll(n, requests, r) == [n EXCEPT !.out = @ \cup {[tx |-> q.tx, result |-> r] : q \in requests}]

\* Mutant: the trial build of submit is not repeated.
ProposeUnchecked(n) ==
    IF n.queue = <<>> THEN n
    ELSE [n EXCEPT !.queue[1].candidate = n.local + 1, !.idle = FALSE, !.offer = n.queue[1].tx]

\* What can no longer be built is refused with its error; the first request
\* that can be is proposed, on the local head as it is now.
ProposeFirst(n) ==
    LET first == SelectInSeq(n.queue, LAMBDA q : Buildable(q.tx, n.local))
        refused == IF first = 0 THEN Len(n.queue) ELSE first - 1
        rest == SubSeq(n.queue, refused + 1, Len(n.queue))
        cut == AnswerAll([n EXCEPT !.queue = rest], {n.queue[i] : i \in 1 .. refused}, "refused")
    IN  IF first = 0 THEN cut
        ELSE [cut EXCEPT !.queue[1].candidate = n.local + 1, !.idle = FALSE, !.offer = n.queue[first].tx]

\* maybePropose.  A proposer that entered a later round may be locked on a
\* block proposed before, and then leaves its queue alone.
MaybePropose(v, n) ==
    IF ProposerAt(n.height, n.round) = v /\ n.idle /\ (n.synced \/ n.local = n.height - 1)
      THEN {ProposeFirst(n)}
           \cup (IF n.round > 0 /\ proposed # {} THEN {[n EXCEPT !.idle = FALSE]} ELSE {})
      ELSE {n}

StartHeight(v, n, h) ==
    MaybePropose(v, [n EXCEPT !.height = h, !.round = 0, !.idle = TRUE])

\* Mutant: what the block did not answer is forgotten.
ResolveAndForget(n, h) ==
    AnswerAll([n EXCEPT !.queue = <<>>], {q \in Range(n.queue) : q.candidate = h}, "final")

\* Every request whose candidate carries the number is answered.
ResolveWaiters(n, h) ==
    LET lost == Those(n.queue, {q \in Elements(n.queue) : q.candidate # h})
    IN  AnswerAll([n EXCEPT !.queue = [i \in DOMAIN lost |-> [lost[i] EXCEPT !.candidate = 0]]],
                  {q \in Range(n.queue) : q.candidate = h}, "final")

-----------------------------------------------------------------------------
(* Engine events.                                                          *)

\* expireWaiters and publishStatus end every event.  Deadlines pass in the
\* order of the queue.
Step(v, n) ==
    \E k \in 0 .. Len(n.queue) :
        LET late == {n.queue[i] : i \in 1 .. k}
            x == AnswerAll([n EXCEPT !.queue = SubSeq(@, k + 1, Len(@))], late, "timeout")
        IN  /\ expiries + k <= MaxExpiries
            /\ expiries' = expiries + k
            /\ node' = [node EXCEPT ![v] =
                  [x EXCEPT !.out = {}, !.offer = NoTx, !.synced = x.local = x.height - 1]]
            /\ answers' = answers \cup {[tx |-> a.tx, at |-> v, result |-> a.result] : a \in x.out}
            /\ proposed' = IF n.offer # NoTx /\ n.local = Len(chain) /\ n.height = n.local + 1
                             THEN proposed \cup {n.offer} ELSE proposed

\* Run takes a request from the submits channel.
OnSubmit(v) ==
    /\ node[v].submits # <<>>
    /\ LET q == [tx |-> Head(node[v].submits), candidate |-> 0]
           n == [node[v] EXCEPT !.submits = Tail(@), !.queue = Append(@, q)]
       IN  \E x \in MaybePropose(v, n) : Step(v, x)
    /\ UNCHANGED <<chain, path, entered>>

\* A ROUND-CHANGE quorum moves v to the next round.
EnterRound(v) ==
    /\ node[v].round < MaxRound
    /\ \E n \in MaybePropose(v, [node[v] EXCEPT !.round = @ + 1, !.idle = TRUE]) : Step(v, n)
    /\ UNCHANGED <<chain, path, entered>>

\* An event that changes nothing else: a vote, or a timeout without quorum.
OtherEvent(v) ==
    /\ Step(v, node[v])
    /\ UNCHANGED <<chain, path, entered>>

\* finalize, on v's own tally of a block that is decided.
Finalize(v) ==
    /\ node[v].local < Len(chain) /\ node[v].height = node[v].local + 1
    /\ LET h == node[v].height
           n == ResolveWaiters([node[v] EXCEPT !.local = h], h)
       IN  \E x \in StartHeight(v, n, h + 1) : Step(v, x)
    /\ UNCHANGED <<chain, path, entered>>

\* onHeadMoved: the feed is lossy, so heights may be skipped.
HeadMoved(v) ==
    /\ \E h \in node[v].height .. node[v].local :
          \E x \in StartHeight(v, ResolveWaiters(node[v], h), h + 1) : Step(v, x)
    /\ UNCHANGED <<chain, path, entered>>

\* The follower applies a block; the engine hears of it later.
CatchUp(v) ==
    /\ node[v].local < Len(chain)
    /\ node' = [node EXCEPT ![v].local = @ + 1]
    /\ UNCHANGED <<chain, proposed, path, entered, answers, expiries>>

\* A quorum commits one of the blocks proposed at the height.
Decide ==
    /\ \E t \in proposed : chain' = Append(chain, t)
    /\ proposed' = {}
    /\ UNCHANGED <<node, path, entered, answers, expiries>>

-----------------------------------------------------------------------------
(* The RPC side.                                                           *)

ClientWrites(t, v) ==
    /\ path[t] = <<>>
    /\ path' = [path EXCEPT ![t] = <<v>>]
    /\ UNCHANGED <<chain, proposed, node, entered, answers, expiries>>

\* The handler of the last node on the path asks its engine who proposes.
Forward(t) ==
    /\ path[t] # <<>> /\ Len(path[t]) <= MaxHops
    /\ LET v == Last(path[t])
           p == ProposerAt(node[v].height, node[v].round)
       IN  /\ <<t, Len(path[t])>> \notin entered
           /\ p # v /\ p \in Running
           /\ path' = [path EXCEPT ![t] = Append(@, p)]
    /\ UNCHANGED <<chain, proposed, node, entered, answers, expiries>>

\* submit: one trial build on the head of the moment, then the channel.
Submit(t, v) ==
    IF Buildable(t, node[v].local)
      THEN /\ node' = [node EXCEPT ![v].submits = Append(@, t)]
           /\ answers' = answers
      ELSE /\ answers' = answers \cup {[tx |-> t, at |-> v, result |-> "refused"]}
           /\ node' = node

\* A node handles a write when it is the proposer, has no URL for it or
\* cannot reach it.
Enter(t) ==
    /\ path[t] # <<>>
    /\ <<t, Len(path[t])>> \notin entered
    /\ entered' = entered \cup {<<t, Len(path[t])>>}
    /\ Submit(t, Last(path[t]))
    /\ UNCHANGED <<chain, proposed, path, expiries>>

WriteAnswered(t, v) == \E a \in answers : a.tx = t /\ a.at = v

\* The connection to the node a write was forwarded to fails: the one before
\* it handles the write itself.  The first copy may be queued by then.
FallBack(t) ==
    /\ Len(path[t]) > 1
    /\ ~WriteAnswered(t, Last(path[t]))
    /\ path' = [path EXCEPT ![t] = Front(@)]
    /\ entered' = entered \cup {<<t, Len(path[t]) - 1>>}
    /\ Submit(t, Last(Front(path[t])))
    /\ UNCHANGED <<chain, proposed, expiries>>

-----------------------------------------------------------------------------
GenesisNode ==
    [local |-> 0, height |-> 1, round |-> 0, idle |-> TRUE, synced |-> TRUE,
     submits |-> <<>>, queue |-> <<>>, out |-> {}, offer |-> NoTx]

Init ==
    /\ chain = <<>>
    /\ proposed = {}
    /\ node = [v \in Running |-> GenesisNode]
    /\ path = [t \in Txs |-> <<>>]
    /\ entered = {}
    /\ answers = {}
    /\ expiries = 0

Next ==
    \/ Decide
    \/ \E v \in Running :
        \/ OnSubmit(v) \/ EnterRound(v) \/ OtherEvent(v)
        \/ Finalize(v) \/ HeadMoved(v) \/ CatchUp(v)
    \/ \E t \in Txs : Forward(t) \/ Enter(t) \/ FallBack(t)
    \/ \E t \in Txs, v \in Running : ClientWrites(t, v)

Spec == Init /\ [][Next]_vars

-----------------------------------------------------------------------------
\* validateTx and the compare-and-swap of ApplyExternalBlock: however often a
\* write is queued, on however many validators, the chain takes each account's
\* transactions once and in nonce order.
NonceOrder == \A i \in 1 .. Len(chain) : Buildable(chain[i], i - 1)

\* expireWaiters: nothing is left "orphan". A write that a node took in is
\* in its hands or answered, whatever blocks win the heights meanwhile.
NoneForgotten ==
    \A e \in entered : e[2] <= Len(path[e[1]]) =>
        LET n == node[path[e[1]][e[2]]]
        IN  \/ e[1] \in Range(n.submits)
            \/ \E q \in Range(n.queue) : q.tx = e[1]
            \/ WriteAnswered(e[1], path[e[1]][e[2]])

\* A write neither takes effect twice nor gets lost on its way.
WritesInv == NonceOrder /\ NoneForgotten

\* Candidate.Receipt is returned "once - and only once - consensus finalizes
\* this block": a write answered with its receipt is on the chain.
AnsweredFinal == \A a \in answers : a.result = "final" => a.tx \in Range(chain)
=============================================================================
