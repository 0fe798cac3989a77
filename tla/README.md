# Formal verification of zk_voting

TLA+ models of the voting system in this repository, TLC configurations that
check them on small instances, and theorems that TLAPS proves for every value
of the constants. Paths below are relative to `src/packages/`.

- [The system](#the-system): components, state, operations, interaction, what is hard
- [Modules](#modules): how each module corresponds to the code
- [Runs](#runs): what each run checks, its bounds, the fairness
- [Proofs](#proofs): what is proved, from what, along which argument
- [Disagreements](#disagreements): where the code and its documents differ
- [Not modelled](#not-modelled) and [Plan](#plan)

## The system

A national election held in divisions. Four validators (an authority and three
parties) run a small permissioned chain; three Solidity contracts on it hold the
ballot; a web server with a relay key and the voters' phones write to it.

### Blockchain node (`blockchain/`, Go)

| component | state | operations | correct when |
|---|---|---|---|
| Consensus engine (`internal/consensus`) | round state of one height (round, phase, proposal, lock, tallies, dedup record), future buffer, queue of requests, round timer; all of it owned by one goroutine | onMessage (PROPOSAL, PREPARE, COMMIT, ROUND_CHANGE), onRoundTimeout, onHeadMoved, onSubmit, startHeight | one block per height (agreement); one COMMIT per validator and height; a lock is never lost; honest validators are not reported as faulty; pending work always has a timer; writes land when a quorum is up |
| Write path (`submit` in the engine, `internal/rpc/forward.go`, `internal/chain/candidate.go`) | channel and queue of requests with their candidate blocks, waiters | forward to the proposer, fall back, trial build, propose, resolve, expire | a write is mined at most once, in nonce order; every request is answered, and with the truth |
| Chain (`internal/chain`) | head, state, dev clock, receipts | SendTransaction (solo), BuildCandidate, VerifyCandidate, ApplyExternalBlock, system operations, replay at start | blocks follow one another; re-execution gives the same root; the head survives a crash |
| P2P (`internal/p2p`) | queue per peer, peer heads | Broadcast, pull of missing blocks, push (solo mode), TLS | a follower's chain is a prefix of its leader's |
| Commit certificates (`consensus/seals.go`) | certificate per block, beside the chain | Put before the block, Verify, audit | a block that is final has Q seals |
| JSON-RPC (`internal/rpc`) | token bucket per address | eth_*, zk_*, dev | reads agree with the chain |
| Configuration (`internal/config`, `state`, `storage`) | none while running | DeriveQuorum, validation, genesis | any two quorums share an honest validator |

### Contracts (`hardhat/contracts/`, Solidity) and circuit (`circuits/`)

| component | state | operations | correct when |
|---|---|---|---|
| `Voting.sol`, one per division | phase, deadline, election id, GN officers, candidates, pinned NIC epoch, allowlist, Merkle tree, nullifiers, counts | set-up calls and phase changes of the owner, register, vote, resetElection | one leaf per citizen, one vote per leaf, frozen results, a root that does not move under the proofs |
| `NicRegistry.sol`, shared | epoch; per epoch the enrolment of a NIC and the binding of a device | reserveNicHash, reissueDevice, commitDevice, clearNicHashes, setVotingContract | one live device and one registration per citizen, a superseded device stays dead |
| `ElectionRegistry.sol` | list of divisions | createDivision, national totals | totals add up the same candidates |
| `Verifier.sol`, circuit | none | verify | accepts exactly the proofs of a leaf under the root, which fix its nullifier |

### Web server and clients (`nextjs/`, `mobile/`, `identity-mock-server/`)

| component | state | operations | correct when |
|---|---|---|---|
| Account and invite stores (`services/auth/accounts.ts`, `services/voters/enrolmentInvites.ts`) | two JSON files; a chain of promises per file | create, changePassword, setDisabled, remove, clear; upsertPending, claim | no update is lost or half done; a queued call is answered |
| Login guard (`services/auth/rateLimit.ts`, `api/auth/login`) | a window per address, failures and a lock per user name | consume, recordFailure, recordSuccess | bursts are bounded; a name is locked for its failures only |
| Sessions (`services/auth/serverSession.ts`, `api/auth`, `hooks/useElectionAuth.ts`) | a sealed cookie per browser, the pages' shared copy of it | login, change of password, logout, reads and refreshes | a generated password is replaced before anything else is allowed; no page loads for ever |
| One-time codes (`services/otp`) | a record per phone number | sendOtp, verifyOtp | a proof of phone is worth one recent code; tries and sends are bounded |
| Relay (`services/auth/relayExecutor.ts`, `relayPolicy.ts`, `gnAccountCreation.ts`) | cached list of divisions, a reading in flight | check and sign a call, create an officer's account | only who may write signs; an account answered as assigned is one |
| Divisions (`hardhat/deploy/01_deploy_divisions.ts`, `services/divisions`, `hooks/useDivisions.ts`) | the script's record, names an import holds for taken; the list a page shows | deploy, import, create; subscribe, poll | every listed division is authorised, once; pages catch up |
| Admin page (`app/voting/admin`) | what it is busy with | a call on one division, on all, a new election | a citizen has one leaf among the listed divisions, whatever call fails |
| Results (`utils/nationalResults.ts`, `api/election/history`) | none: the event log and the tallies | totals by candidate, history rebuilt from events | they are what was voted |
| Enrolment (`app/gn/register`, `services/voters`, `api/self-enrol`) | the form of each desk, invites, requests | reserve or re-issue, then addVoters; claim | roll and registry agree, whichever write fails |
| Phone (`mobile/`) | secure storage, the operation of the screen | create, unlock and migrate, register, vote, erase | flags are never ahead of the chain; secrets behind a leaf are kept |

### How the parts interact

A client's write reaches some node's RPC handler, which forwards it over HTTP to
the validator that is proposer by its own status, or submits it to its own
engine. The engine queues it, builds a candidate block on its head, and votes by
messages that P2P workers send once each. A block with a quorum is applied to the
chain under compare-and-swap; the chain tells the engine over a lossy
subscription. A follower goroutine pulls blocks from peers into the same chain
behind the engine's back. Contracts run inside block execution; `Voting.register`
calls `NicRegistry.commitDevice` in the same transaction, and an election is
reset by one transaction per contract.

The web server signs officers' transactions with keys from the account store,
after checks against a cached list of divisions and the account as it is now;
the chain checks once more. Pages and phones read the chain directly. A phone
signs its own transactions, and learns of them by a receipt it waits for
for a limited time. The stores, guard, codes, sessions and pages share no state with one
another except through the calls named above.

### What is hard about it

- votes of different rounds, delayed, duplicated or reordered, counted for one block;
- a lock that must survive round changes and cannot survive a restart;
- a timer that is the only source of progress, armed and stopped on many paths;
- a lost message that is never sent again;
- a chain that moves while the engine holds a candidate, a queue and an answer for it;
- a request forwarded, timed out and handled a second time;
- two contracts that are reset by separate transactions while voters register;
- phone replacement racing registration, and two desks racing on one citizen;
- phases that end by time but change only when somebody calls;
- work made of several writes (a new election, a division, an enrolment, an
  identity) of which any may fail, or land without an answer;
- cookies, caches and readings in flight that are older than what they describe;
- a process that stops between two writes of a file or of secure storage.

`PROJECT.json` lists these hazards at the lines where they bite, with the
properties that cover them or the reason why none does yet.

## Modules

| module | models | uses |
|---|---|---|
| `Finality` | what the vote promises, without saying how: one COMMIT per honest validator and height, blocks that join a chain only with a quorum | |
| `Voting` | one height of the vote on a network that does anything, with Byzantine validators | `Finality` (refinement) |
| `Consensus` | the engine event by event: handlers, timer, buffers, links, restarts, followers, over several heights | `Finality` (refinement) |
| `Submission` | the life of a write: forwarding, queue, candidates, answers, deadlines | |
| `SequenceFilter` | the filters of queues, logs and a database's records that `Submission`, `Ledger`, `Seals` and `ChainReaders` use | |
| `DevClock` | block times: wall clock, dev clock, pins, restarts, the clock a validator adopts | |
| `Ledger` | the database of one node: building, verifying, writing, booting, auditing a block | |
| `Seals` | commit certificates, written by the engine and the follower at once | |
| `Replication` | solo mode: the primary's disk, pushes and pulls to the replicas | |
| `GasEstimate` | the binary search of `eth_estimateGas` | |
| `ChainReaders` | `eth_getLogs` and the routes that put an answer together from several reads | |
| `Deployment` | what each node of a cluster checks of its own configuration | |
| `NicRegistry` | the contract of that name | |
| `Election` | several divisions composed with the registry they share | `NicRegistry` |
| `ElectionAdmin` | the page that runs and resets all divisions, call by call | `Election` |
| `AtomicStore` | what the JSON stores promise: each call in one step, or not at all | `StoreCalls` |
| `FileStore` | how they do it: queue, read, rename, failures, restarts | `StoreCalls`, `AtomicStore` (refinement) |
| `StoreCalls` | what each call admits and writes | |
| `Throttles` | the limiter and the lock of the login, with overlapping attempts | |
| `Sessions` | cookies of one user name, and what pages believe of them | |
| `Otp` | one-time codes of one number | |
| `Limits` | both limits on guessing | `Throttles`, `Otp` |
| `Relay` | an officer's calls and account behind the cached list of divisions | |
| `DivisionSetup` | the deploy script and imports at work on one registry | |
| `DivisionList` | the list of divisions as the components of a page share it | |
| `Results` | event log, past elections, national totals | |
| `Enrolment` | desks and invites, composed with the registry | `NicRegistry` |
| `Phone` | a voter's phone, composed with a whole election | `Election` |
| `Finality_proofs`, `Voting_proofs`, `Consensus_proofs` | theorems | the module they name |
| `Chain_proofs` | theorems | `DevClock`, `Replication`, `Submission` |
| `Node_proofs` | theorems | `Ledger`, `Seals`, `GasEstimate`, `ChainReaders`, `Deployment` |
| `Election_proofs` | theorems | `NicRegistry`, `Election`, `ElectionAdmin`, `Enrolment`, `Phone` |
| `Web_proofs` | theorems | `FileStore`, `Sessions`, `DivisionSetup`, `Throttles`, `Otp`, `Relay`, `Results` |
| `Induction_proofs` | induction on the naturals; what filtering and joining sequences gives | `SequenceFilter` |
| `MCVoting`, `MCConsensus`, `MCSubmission`, `MCElection` | constants and symmetry for TLC | the module they name |
| `MCEngines` | two instances of the engine in one run | `Consensus` |
| `MCChain`, `MCRecords`, `MCOffices`, `MCCitizen` | several modules, for TLC to look at one at a time | see [Runs](#runs) |

Definitions that begin with a comment "Mutant:" are not part of a model. Each is
a definition with a bug in it, there to show which property would notice.

### Voting

`round`, `ph`, `proposal`, `locked`, `lockedRound` are the fields of `roundState`
(`roundstate.go`); `decided` is the local chain's block at the height. `msgs`
holds every message broadcast. Nothing is removed from it, and what a validator
has tallied is whichever part of it the action needs, so loss, delay, duplication
and reordering are all there. What Byzantine validators could ever sign is in
`msgs` from the start. Actions: `Propose` (onSubmit at an idle proposer),
`OnProposal`, `OnPrepareQuorum` (lock, then COMMIT), `OnCommitQuorum` (finalize),
`OnRoundTimeout`, `OnRoundChangeQuorum` (enterRound, adoption of the highest
reported lock, re-proposal), `CatchUp`, `Restart`. As in the code, prepares are
tallied by block and not by round, a COMMIT carries no round, and a validator
that already has a lock keeps it whatever the quorum reports. A `Restart` empties
the round state. One that forgets a COMMIT makes its validator one of the
`amnesiac`, and the fault assumption `MaxFaulty` counts these with the Byzantine;
a restart before a COMMIT is free.

### Consensus

`node[v]` is what the engine goroutine owns. A Go handler is an operator from
that record to the set of records it may leave, so that a handler that calls
another is a composition, and an action is a whole event of `Engine.Run`
including the tail finalize, startHeight, maybePropose, publishStatus.

- `seen` is the dedup record (one message per round, type and signer); `prepares`
  and `commits` are the tallies; `faulty` the equivocators whose votes are withdrawn.
- `future` is the future-height buffer. `startHeight` replays it in a loop, in
  which a height may be finalized and the next one started. `Replay` takes one
  message of the loop at a time, and nothing else happens at the node meanwhile.
- `synced` is the status of the end of the last event, which maybePropose trusts.
- `queue` counts requests; `candidate` is the height the one in front was built for.
- `link[u, v]` is the queue of the P2P worker from u to v: in order, never
  re-sent. `Lose` drops its head: an error, a time-out, a full queue or a full
  inbox. Messages that the receiver would drop unread leave at once.
- `CatchUp` is the follower, which moves the chain and says nothing; `HeadMoved`
  is the engine hearing of it later, with heights left out.
- `Restart` keeps the chain and loses the rest; messages under way may be lost with it.
- `Forge` is a Byzantine validator with any signed message of the height.

`HeightSpec` leaves out replays, restarts and losses; the runs of one height without
faults use it, in which it has the behaviours of `Spec`. A block is a model value. A
candidate built on a head that is not the one under
vote is `StaleBlock`, which no validator accepts. A queued request may become
unbuildable once the chain has grown (`StillBuildable`).

### Submission

`path[t]` is the chain of HTTP handlers that hold write t; `node[v].submits` the
channel into the engine, `node[v].queue` its requests with their candidate
numbers. `Forward` asks the node's own engine who proposes; `FallBack` is the
broken connection after which the handler submits locally while the first copy
may be queued elsewhere; `Enter` is the trial build. The vote is abstracted to
`Decide`: some proposed block wins. `Step` ends every event with expireWaiters and
publishStatus. A block carries one transaction and is named by it, as in the code.

### DevClock, Ledger, Seals

`DevClock`: `now` is the wall clock; per node `devOffset` and `pinnedTime` are the fields
of the chain, `applied` its head. `promised`, `since` and `hurry` record what the
property compares with. In solo mode the sealer seals; under consensus blocks are
`Offer`ed, verified, and adopted when a quorum has taken them. `Restarts` is
`seedDevClockFromHead`.
`Ledger`: `writes` is what is left of a call's writes, in their order, `disk` what has
been written, `synced` how much of it survives a power cut, which leaves any part of
the rest. A block holds a transaction, a system operation or nothing. `Damages` are
records lost or changed behind the node's back, for the audit to find.
`Seals`: `engine` and `follower` are where the two goroutines are, `kept` the records in
the order of their writing, `liars` the peers that answer something else.

### Replication

A ledger is the sequence of its blocks, and a block is sent as the ledger it ends.
`worker` is the pusher's goroutine for a replica with the block and the attempt it is at,
`pull` the page a follower has asked for. `Sync` is what makes a receipt be sent; a
`PowerCut` at the primary leaves any part of what was not synced. `ApplyPage` takes the
blocks of a page at one step: in the code they go in one by one, each on the one
before, and a page the replica stops in the middle of is a shorter page.

### GasEstimate, ChainReaders, Deployment

`GasEstimate`: `enough` is any set of gas limits with which the call succeeds.
`ChainReaders`: the chain grows block by block while a route makes its reads, one
action each. `spent` is what the contract keeps of the present election: after
`Resets` a leaf can be registered and its nullifier spent again (`Voting.sol:104`,
`hardhat/test/Voting.ts:344`). `Deployment`: each machine boots with the plan, or with one slip of one
variable.

### NicRegistry and Election

An action is one transaction that does not revert, so `require`s are guards.
Mappings keyed by an epoch or election id that only grows are kept for the
current one. `commits` is the event log of claims. `Election` adds, per division,
the state of `Voting.sol`; `Register` performs its own writes and `CommitDevice`
of the registry in one step. `expired[d]` says that the block time has reached
the deadline of the phase, `CurrentPhase` is `_maybeAdvancePhase` and
`currentPhase()`. `leaves` carries, beside the commitment, who inserted it, which
the contract does not store; it serves the properties. The verifier is external:
a proof exists exactly for a leaf of the tree, and fixes its nullifier. Two
leaves may share a nullifier (a voter chooses the secrets).

### ElectionAdmin

`job` is the loop the page is in: `todo` the divisions it has not come to, `step`
the place in `ResetOrder` (ballots of all divisions, the list, the NIC records) of
`handleResetElection`. `JobCalls` is a call that lands, `JobSkips` one that fails or is
passed over; `todo` starts as any part of `listed`, since the page may not have read
the newest division. `ClearList(FALSE)` is a call that lands without its answer: the
page stops. Between any two of them officers and voters go on.

### StoreCalls, AtomicStore, FileStore

A file maps a key to a record. `queue[s]` is the promise chain of a store, `pc[c]` how
far a call is, `contents[c]` what the running mutation has read. `Rename` is the one
step that changes the file. `Break` is a read or a write that throws, `Restart` a server
that stops: calls in progress are never answered. `changePassword` looks at the
account before it queues (`Precheck`), and again when it runs. The refinement maps
`Rename` to `Take`; `file` and `answer` are the abstract variables themselves.

### Throttles, Otp

Clocks are variables and times are small numbers. `Throttles` follows one user name
and several addresses; an attempt waits for its body and for the comparison of its
password, and others move the counters meanwhile. `admitted` and `wrong` record what
the properties are about, and are reset where the code resets its counters.
`Otp` follows one number; a code is its number in the order of sending.

### Sessions

`officer` is the record under one user name, which may be removed and created again;
`sealed[b]` the browser's cookie, a copy of the record at login; `post[b]` the login or
change of password whose route is between two awaits; `page[b]` and `reads[b]` the shared
store of `useElectionAuth` and its requests, which a refresh forgets and does not abort.

### Relay

One officer's account is followed. `cache` and `reading` are `divisionsCache` and
`divisionsInFlight`; `ReadOfficers` asks each contract, and one that does not answer
counts as having the officer the registry names. `call[c]` goes through the list, the
checks and the transaction, with the account read in the step of the checks.
Creation of an account loads the list, stores the account, loads the list again.
Local steps take no time; a reading takes at most `MaxRead`. `ready` and `usable` are
what the properties compare with.

### DivisionSetup, DivisionList

`DivisionSetup`: the script deploys, authorises and lists each division, looking first
whether that was done; it may stop at any step, also between a deployment and its
record. Imports create divisions row by row with the names of a cached list; a
transaction may land without its answer, a receipt may be unreadable. An import
of one row is the panel. `DivisionList`: `key`, `latest`, `inFlight`, `timer`, `shown` are the
module variables of `useDivisions.ts`; a list and what contracts say are versions.

### Results

`log` is the event log of all contracts. `History` is the route's computation: split at
`DivisionsCleared`, then at `ElectionReset`, the last `CandidatesUpdated` naming the ballot.
`archive` and `meant` say what was voted. A contract is listed again only with an
empty ballot, as the page does it.

### Enrolment, Phone

`Enrolment`: an officer's desk plans (`Plan`), asks for a confirmation when a phone is
replaced, writes the registry, then the roll. A link's request does the same with the
owner's key and marks the invite last. Each write may fail or land unanswered; `gaps`
are the citizens whose phone a failed second write or a reset left off the roll, until a
write puts it on again. A new election is what `handleResetElection` does
(`NewElection`): `reset` holds the divisions the page has before it; each is reset
(`ResetDivision`) or fails and is passed over (`ResetSkips`), then the list is cleared
or the page stops (`ListCleared`), then `clearNicHashes` lands or fails
(`ReleaseEnrolments`, `EnrolmentsKept`). Desks, links and phones go on between any two of
these. What such a sequence really leaves behind is named, not assumed away: `stale`
is the entries of a roll that are of an earlier epoch, because the division's reset failed or
because the registry was written before the epoch and the roll after it.

`Phone`: `Citizen` holds the phone, and an officer who
scans a key of it enrols that citizen and nobody else with it. `store` is secure
storage, each of whose entries is written alone; `flow` is lost when the app is killed;
a transaction in `txs` may be mined after the app stopped waiting, and the rest of the
election (`Authorities`) goes on. `torn` marks an erasure that left an entry behind (one
entry at most). A phone may be of the old storage layout: `OldRegister` is the app before the update,
which drew its secrets when it registered, `LoseSecrets` an update or a storage that
loses one of them or both. A screen is opened (`Open`), the identity unlocked: from its one
entry (`Unlock`), or out of the old ones (`Migrate` writes, `DeleteLegacy` deletes any part of
them), or not at all (`SecretsMissing`). `Held` is the identity a phone has in either layout.

## Runs

Passing runs, with the property's question in words:

| run | asks | instance |
|---|---|---|
| `Voting_byzantine` | Do the parts of the inductive invariant hold, does an honest validator commit once, do honest validators agree, is `Finality` implemented? | 4 validators, 1 Byzantine, 2 blocks, rounds 0 and 1, all reorderings, 1 restart before a COMMIT |
| `Consensus_byzantine` | Does the engine implement `Finality` against forged proposals and prepares? | 4 validators, 1 Byzantine, 2 blocks, one round; safety over several rounds is `Voting`'s |
| `Consensus_faults` | Is work ever left without a timer, is an honest validator that has not restarted ever reported, does a lock survive its round, do nodes agree, with buffered messages, nested replay and catch-up? | 3 running of 4. Rounds: one height, 2 rounds, time-outs at any moment. Heights: 2 heights, 2 clients, one round, a restart or a lost message |
| `Chain_faults` | Do block times grow and keep promises? Is a write mined once and in order, and never forgotten? Does the node boot, and its audit pass and find, at whatever write the power is cut? Has it the certificates of its own blocks? Are gas, logs, paths and histories what the chain holds? Is what each node checks of its configuration enough for the cluster? | clock: 2 nodes, 3 blocks, 2 dev calls; writes: 2 entry nodes of 4, 2 writes of an account, 1 hop, 1 expired deadline, 2 rounds; database: 2 blocks, 3 transactions, a system operation, 1 failure or power cut; certificates: 2 blocks, 2 peers of whom one may lie, 1 cut; gas: limits to 7; readers: 6 blocks, 2 leaves and 2 ballots, a limit of 6; cluster: 3 machines of a plan of 5 |
| `Consensus_liveness` | Does every accepted write become final? | 3 running of 4 with the proposer of round 1 down, rounds 0 to 4, 2 clients, fairness below |
| `Election_division` | Is the inductive invariant kept, are votes counted, does the root stay put, does a replaced phone stay dead? | 1 division, 2 citizens, 3 devices, an officer, 3 leaves of which two share a nullifier, 2 epochs, 2 elections |
| `Web_offices` | Has a citizen one leaf among listed divisions whatever of a new election fails? Are results frozen, totals and history what was voted? Who may sign through the relay? Are logins and codes throttled as promised? | new election: 2 divisions, 1 citizen, 2 leaves, 1 reset; relay: 2 requests, 2 divisions ever, 1 key, a cache and a reading of 2 and 1 moments; results: 2 contracts, ballots of 2 and of 1 candidate, 6 events; login: 3 attempts from 2 addresses; codes: 3 sent, 2 tries |
| `Records` | Is a block whose sender was answered kept, and does a replica hold the primary's blocks and catch up? Do the stores keep `AtomicStore`'s promise and answer what they queued? Does a generated password have to be replaced? Do the script and imports leave each division ready? Do pages finish loading and catch up? | 5 calls on 2 stores; 1 browser, 2 accounts, 2 reads; 1 division of the script, a file with a name twice and the panel, 1 crash; 2 components, 3 versions; 1 replica, a queue of 1, 1 retry, pages of 2, 3 blocks ever made |
| `Citizen` | Do roll, registry and invites agree whichever call of a desk, a link or a new election fails? Are the phone's flags never ahead of the chain, its secrets kept through retries, kills and migration, its citizen counted once? | 2 officers, 2 devices, 1 citizen, 1 division; desks: 1 request, 2 epochs, any number of resets; new phone: 2 leaves, 3 transactions, 2 elections, no verification; phone of the old layout: 2 leaves, 2 transactions (`OldSends`), 1 election, not set up again |

Violations, each a statement of the code's own comments or messages that it does
not meet (see [Disagreements](#disagreements)): `Submission_lost_height`, `Clock_bft`,
`Citizen_not_counted`.

`MCChain`, `MCOffices`, `MCRecords` and `MCCitizen` hold several modules in one run: the
variable `part` is chosen at the start, and only that part moves. The parts of the
first three share no state, so this leaves out no behaviour that a property of one
part could see. In `MCEngines` the parts are two bounds for one module. In `MCCitizen` all parts have the registry, and a phone is followed
with the authorities of its own module in place of the desks, within one epoch and
with a division that keeps its authorisation; a new phone and one of the old layout
are two parts, each within the bounds of the table. The
theorems about `Phone` have none of these bounds: any number of epochs, elections and
citizens, and one phone that may do all of it.

### Why the bounds are enough

N = 4 with a quorum of 3 is the deployed configuration and the smallest the
configuration accepts. Two blocks are what agreement needs to fail. Two rounds bring a
proposal, a lock and a round change that reports it; the theorems about `Voting` hold
for any number of rounds and validators. Two heights are what the future buffer and the
nested replay need. In `Consensus_liveness` five rounds are one full rotation and one
more, which is what the promise of `armTimer` spans. One restart or one loss is enough
to meet every handler with one. Two devices of a citizen are a re-issue, two divisions
and one reset the cross-division question; the registry theorems hold for any number.
Two requests are what a shared reading or a race of two desks needs, two accounts of a
name what a cookie outliving its account needs, three attempts what a lock after two
failures needs to be wrong about. Times are chosen so that each life (window, lock,
code, cache) ends and begins again within the clock. Bounds that the code does not have
are `MaxHeight`, `MaxRound`, `MaxQueue`, `MaxRestarts`, `MaxLosses`, `MaxFaults`,
`MaxHops`, `MaxExpiries`, `MaxBlocks`, `MaxDevCalls`, `FirstWall`, `LastWall`, `Drift`,
`Jumps`, `Pins`, `LastTime`, `Deadline`, `Prefund`, `MaxNumber`, `TopBlock`, `MaxCuts`,
`MaxHead`, `MaxMade`, `Suspects` (one peer may lie), `Machines` and `Plan`, `MaxEpoch`,
`MaxElection`, `MaxTime`, `MaxClock`, `MaxMoment`, `MaxRead`, `MaxCodes`,
`MaxContracts`, `MaxKeys`, `MaxEvents`, `MaxAccounts`, `MaxReads`, `MaxVersions`,
`MaxCrashes`, `MaxSends`, `OldSends`, and `MaxCandidates`, `Limit`, `MaxFailures`, `MAX_ATTEMPTS`,
`QueueSize`, `Retries`, `PullLimit`, `PageLimit`, `LogRangeLimit`, `BlockChunk`,
`BlockGasLimit` and the times as small values of the code's own. Deadlock is not
checked, as every model ends at its bounds.

Symmetry: blocks are interchangeable in the runs of `Voting` and of the safety of
`Consensus`; devices and NICs in `Election_division`, divisions
and relay requests in `Web_offices`, devices and officers in `Citizen`. No run of a
liveness property uses symmetry.

### Fairness

`Consensus_liveness` assumes weak fairness of each of

- `RoundTimeout(v)`: an armed Go timer fires and its channel is a case of the select loop;
- `HeadMoved(v)`, `Replay(v)`: the goroutine goes on with its loop and its subscription;
- `\E u : Deliver(u, v)`: the inbox is a case of the same select; weak fairness
  per receiver, since the goroutine does not choose among senders;
- `\E w : CatchUp(v, w)`: the follower polls on a ticker.

`Submit`, `Restart` and `Lose` have none. Two switches say how the network behaves
in time. `Synchronous`: a round timer outlasts what is being delivered
(`CONSENSUS.md` section 5 asks for it: "three validators reachable within the round
timeout"). `Uniform`: links are equally fast, so the votes of a round do not
overtake, on another link, the round changes it follows from. Both are
assumptions about the network, not about the code. The first is documented; the
second is not, but `onProposal` drops a proposal whose round its receiver has not
entered and nothing sends it again, so a liveness result has to assume it.

`Records` assumes weak fairness of each of

- `StoreWorks(s)`: a file operation of the running mutation completes or throws;
- `MountEffect(b)`, `ReadEnds(b)`: React runs the effect of a mounted component, a fetch
  is answered or fails;
- `Effect(c)`, `Poll`, `Refresh`: effects run, the interval fires, wagmi reads again
  with new blocks;
- `AskForPage(r)`: a follower polls on a ticker;

and strong fairness of `ReadSucceeds`, `Serve(r)` and `ApplyPage(r)`: a reading of the
divisions is made again every 15 seconds, a page is asked for again at every tick,
and not all of them fail, or are cut off by a restart, for ever. Nothing is asked of
the pushes. Nobody has to watch, create, import or sign in; servers may restart.

### What each property would catch

- `CommitOnce`, `LockHeld`: a lock set late, moved by a reported lock, or dropped on
  entering a round. The failure shows rounds later and needs three validators.
- `Agreement`, `PromiseKept`, `LedgerSpec`: counting votes for the wrong block or too
  few; a follower and the engine that apply different blocks at a height.
- `WorkIsTimed`: a path that leaves a request, a lock or a waiting peer with no timer;
  over heights, where a nested replay leaves a height behind.
- `EngineInv`: late, repeated and replayed votes mistaken for equivocation.
- `WritesLand`: a rotation that skips somebody, a wake-up that is lost.
- `WritesInv`: two copies of a write in two queues, a block that answers one request
  and forgets another.
- `ClockInv`: a deadline missed or met early by a clock that a restart, a failed sync or a
  jump has left behind the head.
- `LedgerInv`, `SealsInv`: a block written before its state, a certificate after its
  block; an audit that does not hash what it reads.
- `GasInv`, `ReadersInv`: a search that stops below what a call needs; leaves, votes or
  windows read at two heads and taken for one.
- `DeploymentInv`: one mistyped variable with which nodes boot and work against each other.
- `CopiesInv`, `ReplicaCatchesUp`: a block answered before it is on disk; a
  block taken for its number; a page that leaves the last block out.
- `NicInv`, `SupersededForever`: a phone replaced while it registers, a dead phone revived.
- `EInv`, `ListedOneLeaf`: registrations across resets and epochs, a new election
  half of whose calls failed.
- `VotesCounted`, `RootStable`, `ResultsFrozen`: votes and leaves around phase changes.
- `ResultsInv`: events of one election counted in another,
  candidates matched by place.
- `NoLostUpdate`, `QueueDrains`: two requests that read the file before either writes; a
  failure that blocks all that follow.
- `LimitsInv`: a success, a lock's end or an overlapping comparison counted wrongly; a
  code used twice, after a newer one, or tried more often by resending.
- `SignedWhenUsable`, `RelayTruthful`: checks made on an account or
  list that has changed since; a cache without an end.
- `GateKept`, `LoadingEnds`: a cookie sealed from a stale copy; a page left loading by a
  reading that was forgotten.
- `SetupInv`, `ListCatchesUp`: a script run again, a name twice in a file, two imports at
  once; a timer that is never started again, a change missed during a reading.
- `EnrolmentInv`: a second write made although the
  first failed, two desks replacing phones at once, a reset between the two writes of a
  desk, an invite marked too early.
- `PhoneInv`, `OneVotePerElection`, `SecretsKept`: receipts not looked at,
  an app killed between two entries, secrets drawn anew over those of a leaf: by setting
  up again, or by a migration that takes a failed read for a missing secret.

## Proofs

All theorems hold for every value of the constants that meets the named
assumptions; none depends on the instances above.

**Finality** (`Finality_proofs`). Assumed: any two quorums share an honest
validator (`FinalityAssumption`). `Agreement` is not inductive: it says nothing of
the votes. `Inv == TypeOK /\ VoteOnce /\ ChainCommitted` adds that an honest
validator votes once at a height and that each block of a chain has a quorum
behind it. A committed block stays committed (`CommittedMonotone`), two blocks
committed at one height are one (`CommittedUnique`), and chains grow only by
committed blocks (`AppendCommitted`).

**Voting** (`Voting_proofs`). Assumed: `2 * Quorum - N > MaxFaulty`, the condition in
the comment of `DeriveQuorum`, where the faulty are the Byzantine validators and the
honest ones that restart after their COMMIT and so forget it. `TypeCorrect` is the
type invariant by itself; `InvAlways` is the inductive one, restarts included: beside `TypeOK`, `FaultsBounded` (the fault
assumption), `CommitLock` (whoever has committed a block and not forgotten it is
locked on it), `VotedBlock` (the block in hand when the prepare quorum completes
is one the lock allows) and `DecidedCommitted` (a decided block has a quorum of
COMMITs). `AgreementAlways` follows by the counting lemma `QuorumsShareCorrect`: two
quorums share a validator that is neither Byzantine nor amnesiac, and it is locked
on both blocks. `CommitOnceAlways` and `ImplementsFinality` assume in addition that the
Byzantine validators exhaust the fault assumption (`MaxFaulty = Cardinality(Byz)`), so
that nobody forgets a COMMIT; a validator that forgets one may make another.
The refinement maps a COMMIT of the protocol to `Commit`, the quorum to
`Finalize`, catch-up to `CatchUp` and every other step, a harmless restart among
them, to a stutter. The proof needs no argument about which lock a round change
reports: safety rests on each validator's own lock.

`DeriveQuorumSafe` is the arithmetic of `DeriveQuorum`: its quorums meet that condition for
every number of validators of which less than a third is faulty.

**Consensus** (`Consensus_proofs`). Assumed: `ConsensusAssumption`, and that no process
restarts (`Unbroken`): a lock is in memory only, so that the engine, unlike `Voting`
with its `amnesiac` validators, promises nothing to a cluster in which one restarts
inside a height. Links may lose, and Byzantine validators forge whatever the model has.
A handler leaves a record whose `out` is what it has signed so far, and handlers call
one another, so the invariant is about a record between two calls: `Sane` says of a
validator's record, with what is sent and about to be sent, that it has said nothing
beyond its round (`NotYetSaid`), that its vote at its height is its lock (`Bound`), that
its tallies are of messages it has heard, that each block of its chain has the votes of
a quorum (`ChainDecided`), and that whoever it takes for an equivocator is not honest.
`Inv` is that for every honest validator, and of all that was sent that an honest signer
has proposed and prepared one block a round and voted for one a height (`SignedOnce`).
The case that needs an argument of its own is a block proposed on an older head
(`Outvoted`): it can be prepared only at a height at which a quorum has voted already,
none of whom prepares it, so a quorum never does. Results: `EngineInvAlways` (nobody
honest is reported), `LocksAreHeld`, `EngineImplementsFinality` (each event maps to
votes, a finalized block, a catch-up, or nothing, of one height after the other), and
with `N > 3 * Cardinality(Byz)`, which is not needed for these, `AgreementAlways`.

`WorkIsTimedAlways` is about every behaviour, restarts included: it needs nothing of what is
signed. The parts of a handler are followed with what each does to the timer of a
record (`Timed`: work means a timer, unless a replay has left its height), and a handler
may leave a height only to start the next, which arms it.

**DevClock** (`Chain_proofs`). `ClockInvAlways`, for any number of nodes, in both modes. The
invariant says of every block, also of one on offer, that it is later than its parent
and due (`TimesGrow`), and of every node that its clock shows what it promised, and
without a pin at least the time that has passed since its head (`ClockKept`).

**Replication** (`Chain_proofs`). `DiskInvAlways` is the inductive invariant: what was answered
is within what was synced, this within the primary's ledger, and every block at a
replica, in a queue, at a worker or in a page is one the primary holds or has lost in
a power cut. `ReceiptsKeptAlways` and `FollowInvAlways` follow, and both as `CopiesInvAlways`, for any replicas, sizes of
queues and pages and numbers of retries.

**Submission** (`Chain_proofs`). `WritesInvAlways`, for any validators, accounts, writes, hops and
deadlines. Neither part of `WritesInv` is inductive. For the order: whatever has been
proposed can be built on the chain as it is (`Offered`), because an engine offers only what
its own trial build took (`NodesFit`) and the proposals of a height end with it. For what
must not be forgotten: every operation of an engine hands on, in its queue, its channel or
an answer, each write it held (`Keeps`), a request that fell back is in local hands from
there on (`PathsFit`), and so is each that was entered (`EnteredTaken`). The compare-and-swap
is in both: a block that comes from the follower invalidates what was offered.

**Ledger** (`Node_proofs`). `LedgerInvAlways`, for any transactions, system operations,
failures and power cuts. The chain on the disk is `Good`: each block is what executing it
on the one before gives, and the counts of votes and nonces in its state are those of the blocks
up to it. Of the disk the invariant says that a block is behind the state it ends in
(`Grounded`), of whoever holds the chain's lock that what is left to write makes a block that
follows the head (`WritesPending`). A power cut leaves a prefix, and a prefix of a good chain
is good (`GoodPrefix`). That the audit finds damage is then a lemma about one record changed
in a good chain; it rests on hashes, which the model has without collisions.

**Seals** (`Node_proofs`). `SealsInvAlways`, for any validators, quorum, peers, page size and power cuts.
`Stored`: the blocks on disk are numbered, each one the engine committed has its certificate
in front of it, and each certificate is one of a quorum unless a peer lies. `Covered`: a block
without one is among those whose certificates the follower has still to ask for or to write.
`PeersFit`, `EngineFit`, `FollowerFit` say what peers serve and where the two goroutines are.
`ServedSeals` needs no invariant: it is the counting in `SealedBy`.

**GasEstimate** (`Node_proofs`). `GasInvAlways`, for any limit and any set of amounts that are enough:
the upper end is one of them and the lower end is not (`GasIInv`), which is what a bisection
keeps even where more gas may hurt.

**ChainReaders** (`Node_proofs`). `ReadersInvAlways`, for any leaves, ballots, limit and window, as
long as a window is within the limit (or there is none). What a query answers is a `Scan`: the parts that the blocks
of a range contribute, joined; `GetLogsScan` says that the blooms pass over no block that has
one. `EveryFilterExact` states `LogsExact` of every filter, where the run tries some. A scan splits where a window ends (`ScanSplit`) and does not change when the chain
grows (`ScanStays`), so the windows add up to that of the head they began at (`WindowRead`,
`HistoryRead`). Of the chain the invariant says that the leaves of the contract after a block
are the last ones logged up to it (`LeavesLast`), which is why the route may take as many
from the end as the tree has, and that votes are kept (`VotesKept`): the first log of a
nullifier is of the election that first spent it, and it stays spent until a reset; of a request, what it has read so far (`Stage`). A path is of the right tree only if
no leaf was sealed between its two reads, as `PathOfTree` states it.

**Deployment** (`Node_proofs`). `DeploymentInvAlways`, for any plan of at least `MinValidators`
different validators. Each kind of slip that passes `Validate` leaves a configuration that is
`Sound`; the cases that need an argument are those of the validator set, where a name lost,
doubled or exchanged must leave fewer names than entries, or the machine's own entry wrong.

**NicRegistry** (`Election_proofs`). `OneCitizenOneRegistration`: `NicInv` is
inductive. `OneLiveDevice` alone is not, because re-issue needs the registration
to be undecided, which is `CommitFinal`, which needs `CommitsDated` to survive a new
epoch. `SupersededStays` is the action property that follows.

**Election** (`Election_proofs`). `RegistryImplemented`: every transaction of the
divisions is a transaction of the registry or leaves it alone, so all that is
proved of the registry holds in an election. `ElectionInvariant` proves `EInv == TypeOK /\ BallotPhase /\
LeavesClaimed /\ LeafPerDevice`, which ties the leaves of a division to the claims at
the registry in the epoch that was pinned when registration opened;
`OneLeafAlways` is that and `OneCommit`. `RootStaysStable` needs `BallotPhase`: spent
nullifiers mean that registration is over. `VotesCountedAlways` sums the counts of any
number of candidates: `Total` is a recursive function, of which `Induction_proofs`'
lemmas give that it is defined and that one more vote for one candidate is one more
in all. `ResultsStayFrozen` needs that a division at its end stays so until it is reset.

**ElectionAdmin** (`Election_proofs`). `PageImplementsElection`: each step of the page is
a transaction of `Election` or none, so its theorems hold of elections run from the
page. `ListedOneLeafAlways` says what the order of a new election is for. Its
invariant adds to `EInv /\ NicInv` that the leaves of listed divisions are of the
registry's present epoch (`Current`): the list is emptied before an epoch ends, and
a contract is listed once. `EInv` then ties two leaves of a citizen to one claim.

**Enrolment** (`Election_proofs`). `EnrolmentInvAlways`, for any number of desks, requests,
divisions and citizens. None of the parts of `EnrolmentInv` is inductive. The invariant
says of each desk and each request what its officer has seen of the registry and
what of it still holds (`DeskInv`, `RequestInv`): a plan to reserve is refused if somebody
else was faster, and a device that a re-issue replaces may be taken off a roll only
because it is superseded for ever. `RollInv` ties each device of a roll to the citizen and
the division it was given to, `LiveInv` each citizen's live device to the roll, but for
those a desk or a request still works on (`Awaited`) and those in `gaps`. None of it
assumes that a reset finds no enrolment half done or that its calls succeed: an entry of a
roll is of the registry's epoch or `stale`, and each step of the page says which it leaves.

**Phone** (`Election_proofs`). Assumed: the keys drawn on a phone are enrolled for the citizen
who holds it. `PhoneImplementsElection`: the chain makes no step because of a phone, its
losses and its restarts that `Election` does not have. `PhoneInvAlways`, `SecretsAreKept`
and `OneVoteAlways`, for a new phone and one of the old layout, share one invariant, `Whole`: `EInv /\ NicInv`, what storage and the
screen may hold (`StoreInv`, `FlowInv`), that a transaction that landed left its mark on the
chain for as long as the election lasts (`LandedInv`), that a leaf with secrets of this
phone is one it sent (`LeavesAreSent`), and that its keys are its citizen's (`KeysInv`). Two votes
that count need two leaves, both of the phone's citizen, who has one.

**FileStore** (`Web_proofs`). `Atomicity`: the stores implement `AtomicStore`, for any calls
and any number of failures and restarts. `StoreInv` (`StoreInvAlways`) is what makes the rename
atomic: whoever has read the file is the first of its queue and the file is
still what it read.

**Sessions** (`Web_proofs`). `GateKeptAlways`: by an invariant on every copy of an
account, in cookies and in routes between two awaits: no copy is of an account
made later than the last one (`NotLater`), and behind an ungated record, and behind
a route about to seal an ungated cookie, is a replaced password (`OfficerInv`,
`PostInv`).

**DivisionSetup** (`Web_proofs`). `SetupInvAlways`, for any tags, imports, rows and crashes.
Assumed of the constants: there is a tag, a file has a row (an import of none is
refused, `bulk/route.ts:68`), and no import is named like the script. The invariant
follows the script: each tag before the one it is at is complete (`ScriptInv`), no
contract is listed twice, and each import has for taken every name it has listed, but
for the row it is at (`ImportsInv`).

**Throttles, Otp** (`Web_proofs`). `LimitsInvAlways`, for any numbers and lengths.
Of a limiter the invariant says that its window has counted all it let through since it
opened, and that in an interval that ends with the opening, and is shorter than a
window, it let through at most the limit (`Limiter`). Of the lock, that it counts no
failures from before a success or the end of an earlier lock (`LockInv`). Of the codes,
that the one record kept is of the last code sent, with all its tries. Assumed: the
cooldown is not longer than the life of a code (`otpService.ts:19`: 30 seconds and 5
minutes); otherwise a code swept at its end would let the next be sent too soon.

**Relay** (`Web_proofs`). `SignedWhenUsableAlways`, `RefusedWhenNewAlways` and
`AssignedIsOfficerAlways` (together `RelayTruthfulAlways`), for any number of requests, divisions and keys. The invariant says of
a list, wherever it is kept, when its reading began and what it then said truly; it
says so still of all that has not changed since (`Kept`): the divisions, unless they were
cleared, and the officer's own contract and key, unless something about them changed.
Assumed: a list is kept for some time (`TTL > 0`).

**Results** (`Web_proofs`). `ResultsInvAlways`, for any contracts, lists and number of events.
What the log yields is a function of the whole log, so the invariant says what the part
after the last clear yields (`Tells`): of a listed contract, the segments that are over
tell the elections that ended in it, and the one that goes on has the contract's list
last and its votes place by place; of any other contract there is no event. A clear
then makes of that part just what the contracts held. The lemmas follow one event
through each step of the route: the dividers, the parts between them (`PartAppend`),
the events of a contract, the segments told (`ToldAppend`). For the totals it says that
what is beside a name are the votes meant for it (`Votes`, `BesideOneMore`), and needs that
nobody votes before there is a list and no list changes once somebody can. Assumed: a
list has a candidate (`Voting.sol:188`).

What this prover cannot do: liveness under fairness and ENABLED (`WritesLand`, `QueueDrains`,
`LoadingEnds`, `ListCatchesUp`, `ReplicaCatchesUp`). The library's induction theorems take an
operator as a parameter and cannot be used; those about well-founded relations on a set
can, and are enough for a recursive function on the naturals (`Induction_proofs`). What a
fold over a bag or a set computes for any number is not shown.

Model-checked only: `DivisionList`, which has a liveness property only. Agreement of the
engine is proved without restarts; with one it is checked (`Consensus_faults`).

## Disagreements

Each is a violation run of one property; the statements are quoted in
`PROJECT.json`.

1. `Submission_lost_height`: `candidate.go:77` says that a receipt is returned only
   when its block was finalized. `resolveWaiters` compares block numbers, so a
   client may get the receipt of a candidate that lost its height, and the
   request leaves the queue unmined.
2. `Clock_bft`: `follow.go:207` says that a node rolls its clock forward to the timestamp of
   a block produced elsewhere, and `seal.go:16` that a block has wall-clock time unless a
   time was asked for. `adoptTimestamp` sets the offset whichever way that moves it: a
   block applied a second after it was built takes the second off the next one.
3. `Citizen_not_counted`: `chain.ts:253` tells the voter that the network rejected the
   vote and it was not counted. The phone stops waiting for a receipt, the vote
   is mined, the voter tries again, and the second transaction reverts for the
   nullifier of the first.

Seen in the code and not the subject of a run:

- The vote: a lock is in memory only, and a validator that restarts within a
  height can commit to another block (`roundstate.go:291` says that a lock must not
  be forgotten under any circumstances). The proofs count such validators with
  the faulty. A lost ROUND-CHANGE is not sent again: two validators go on, the third
  does not, and each side asks for a round the other will not vote for. Two
  honest validators locked on different blocks leave no quorum for any block.
  `engine.go:305` leaves the timer armed when maybePropose refuses its last request. An
  honest validator that restarts may be reported as faulty.
- The chain: under consensus a pinned time is never consumed, as `commitTimestamp` is on the
  solo path only (`candidate.go:129`, `CONSENSUS.md:533` say that it is); after a failed sync
  the head has moved although the caller got an error. A replica may pull a block
  before it is synced and the primary lose it, a fork `follow.go:52` rules out; the status'
  `synced` compares heights only. The audit does not read the index of transactions and
  does not notice a head that was set back; as it makes every state again, it passes with
  the trie of the head missing.
- Certificates: `cmd/node/consensus.go:201` says that what verifies locally is stored; only the
  block's hash is compared, and the engine's own record is overwritten, not
  "byte-identically" if others signed. They are sorted by signature, where the comment
  says by signer; `SealedBy` does not look at their number. A power cut between a pulled
  block and its certificate leaves it without one for good, and the first peer with any
  certificate of a page decides for the page.
- The cluster: the order of `VALIDATOR_SET` and the addresses of the others are compared by
  nobody; a copied environment boots with another's identity; a replica without its
  `ROLE` seals alone.
- Readings: `verify-vote/route.ts:7` says that it returns the candidate the vote counted for. It
  asks the contract about the present election and then takes the first log of all of them
  (`logs[0]` from block 0): for a nullifier that an earlier election of the contract spent too
  it names that vote's candidate. The contract allows it (`Voting.sol:372`,
  `hardhat/test/Voting.ts:344`); the mobile app's notes, while its storage is whole, keep it from
  registering the same secrets twice. `VerifiedAsCast` of `ChainReaders` is that statement; it
  fails in five blocks, and `ReadersInv` holds what is true: it is met unless the nullifier was
  spent in two elections (`VerifiedUnlessReused`), and what is shown is the vote of the first
  (`VerifiedAsFirstCast`). `api/merkle-path` reads the size of the tree before the leaves; it, `verify-vote` and
  the audit page ask for all logs at once, which fails when the chain is longer than
  `LOG_RANGE_LIMIT`. The audit page counts the votes of all elections against the tally of
  the present one. `api/election` adds up by place on the ballot what
  `results/page.tsx:101` adds up by name. `eth_feeHistory` returns as many entries as were
  asked for on a shorter chain.
- Writes: one whose deadline passes during the vote is answered "not mined" and
  may be mined; one forwarded and then handled locally may be refused although
  its first copy is mined.
- The ballot: clearing the registry while a division is voting lets its citizens
  register elsewhere (`NicRegistry.sol:191` says that it only halts registration);
  the page empties the list of divisions first, so that no listed division is
  concerned, which is `ListedOneLeaf`. A registration phase whose deadline passes goes to Ended, and
  voting can no longer be opened.
- The pages: a new election deletes the stored ids of hidden divisions, but a component
  that is on the screen keeps its own and stores them again when one is toggled
  (`useDivisions.ts:273`), ids that by then name other divisions;
  `useElectionWriter.ts:144` does not look at the status of a receipt in wallet mode; a
  late answer of a session read may show an older session (`useElectionAuth.ts:122`).
- The server: a division id is a place in the registry's list and is used again after a
  clear (`gnAccountCreation.ts:52`); a createDivision whose answer is lost is reported
  as failed (`relayExecutor.ts:224`). The RPC limiter's sweep forgets a bucket that is
  not full again only if the burst is more than 600 times the rate. At the desk "nothing
  to do" is said of a citizen whose phone is bound and not on the roll, which leaves the
  gap; a confirmation asked for before a reset and given after it may take the phone of
  another citizen off the roll (`page.tsx` keeps `previous`). A new election in which a division's
  reset fails, or with an enrolment made between that reset and `clearNicHashes`, leaves phones on
  a roll that the registry knows nothing of (they cannot register: `commitDevice` refuses them); one
  in which `clearNicHashes` fails leaves citizens enrolled who are on no roll.
- The phone: a registration that was mined after the app stopped waiting is
  never marked (`keystore.ts:242`); marks carry no election, and a phone that
  registered and voted in one has to be set up again for the next. An old phone that lost
  its secrets after a registration it never noted is given others, which are no leaf's: the guard
  of `keystore.ts:212` asks for the note.

## Not modelled

- `Consensus`: the bounds of the future buffer (far beyond a checkable size; their
  effect is that of `Lose`), an error of the certificate store, a candidate that
  fails execution. Time: an armed timer may fire at any moment.
- `Submission`: the `ErrBusy` limits, the `time.After` backstop, a crash with queued
  requests, transactions that revert.
- `NicRegistry`, `Election`: ownership transfer, views, the Merkle tree and the verifier.
- `ElectionAdmin`: choice of candidates, messages and polling of the page.
- `FileStore` to `Relay`: password hashing, sealing and its key, the argument checks of
  the policy table, the audit log, the administrator's configured account, the SMS
  gateway (external), the limits of other routes, which are `Throttles`' limiter.
- `DivisionSetup`, `Enrolment`: parsing of files, streaming of progress, NIC numbers and
  their hash, the camera.
- `Phone`: the prover in its web view, screens. The browser's voting page keeps its
  proof in `proofStorage.ts` and is not modelled.
- `ElectionRegistry`: its own totals by place, `removeDivision`, which nothing in `src/` calls.
- `DevClock`: the clamps by `maxDevOffsetSeconds`. `Ledger`: the EVM and its gas.
  `Replication`: the follower's status, and a power cut at a replica, which it meets as it
  meets a restart.
- The other JSON-RPC reads and the token bucket, the circuit and the generated verifier, the
  identity mock server, deployment: no state that the properties are about.
- Most of the repository's lines by count are components that draw the screens,
  generated files (`deployedContracts.ts`, `Verifier.sol`), scaffolding
  (`utils/scaffold-eth`) and bundled tools (`.yarn/releases`). Nothing in them changes
  state that outlives a screen.

`PROJECT.json` gives the status of every component.

## Plan

Done, in this order, the most important first: the vote (`Finality`, `Voting`,
`Consensus`), writes (`Submission`), the ballot (`NicRegistry`, `Election`), the election as a
whole (`ElectionAdmin`, `Results`), records and access (`FileStore`, `Sessions`, `Throttles`, `Otp`,
`Relay`), divisions (`DivisionSetup`, `DivisionList`), the citizen (`Enrolment`, `Phone`), the
node (`DevClock`, `Ledger`, `Seals`, `Replication`, `GasEstimate`, `ChainReaders`, `Deployment`).

Next, models:

1. A gateway: forwarding between nodes and its token buckets (`rpc/forward.go`,
   `ratelimit.go`), without the bound on hops that `Submission` has.
2. Parsing and progress of bulk imports; the phone's NIC and OTP screens; the P2P server.
3. In `Consensus`, a timer that counts, for submissions that keep putting it off. In
   `Voting`, the lock split.

Next, proofs:

1. `Consensus` with restarts: agreement under the fault assumption of `Voting`.
