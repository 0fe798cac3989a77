--------------------------------- MODULE Phone ---------------------------------
(***************************************************************************)
(* The voter's app, packages/mobile: what it keeps in secure storage       *)
(* (services/keystore.ts), the two transactions it sends (services/chain.  *)
(* ts, app/register.tsx, app/vote.tsx) and what it tells the voter.  The   *)
(* app may be killed at any step, a transaction may be mined after the app *)
(* stopped waiting for it, and the election goes on meanwhile: the chain   *)
(* is module Election.  A phone may hold the layout of an earlier version  *)
(* of the app, and may have registered with it.                            *)
(*                                                                         *)
(* A voting key is its address, a member of Devices; the two secrets are   *)
(* the commitment they are hashed to.                                      *)
(***************************************************************************)
EXTENDS Election, Sequences

CONSTANTS
    Citizen,     \* whose phone it is
    NoIdentity,  \* no entry in secure storage
    MaxSends     \* transactions the phone sends

ASSUME PhoneAssumption ==
    /\ Citizen \in Nics /\ MaxSends \in Nat
    /\ \A c \in Commitments : c.nullifier # Zero /\ c.secret # Zero
    /\ NoIdentity # Zero
    /\ \A v \in Devices : \A n, s \in {Zero} \cup UNION {{c.nullifier, c.secret} : c \in Commitments} :
          NoIdentity # [device |-> v, commitment |-> [nullifier |-> n, secret |-> s]]

VARIABLES
    store,   \* the entries of secure storage
    flow,    \* the screen's operation: lost when the app is killed
    txs,     \* transactions sent, in order, with what became of them
    told,    \* what the voter was last told: of the messages, those a property is about
    torn     \* some entries of an erased identity were not deleted

phoneVars == <<vars, store, flow, txs, told, torn>>

OutOfBox(v) == [identity |-> NoIdentity, address |-> v, registered |-> FALSE, division |-> Zero,
                voted |-> {}, legacyKey |-> v, legacyNullifier |-> Zero, legacySecret |-> Zero]
Empty == OutOfBox(Zero)
Home == [pc |-> "home", aim |-> "none", identity |-> NoIdentity, division |-> Zero, tx |-> 0]

\* What the three entries of the old layout say, with a secret that is missing.
Legacy ==
    [device |-> store.legacyKey,
     commitment |-> [nullifier |-> store.legacyNullifier, secret |-> store.legacySecret]]
HasSecrets == store.legacyNullifier # Zero /\ store.legacySecret # Zero

\* The identity the phone holds, in either layout.
Held ==
    IF store.identity # NoIdentity THEN store.identity
    ELSE IF store.legacyKey # Zero THEN Legacy ELSE NoIdentity

\* Keys and secrets are random: nobody draws the same twice.
Drawn == {store.identity, Legacy} \cup {txs[i].identity : i \in DOMAIN txs}
Keys == {i.device : i \in Drawn \ {NoIdentity}} \ {Zero}
Secrets == {i.commitment : i \in Drawn \ {NoIdentity}}
Fresh(v, c) ==
    /\ v \notin Keys
    /\ binding[v].status = "Unbound" /\ \A d \in Divisions : v \notin voters[d]
    /\ c \notin Secrets

HasIdentity == store.address # Zero

\* resolveVoterDivision: the allowlists decide; the division remembered only
\* breaks a tie.  The chosen one is remembered.
ResolvedDivisions ==
    LET enrolled == {d \in Divisions : store.address \in voters[d]}
    IN  IF store.division \in enrolled THEN {store.division} ELSE enrolled

Back(message) == flow' = Home /\ told' = message

-----------------------------------------------------------------------------
(* Setting up.                                                             *)

\* Mutant: a phone that has an identity is set up again.
CreateIdentityAnew(v, c) ==
    /\ flow.pc = "home" /\ Fresh(v, c)
    /\ store' = [store EXCEPT !.identity = [device |-> v, commitment |-> c]]
    /\ flow' = [Home EXCEPT !.pc = "create", !.identity = store'.identity]
    /\ UNCHANGED <<vars, txs, told, torn>>

\* createIdentity's first write.  Both screens that call it ask hasIdentity
\* before.
CreateIdentity(v, c) ==
    /\ flow.pc = "home" /\ ~HasIdentity /\ Fresh(v, c)
    /\ store' = [store EXCEPT !.identity = [device |-> v, commitment |-> c]]
    /\ flow' = [Home EXCEPT !.pc = "create", !.identity = store'.identity]
    /\ UNCHANGED <<vars, txs, told, torn>>

\* Its second: the address is what the voter can show to an officer.
WriteAddress ==
    /\ flow.pc = "create"
    /\ store' = [store EXCEPT !.address = flow.identity.device]
    /\ Back("nothing")
    /\ UNCHANGED <<vars, txs, torn>>

\* wipeIdentity deletes each entry and ignores one it cannot.
Wipe ==
    /\ flow.pc = "home" /\ store # Empty
    /\ \/ store' = Empty
       \/ \E kept \in DOMAIN store : store' = [Empty EXCEPT ![kept] = store[kept]]
    /\ torn' = (torn \/ store' # Empty)
    /\ Back("erased")
    /\ UNCHANGED <<vars, txs>>

\* The app is killed, or the screen left, or the prompt for a fingerprint
\* dismissed: what was in memory is gone.
Killed ==
    /\ flow # Home
    /\ Back("nothing")
    /\ UNCHANGED <<vars, store, txs, torn>>

-----------------------------------------------------------------------------
(* The old layout, and an app that used it.                                *)

\* It drew the secrets when it registered, and wrote them before it sent
\* anything.
OldRegister(d, c) ==
    /\ flow.pc = "home" /\ HasIdentity /\ d \in ResolvedDivisions
    /\ store.identity = NoIdentity /\ store.legacyKey # Zero
    /\ ~store.registered /\ binding[store.address].status = "Live"
    /\ CurrentPhase(d) = "Registration"
    /\ IF HasSecrets THEN c = Legacy.commitment ELSE c \notin Secrets
    /\ store' = [store EXCEPT !.legacyNullifier = c.nullifier, !.legacySecret = c.secret]
    /\ flow' = [pc |-> "register", aim |-> "register", division |-> d, tx |-> 0,
                identity |-> [device |-> store.legacyKey, commitment |-> c]]
    /\ told' = "nothing"
    /\ UNCHANGED <<vars, txs, torn>>

\* An update, or the storage, loses one of the secrets or both.
LoseSecrets ==
    /\ flow = Home /\ HasSecrets
    /\ \E n \in {Zero, store.legacyNullifier}, s \in {Zero, store.legacySecret} :
          /\ n = Zero \/ s = Zero
          /\ store' = [store EXCEPT !.legacyNullifier = n, !.legacySecret = s]
    /\ told' = "updated"
    /\ UNCHANGED <<vars, flow, txs, torn>>

-----------------------------------------------------------------------------
(* Opening a screen and unlocking the identity.                            *)

\* The screen loads the election, and caches the division it resolved.
Open(aim, d) ==
    /\ flow.pc = "home" /\ HasIdentity /\ d \in ResolvedDivisions
    /\ store' = [store EXCEPT !.division = d]
    /\ flow' = [Home EXCEPT !.pc = "opened", !.aim = aim, !.division = d]
    /\ told' = "nothing"
    /\ UNCHANGED <<vars, txs, torn>>

OpenRegister(d) ==
    /\ Open("register", d)
    /\ ~store.registered /\ binding[store.address].status = "Live"
    /\ CurrentPhase(d) = "Registration"

OpenVote(d) ==
    /\ Open("vote", d)
    /\ store.registered /\ d \notin store.voted
    /\ CurrentPhase(d) = "Voting"

OpenVerify(d) == Open("verify", d)

\* Voting and verifying ask for the flag before they unlock anything.
MayUnlock == flow.pc = "opened" /\ (flow.aim = "register" \/ store.registered)

\* unlockIdentity finds the one entry of the new layout.
Unlock ==
    /\ MayUnlock /\ store.identity # NoIdentity
    /\ flow' = [flow EXCEPT !.pc = flow.aim, !.identity = store.identity]
    /\ UNCHANGED <<vars, store, txs, told, torn>>

\* Mutant: a read that fails is taken for an entry that is missing.
MigrateUnread(c) ==
    /\ MayUnlock /\ store.identity = NoIdentity /\ store.legacyKey # Zero
    /\ \/ HasSecrets /\ c = Legacy.commitment
       \/ ~store.registered /\ c \notin Secrets
    /\ store' = [store EXCEPT !.identity = [device |-> store.legacyKey, commitment |-> c]]
    /\ flow' = [flow EXCEPT !.pc = "tidy", !.identity = store'.identity]
    /\ UNCHANGED <<vars, txs, told, torn>>

\* migrateLegacyIdentity up to its write.  Secrets are drawn for an old phone
\* that has none, unless it has registered with them.
Migrate(c) ==
    /\ MayUnlock /\ store.identity = NoIdentity /\ store.legacyKey # Zero
    /\ IF HasSecrets THEN c = Legacy.commitment ELSE ~store.registered /\ c \notin Secrets
    /\ store' = [store EXCEPT !.identity = [device |-> store.legacyKey, commitment |-> c]]
    /\ flow' = [flow EXCEPT !.pc = "tidy", !.identity = store'.identity]
    /\ UNCHANGED <<vars, txs, told, torn>>

SecretsMissing ==
    /\ MayUnlock /\ store.identity = NoIdentity /\ store.legacyKey # Zero
    /\ ~HasSecrets /\ store.registered
    /\ Back("nothing")
    /\ UNCHANGED <<vars, store, txs, torn>>

\* Its deletions: one that fails is ignored.
DeleteLegacy ==
    /\ flow.pc = "tidy"
    /\ \E k \in {Zero, store.legacyKey}, n \in {Zero, store.legacyNullifier},
          s \in {Zero, store.legacySecret} :
          store' = [store EXCEPT !.legacyKey = k, !.legacyNullifier = n, !.legacySecret = s]
    /\ flow' = [flow EXCEPT !.pc = flow.aim]
    /\ UNCHANGED <<vars, txs, told, torn>>

-----------------------------------------------------------------------------
(* Registering.                                                            *)

\* sendLegacyTx up to the wait for the receipt.
Send(pc, kind, awaiting) ==
    /\ flow.pc = pc /\ Len(txs) < MaxSends
    /\ txs' = Append(txs, [kind |-> kind, identity |-> flow.identity, division |-> flow.division,
                           status |-> "sent", election |-> 0])
    /\ flow' = [flow EXCEPT !.pc = awaiting, !.tx = Len(txs')]
    /\ UNCHANGED <<vars, store, told, torn>>

SubmitRegister == Send("register", "register", "awaitRegister")
SubmitVote == Send("proved", "vote", "awaitVote")

\* Mutant: the receipt is awaited and discarded.
RegisterReceiptUnread ==
    /\ flow.pc = "awaitRegister" /\ txs[flow.tx].status # "sent"
    /\ flow' = [flow EXCEPT !.pc = "markRegistered"] /\ UNCHANGED told
    /\ UNCHANGED <<vars, store, txs, torn>>

RegisterReceipt ==
    /\ flow.pc = "awaitRegister" /\ txs[flow.tx].status # "sent"
    /\ IF txs[flow.tx].status = "ok"
       THEN flow' = [flow EXCEPT !.pc = "markRegistered"] /\ UNCHANGED told
       ELSE Back("nothing")
    /\ UNCHANGED <<vars, store, txs, torn>>

\* The node or the network does not answer in time, or the transaction was
\* never taken: the same error either way.
NoReceipt ==
    /\ flow.pc \in {"awaitRegister", "awaitVote"}
    /\ Back("nothing")
    /\ UNCHANGED <<vars, store, txs, torn>>

MarkRegistered ==
    /\ flow.pc = "markRegistered"
    /\ store' = [store EXCEPT !.registered = TRUE]
    /\ Back("nothing")
    /\ UNCHANGED <<vars, txs, torn>>

-----------------------------------------------------------------------------
(* Voting.                                                                 *)

\* castVote after the unlock: the Merkle path of the commitment.
ProveMembership ==
    /\ flow.pc = "vote"
    /\ IF flow.identity.commitment \in Tree(flow.division)
       THEN flow' = [flow EXCEPT !.pc = "proved"] /\ UNCHANGED told
       ELSE Back("nothing")
    /\ UNCHANGED <<vars, store, txs, torn>>

\* Mutant: a revert is taken for a success.
VoteReceiptUnread ==
    /\ flow.pc = "awaitVote" /\ txs[flow.tx].status # "sent"
    /\ flow' = [flow EXCEPT !.pc = "markVoted"] /\ UNCHANGED told
    /\ UNCHANGED <<vars, store, txs, torn>>

VoteReceipt ==
    /\ flow.pc = "awaitVote" /\ txs[flow.tx].status # "sent"
    /\ IF txs[flow.tx].status = "ok"
       THEN flow' = [flow EXCEPT !.pc = "markVoted"] /\ UNCHANGED told
       ELSE Back("notCounted")
    /\ UNCHANGED <<vars, store, txs, torn>>

MarkVoted ==
    /\ flow.pc = "markVoted"
    /\ store' = [store EXCEPT !.voted = @ \cup {flow.division}]
    /\ Back("nothing")
    /\ UNCHANGED <<vars, txs, torn>>

-----------------------------------------------------------------------------
(* The chain.                                                              *)

Settle(i, status) ==
    txs' = [txs EXCEPT ![i].status = status, ![i].election = electionId[txs[i].division]]

Accepted(i) ==
    LET t == txs[i]
    IN  IF t.kind = "register" THEN Register(t.division, t.identity.device, t.identity.commitment)
                               ELSE Vote(t.division, t.identity.commitment.nullifier)

\* A call the contract refuses is mined all the same.
Mined(i) ==
    /\ txs[i].status = "sent"
    /\ \/ Accepted(i) /\ Settle(i, "ok")
       \/ ~ENABLED Accepted(i) /\ Settle(i, "reverted") /\ UNCHANGED vars
    /\ UNCHANGED <<store, flow, told, torn>>

\* What the Election Authority and the officers do.  The key that is scanned
\* from this phone is enrolled for the citizen who holds it.
Authorities ==
    /\ \/ NewEpoch
       \/ \E d \in Divisions :
            \/ SetCandidates(d) \/ AddVoters(d) \/ Authorise(d)
            \/ EnrolVoter(d) /\ \A v \in Keys : binding'[v].nic \in {Zero, Citizen}
            \/ StartRegistration(d) \/ StartVoting(d) \/ EndElection(d) \/ ResetElection(d)
            \/ DeadlinePasses(d)
    /\ UNCHANGED <<store, flow, txs, told, torn>>

-----------------------------------------------------------------------------
\* A phone out of the box, or one set up with the old layout, which drew the
\* secrets later than the key.
PhoneInit ==
    /\ Init
    /\ store \in {OutOfBox(v) : v \in Devices \cup {Zero}}
    /\ flow = Home
    /\ txs = <<>>
    /\ told = "nothing"
    /\ torn = FALSE

PhoneStep ==
    \/ \E v \in Devices, c \in Commitments : CreateIdentity(v, c)
    \/ WriteAddress \/ Wipe \/ Killed
    \/ \E d \in Divisions, c \in Commitments : OldRegister(d, c)
    \/ LoseSecrets
    \/ \E d \in Divisions : OpenRegister(d) \/ OpenVote(d) \/ OpenVerify(d)
    \/ Unlock \/ SecretsMissing \/ DeleteLegacy
    \/ \E c \in Commitments : Migrate(c)
    \/ SubmitRegister \/ RegisterReceipt \/ MarkRegistered
    \/ ProveMembership \/ SubmitVote \/ VoteReceipt \/ MarkVoted
    \/ NoReceipt

PhoneNext ==
    \/ PhoneStep
    \/ \E i \in DOMAIN txs : Mined(i)
    \/ Authorities

PhoneSpec == PhoneInit /\ [][PhoneNext]_phoneVars

-----------------------------------------------------------------------------
Landed(kind, identity) ==
    {i \in DOMAIN txs : txs[i].kind = kind /\ txs[i].status = "ok" /\ txs[i].identity = identity}

\* The registered flag is never ahead of the chain: this phone's secrets, as
\* long as it has them, are behind a leaf, which is in the tree until its
\* division is reset.
FlagHasLeaf ==
    store.registered /\ ~torn /\ Held.commitment \in Commitments =>
        \E i \in Landed("register", Held) :
            txs[i].election = electionId[txs[i].division]
            => Held.commitment \in Tree(txs[i].division)

\* A division the phone remembers having voted in has counted its vote.
VotedIsCounted ==
    ~torn => \A d \in store.voted : \E i \in Landed("vote", Held) :
        /\ txs[i].division = d
        /\ txs[i].election = electionId[d] =>
              Held.commitment.nullifier \in nullifiers[d]

\* What the phone remembers, the chain holds (keystore.ts markRegistered,
\* markVoted): neither note is ever ahead of it, whatever receipt was lost.
PhoneInv == FlagHasLeaf /\ VotedIsCounted

\* However often the app is killed, retries or is set up again, the citizen
\* is counted once per election.
OneVotePerElection ==
    \A i, j \in DOMAIN txs :
        /\ txs[i].kind = "vote" /\ txs[i].status = "ok"
        /\ txs[j].kind = "vote" /\ txs[j].status = "ok"
        /\ txs[i].division = txs[j].division /\ txs[i].election = txs[j].election
        => i = j

\* Secrets that are behind a leaf, or that a phone remembers having registered
\* with, are lost only when the voter erases them or the storage loses them:
\* no restart, migration or set-up draws others in their place, whether the
\* phone registered before the migration or after it, noted it or not.
SecretsKept ==
    [][Held # NoIdentity /\ ~torn
       /\ (store.registered \/ \E d \in Divisions : Held.commitment \in Tree(d))
       => Held' = Held \/ told' \in {"erased", "updated"}]_phoneVars

\* chain.ts:253 tells the voter "The network rejected your vote. It was not
\* counted.": no vote of this phone has then been counted in this election.
NotCountedIsTrue ==
    [][told' = "notCounted" /\ told # "notCounted"
       => flow.identity.commitment.nullifier \notin nullifiers[flow.division]]_phoneVars
=============================================================================
