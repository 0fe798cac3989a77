---------------------------------- MODULE Relay ----------------------------------
(***************************************************************************)
(* POST /api/relay and POST /api/gn-accounts (packages/nextjs/services/    *)
(* auth): the server signs a contract call for whoever is signed in.  What *)
(* it believes of the chain is a cached list of the divisions and their    *)
(* officers; what it believes of the officer is read from the account      *)
(* store; the chain decides once more.                                     *)
(*                                                                         *)
(* One officer's account is followed.  A contract is known by its number,  *)
(* the n-th deployed, and so is a signing key, the n-th generated.  Local  *)
(* steps take no time; reading the list takes at most MaxRead.             *)
(***************************************************************************)
EXTENDS Naturals, Sequences

CONSTANTS
    RelayCalls,
    TTL,           \* DIVISIONS_CACHE_TTL_MS
    MaxRead,
    MaxContracts,  \* divisions ever created
    MaxKeys,       \* accounts ever created
    MaxMoment      \* time is not followed beyond

ASSUME RelayAssumption ==
    /\ TTL \in Nat \ {0} /\ MaxRead \in Nat \ {0}
    /\ MaxContracts \in Nat /\ MaxKeys \in Nat /\ MaxMoment \in Nat

VARIABLES
    moment,
    registry,   \* ElectionRegistry: the divisions' contracts, in order
    deployed,   \* how many contracts were ever deployed
    gnOfficers, \* the keys that are GN officers of each contract
    account,    \* the officer's record in data/gn-accounts.json
    generated,  \* how many keys were ever generated
    cookie,     \* the division in the officer's session
    cache,      \* divisionsCache
    reading,    \* divisionsInFlight
    call,       \* each request's progress
    ready,      \* since when the officer may write to its division
    clearedAt   \* when clearDivisions was last called

chainVars == <<registry, deployed, gnOfficers, clearedAt>>
serverVars == <<account, generated, cookie>>
listVars == <<cache, reading>>
relayVars == <<moment, chainVars, serverVars, listVars, call, ready>>

None == 0  \* no division, no key, no contract
Contracts == 1 .. MaxContracts
OfficerKeys == 1 .. MaxKeys

NoAccount == [key |-> None, division |-> None, disabled |-> FALSE]
NoCache == [list |-> <<>>, expiresAt |-> 0]
NoReading == [stage |-> "none", list |-> <<>>, since |-> 0]
NoCall == [kind |-> "none", pc |-> "idle", division |-> None, target |-> None, key |-> None,
           list |-> <<>>, usable |-> FALSE]

Usable == account.key # None /\ ~account.disabled

\* The account may be used, its session is for its division, and the chain
\* would let its key write there.
MayWrite ==
    /\ Usable /\ cookie = account.division
    /\ account.division \in DOMAIN registry
    /\ account.key \in gnOfficers[registry[account.division]]

Since == ready' = IF ~MayWrite' THEN 0 ELSE IF ready = 0 THEN moment ELSE ready

-----------------------------------------------------------------------------
(* loadDivisions.  What a request does with the list, it does in a later   *)
(* step: others may come in between.                                       *)

AfterList(pc, kind) ==
    IF pc \in {"loadAgain", "waitAgain"} THEN "send" ELSE IF kind = "officer" THEN "check" ELSE "store"

Given(q, list) == [q EXCEPT !.pc = AfterList(@, q.kind), !.list = list, !.usable = Usable]

RelayAnswered(q, outcome) == [NoCall EXCEPT !.kind = q.kind, !.pc = outcome, !.usable = q.usable]

Waiting(q) == q.pc \in {"wait", "waitAgain"}

\* Mutant: nobody looks at the age of the list.
LoadDivisionsForever(c) ==
    /\ call[c].pc \in {"load", "loadAgain"}
    /\ IF cache # NoCache
       THEN call' = [call EXCEPT ![c] = Given(@, cache.list)] /\ UNCHANGED reading
       ELSE /\ call' = [call EXCEPT ![c].pc = IF @ = "load" THEN "wait" ELSE "waitAgain"]
            /\ reading' = IF reading = NoReading
                          THEN [stage |-> "list", list |-> <<>>, since |-> moment] ELSE reading
    /\ UNCHANGED <<moment, chainVars, serverVars, cache, ready>>

\* A list that has not expired is returned; one that is being read is waited
\* for; otherwise a reading is started.
LoadDivisions(c) ==
    /\ call[c].pc \in {"load", "loadAgain"}
    /\ IF cache.expiresAt > moment
       THEN call' = [call EXCEPT ![c] = Given(@, cache.list)] /\ UNCHANGED reading
       ELSE /\ call' = [call EXCEPT ![c].pc = IF @ = "load" THEN "wait" ELSE "waitAgain"]
            /\ reading' = IF reading = NoReading
                          THEN [stage |-> "list", list |-> <<>>, since |-> moment] ELSE reading
    /\ UNCHANGED <<moment, chainVars, serverVars, cache, ready>>

\* getAllDivisions.
ReadList ==
    /\ reading.stage = "list"
    /\ reading' = [reading EXCEPT !.stage = "officers", !.list = registry]
    /\ UNCHANGED <<moment, chainVars, serverVars, cache, call, ready>>

\* getGNOfficers of each of them.  A contract that does not answer counts as
\* having the officer the registry names, who is none.
ReadOfficers ==
    \E silent \in SUBSET {reading.list[i] : i \in DOMAIN reading.list} :
        LET list == [i \in DOMAIN reading.list |->
                        [contract |-> reading.list[i],
                         answered |-> reading.list[i] \notin silent,
                         officers |-> IF reading.list[i] \in silent THEN {}
                                      ELSE gnOfficers[reading.list[i]]]]
        IN  /\ reading.stage = "officers"
            /\ cache' = [list |-> list, expiresAt |-> moment + TTL]
            /\ reading' = NoReading
            /\ call' = [c \in RelayCalls |-> IF Waiting(call[c]) THEN Given(call[c], list) ELSE call[c]]
            /\ UNCHANGED <<moment, chainVars, serverVars, ready>>

\* Everyone who waits is refused: 503.
ListReadFails ==
    /\ reading # NoReading
    /\ reading' = NoReading
    /\ call' = [c \in RelayCalls |->
                  IF Waiting(call[c]) THEN RelayAnswered(call[c], "unavailable") ELSE call[c]]
    /\ UNCHANGED <<moment, chainVars, serverVars, cache, ready>>

-----------------------------------------------------------------------------
(* executeRelayCall.                                                       *)

\* An officer asks for addVoters on the contract its page names.
Begin(c, target) ==
    /\ call[c].pc = "idle" /\ cookie # None
    /\ call' = [call EXCEPT ![c] = [NoCall EXCEPT
          !.kind = "officer", !.pc = "load", !.division = cookie, !.target = target]]
    /\ UNCHANGED <<moment, chainVars, serverVars, listVars, ready>>

Authorised(q) ==
    /\ q.division \in DOMAIN q.list
    /\ account.key \in q.list[q.division].officers
    /\ q.target = q.list[q.division].contract

\* Mutant: a disabled account is not told from another.
CheckTrusting(c) ==
    LET passes == account.key # None /\ Authorised(call[c])
    IN  /\ call[c].pc = "check"
        /\ call' = [call EXCEPT ![c] =
              IF passes THEN [@ EXCEPT !.pc = "send", !.key = account.key] ELSE RelayAnswered(@, "refused")]
        /\ UNCHANGED <<moment, chainVars, serverVars, listVars, ready>>

\* The account is read when the list has come, and its key is unsealed in the
\* same step.
Check(c) ==
    LET passes == Usable /\ Authorised(call[c])
    IN  /\ call[c].pc = "check"
        /\ call' = [call EXCEPT ![c] =
              IF passes THEN [@ EXCEPT !.pc = "send", !.key = account.key] ELSE RelayAnswered(@, "refused")]
        /\ UNCHANGED <<moment, chainVars, serverVars, listVars, ready>>

\* addVoters: onlyGN.
SendAddVoters(c) ==
    /\ call[c].kind = "officer" /\ call[c].pc = "send"
    /\ call' = [call EXCEPT
          ![c] = RelayAnswered(@, IF @.key \in gnOfficers[@.target] THEN "ok" ELSE "reverted")]
    /\ UNCHANGED <<moment, chainVars, serverVars, listVars, ready>>

-----------------------------------------------------------------------------
(* The administrator.  createGnOfficerAccount loads the list for the name  *)
(* of the division, stores the account, and calls the relay, which loads   *)
(* the list again.                                                         *)

BeginCreate(c) ==
    /\ call[c].pc = "idle"
    /\ \E d \in Contracts : call' = [call EXCEPT ![c] = [NoCall EXCEPT
          !.kind = "create", !.pc = "load", !.division = d]]
    /\ UNCHANGED <<moment, chainVars, serverVars, listVars, ready>>

\* There is no such division, or the name is taken.
CreateRefused(c) ==
    /\ call[c].pc = "store"
    /\ call[c].division \notin DOMAIN call[c].list \/ account # NoAccount
    /\ call' = [call EXCEPT ![c] = RelayAnswered(@, "refused")]
    /\ UNCHANGED <<moment, chainVars, serverVars, listVars, ready>>

StoreAccount(c) ==
    LET q == call[c]
    IN  /\ q.pc = "store"
        /\ q.division \in DOMAIN q.list /\ account = NoAccount
        /\ generated < MaxKeys
        /\ generated' = generated + 1
        /\ account' = [key |-> generated', division |-> q.division, disabled |-> FALSE]
        /\ call' = [call EXCEPT ![c].pc = "loadAgain", ![c].key = generated',
                                ![c].target = q.list[q.division].contract]
        /\ UNCHANGED <<moment, chainVars, cookie, listVars>>
        /\ Since

\* setGNOfficer, on a contract that has to be in the list.  The account stays
\* if this fails.
SendAssign(c) ==
    LET q == call[c]
        known == \E i \in DOMAIN q.list : q.list[i].contract = q.target
    IN  /\ q.kind = "create" /\ q.pc = "send"
        /\ IF known
           THEN /\ gnOfficers' = [gnOfficers EXCEPT ![q.target] = @ \cup {q.key}]
                /\ call' = [call EXCEPT ![c] = RelayAnswered(@, "ok")]
           ELSE UNCHANGED gnOfficers /\ call' = [call EXCEPT ![c] = RelayAnswered(@, "unassigned")]
        /\ UNCHANGED <<moment, registry, deployed, clearedAt, serverVars, listVars>>
        /\ Since

\* PATCH and DELETE /api/gn-accounts.
SetDisabled(b) ==
    /\ account # NoAccount
    /\ account' = [account EXCEPT !.disabled = b]
    /\ call' = [c \in RelayCalls |-> [call[c] EXCEPT !.usable = @ \/ ~b]]
    /\ UNCHANGED <<moment, chainVars, generated, cookie, listVars>>
    /\ Since

RemoveAccount ==
    /\ account # NoAccount
    /\ account' = NoAccount
    /\ UNCHANGED <<moment, chainVars, generated, cookie, listVars, call>>
    /\ Since

SignIn ==
    /\ Usable
    /\ cookie' = account.division
    /\ UNCHANGED <<moment, chainVars, account, generated, listVars, call>>
    /\ Since

\* Other calls the administrator has signed; they need no division of the list
\* or, for SetOfficer, one that is there.
CreateDivision ==
    /\ deployed < MaxContracts
    /\ deployed' = deployed + 1
    /\ registry' = Append(registry, deployed')
    /\ UNCHANGED <<moment, gnOfficers, clearedAt, serverVars, listVars, call>>
    /\ Since

ClearDivisions ==
    /\ registry # <<>>
    /\ registry' = <<>>
    /\ clearedAt' = moment
    /\ UNCHANGED <<moment, deployed, gnOfficers, serverVars, listVars, call>>
    /\ Since

SetOfficer(contract, isOfficer) ==
    /\ contract <= deployed /\ account # NoAccount
    /\ gnOfficers' = [gnOfficers EXCEPT
          ![contract] = IF isOfficer THEN @ \cup {account.key} ELSE @ \ {account.key}]
    /\ UNCHANGED <<moment, registry, deployed, clearedAt, serverVars, listVars, call>>
    /\ Since

Pass ==
    /\ moment < MaxMoment
    /\ \A c \in RelayCalls : call[c].pc \notin {"load", "check", "store", "loadAgain", "send"}
    /\ reading # NoReading => moment < reading.since + MaxRead
    /\ moment' = moment + 1
    /\ UNCHANGED <<chainVars, serverVars, listVars, call, ready>>

-----------------------------------------------------------------------------
RelayInit ==
    /\ moment = 1
    /\ registry = <<>> /\ deployed = 0 /\ clearedAt = 0
    /\ gnOfficers = [k \in Contracts |-> {}]
    /\ account = NoAccount /\ generated = 0 /\ cookie = None
    /\ cache = NoCache /\ reading = NoReading
    /\ call = [c \in RelayCalls |-> NoCall]
    /\ ready = 0

RelayNext ==
    \/ \E c \in RelayCalls :
        \/ LoadDivisions(c)
        \/ \E target \in 1 .. deployed : Begin(c, target)
        \/ Check(c) \/ SendAddVoters(c)
        \/ BeginCreate(c) \/ CreateRefused(c) \/ StoreAccount(c) \/ SendAssign(c)
    \/ ReadList \/ ReadOfficers \/ ListReadFails
    \/ \E b \in BOOLEAN : SetDisabled(b)
    \/ RemoveAccount \/ SignIn
    \/ CreateDivision \/ ClearDivisions
    \/ \E k \in Contracts, b \in BOOLEAN : SetOfficer(k, b)
    \/ Pass

RelaySpec == RelayInit /\ [][RelayNext]_relayVars

-----------------------------------------------------------------------------
\* An officer's call is signed only with an account that was usable at some
\* moment since the list was read: one disabled before that and not restored
\* signs nothing, however long the list took and whatever the session says.
SignedWhenUsable ==
    \A c \in RelayCalls :
        call[c].kind = "officer" /\ call[c].pc \in {"send", "ok", "reverted"} => call[c].usable

\* What the relay believes of the chain is old by less than a reading and the
\* life of the cache: an officer who could write for that long is not refused
\* on its own contract, unless a contract did not answer.
RefusedWhenNew ==
    [][\A c \in RelayCalls :
          /\ call[c].pc = "check" /\ call'[c].pc = "refused"
          /\ ready # 0 /\ call[c].division = cookie /\ call[c].target = registry[cookie]
          /\ \A i \in DOMAIN call[c].list : call[c].list[i].answered
          => moment - ready < TTL + MaxRead]_relayVars

\* An account answered as assigned belongs to an officer of the division it
\* names, unless the divisions were cleared while the list could still be in
\* use: between the two loads of a request another list may come.
AssignedIsOfficer ==
    [][\A c \in RelayCalls :
          /\ call[c].kind = "create" /\ call[c].pc = "send" /\ call'[c].pc = "ok"
          /\ moment - clearedAt >= TTL + MaxRead
          => /\ call[c].division \in DOMAIN registry
             /\ call[c].key \in gnOfficers'[registry[call[c].division]]]_relayVars

\* What an officer is told is so: it is refused for a reason, and assigned.
RelayTruthful == RefusedWhenNew /\ AssignedIsOfficer
=============================================================================
