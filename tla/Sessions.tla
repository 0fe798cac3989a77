-------------------------------- MODULE Sessions --------------------------------
(***************************************************************************)
(* An officer's sessions: the cookie that login seals and the password     *)
(* route seals anew (api/auth, services/auth/serverSession.ts), and what a *)
(* browser's pages believe of it (hooks/useElectionAuth.ts).  A cookie is  *)
(* a copy of the account as it was at login: it outlives the account, and  *)
(* a route works on the copy its request came with.                        *)
(*                                                                         *)
(* There is one user name.  Wrong passwords change nothing here; module    *)
(* Throttles counts them.  What a session is then let do is module Relay's.*)
(***************************************************************************)
EXTENDS Naturals, SequencesExt

CONSTANTS
    Browsers,
    MaxAccounts,  \* accounts made under the name, one after the other
    MaxReads      \* session reads of a browser that may be unanswered at once

ASSUME SessionsAssumption == MaxAccounts \in Nat /\ MaxReads \in Nat

VARIABLES
    officer,   \* the record of the name in data/gn-accounts.json
    made,      \* accounts made so far
    replaced,  \* accounts whose generated password was replaced
    sealed,    \* each browser's cookie
    post,      \* the form each browser has sent, and where its route is
    page,      \* the store of useElectionAuth
    reads      \* GETs of /api/auth/session under way, each with its cookie

sessionVars == <<officer, made, replaced, sealed, post, page, reads>>
accountVars == <<officer, made, replaced>>

NoSession == [id |-> 0, gated |-> FALSE]
NoOfficer == [id |-> 0, gated |-> FALSE, disabled |-> FALSE]
NoPost == [pc |-> "idle", session |-> NoSession]
IdlePage == [status |-> "idle", shown |-> NoSession, inFlight |-> FALSE]

-----------------------------------------------------------------------------
(* The administrator, module FileStore's calls in one step each.           *)

CreateOfficer ==
    /\ officer = NoOfficer /\ made < MaxAccounts
    /\ made' = made + 1
    /\ officer' = [id |-> made', gated |-> TRUE, disabled |-> FALSE]
    /\ UNCHANGED <<replaced, sealed, post, page, reads>>

RemoveOfficer ==
    /\ officer # NoOfficer
    /\ officer' = NoOfficer
    /\ UNCHANGED <<made, replaced, sealed, post, page, reads>>

DisableOfficer(disabled) ==
    /\ officer # NoOfficer
    /\ officer' = [officer EXCEPT !.disabled = disabled]
    /\ UNCHANGED <<made, replaced, sealed, post, page, reads>>

-----------------------------------------------------------------------------
(* useElectionAuth.                                                        *)

\* loadSession: it joins a read that is in flight.
LoadSession(b, p, cookie) ==
    IF p.inFlight THEN page' = [page EXCEPT ![b] = p] /\ UNCHANGED reads
    ELSE /\ Len(reads[b]) < MaxReads
         /\ page' = [page EXCEPT ![b] = [p EXCEPT !.status = "loading", !.inFlight = TRUE]]
         /\ reads' = [reads EXCEPT ![b] = Append(@, cookie)]

\* The effect of a component that is mounted.
MountEffect(b) ==
    /\ page[b].status = "idle"
    /\ LoadSession(b, page[b], sealed[b])
    /\ UNCHANGED <<accountVars, sealed, post>>

\* refresh: what is under way is forgotten, not called off.
RefreshPage(b, cookie) == LoadSession(b, IdlePage, cookie)

\* Whichever read is answered last is believed.
ReadAnswered(b, i) ==
    /\ page' = [page EXCEPT ![b] = [status |-> "ready", shown |-> reads[b][i], inFlight |-> FALSE]]
    /\ reads' = [reads EXCEPT ![b] = RemoveAt(@, i)]
    /\ UNCHANGED <<accountVars, sealed, post>>

\* Mutant: a read that fails is not caught.
ReadFailsSilently(b, i) ==
    /\ page' = [page EXCEPT ![b].inFlight = FALSE]
    /\ reads' = [reads EXCEPT ![b] = RemoveAt(@, i)]
    /\ UNCHANGED <<accountVars, sealed, post>>

ReadFails(b, i) ==
    /\ page' = [page EXCEPT ![b] = [status |-> "error", shown |-> NoSession, inFlight |-> FALSE]]
    /\ reads' = [reads EXCEPT ![b] = RemoveAt(@, i)]
    /\ UNCHANGED <<accountVars, sealed, post>>

ReadEnds(b) == \E i \in DOMAIN reads[b] : ReadAnswered(b, i) \/ ReadFails(b, i)

\* Where a route has sealed a cookie, the form refreshes the page's store,
\* unless the answer is lost.
Seal(b, cookie) ==
    /\ sealed' = [sealed EXCEPT ![b] = cookie]
    /\ post' = [post EXCEPT ![b] = NoPost]
    /\ RefreshPage(b, cookie) \/ UNCHANGED <<page, reads>>

-----------------------------------------------------------------------------
(* The routes.                                                             *)

\* POST /api/auth/login reads the account, then compares the password.
Login(b) ==
    /\ post[b] = NoPost
    /\ officer # NoOfficer /\ ~officer.disabled
    /\ post' = [post EXCEPT ![b] =
          [pc |-> "login", session |-> [id |-> officer.id, gated |-> officer.gated]]]
    /\ UNCHANGED <<accountVars, sealed, page, reads>>

\* Mutant: the flag is not mirrored in the cookie.
LoginEndsUngated(b) ==
    /\ post[b].pc = "login"
    /\ Seal(b, [post[b].session EXCEPT !.gated = FALSE])
    /\ UNCHANGED accountVars

LoginEnds(b) ==
    /\ post[b].pc = "login"
    /\ Seal(b, post[b].session)
    /\ UNCHANGED accountVars

\* POST /api/auth/password: requireSession, and the account's record.
ChangePassword(b) ==
    /\ post[b] = NoPost
    /\ sealed[b] # NoSession
    /\ officer # NoOfficer /\ ~officer.disabled
    /\ post' = [post EXCEPT ![b] = [pc |-> "change", session |-> sealed[b]]]
    /\ UNCHANGED <<accountVars, sealed, page, reads>>

\* store.changePassword finds the record by its name again.
PasswordStored(b) ==
    /\ post[b].pc = "change" /\ officer # NoOfficer
    /\ officer' = [officer EXCEPT !.gated = FALSE]
    /\ replaced' = replaced \cup {officer.id}
    /\ post' = [post EXCEPT ![b].pc = "save"]
    /\ UNCHANGED <<made, sealed, page, reads>>

PasswordNotStored(b) ==
    /\ post[b].pc = "change"
    /\ post' = [post EXCEPT ![b] = NoPost]
    /\ UNCHANGED <<accountVars, sealed, page, reads>>

\* The session the request came with is sealed anew, whatever became of the
\* browser's cookie meanwhile.
PasswordEnds(b) ==
    /\ post[b].pc = "save"
    /\ Seal(b, [post[b].session EXCEPT !.gated = FALSE])
    /\ UNCHANGED accountVars

\* The page forgets the session also when the request fails.
SignOut(b) ==
    /\ sealed' \in {sealed, [sealed EXCEPT ![b] = NoSession]}
    /\ page' = [page EXCEPT ![b] = IdlePage]
    /\ UNCHANGED <<accountVars, post, reads>>

CookieExpires(b) ==
    /\ sealed[b] # NoSession
    /\ sealed' = [sealed EXCEPT ![b] = NoSession]
    /\ UNCHANGED <<accountVars, post, page, reads>>

\* The write seam: a relay call is answered 401, and the store is reset.
WriteUnauthorised(b) ==
    /\ sealed[b] = NoSession
    /\ page' = [page EXCEPT ![b] = IdlePage]
    /\ UNCHANGED <<accountVars, sealed, post, reads>>

-----------------------------------------------------------------------------
SessionsInit ==
    /\ officer = NoOfficer /\ made = 0 /\ replaced = {}
    /\ sealed = [b \in Browsers |-> NoSession]
    /\ post = [b \in Browsers |-> NoPost]
    /\ page = [b \in Browsers |-> IdlePage]
    /\ reads = [b \in Browsers |-> <<>>]

SessionsNext ==
    \/ CreateOfficer \/ RemoveOfficer
    \/ \E disabled \in BOOLEAN : DisableOfficer(disabled)
    \/ \E b \in Browsers :
        \/ MountEffect(b) \/ ReadEnds(b)
        \/ Login(b) \/ LoginEnds(b)
        \/ ChangePassword(b) \/ PasswordStored(b) \/ PasswordNotStored(b) \/ PasswordEnds(b)
        \/ SignOut(b) \/ CookieExpires(b) \/ WriteUnauthorised(b)

\* Requests are answered or fail, and effects run.
SessionsFairness ==
    \A b \in Browsers : WF_sessionVars(MountEffect(b)) /\ WF_sessionVars(ReadEnds(b))

SessionsSpec == SessionsInit /\ [][SessionsNext]_sessionVars /\ SessionsFairness

-----------------------------------------------------------------------------
\* session.ts's gate: a session that requireSession lets through without a new
\* password follows the replacement of a password that an administrator
\* generated, for its account or a later one of the name: whatever is created,
\* removed, disabled or signed out while a password is compared or stored.
GateKept ==
    \A b \in Browsers :
        sealed[b] # NoSession /\ ~sealed[b].gated => \E id \in replaced : id >= sealed[b].id

\* No page waits for ever for the session it asked for, although readings are
\* forgotten by refreshes and answered in any order.
LoadingEnds ==
    \A b \in Browsers :
        page[b].status = "loading" ~> page[b].status \in {"ready", "error"}
=============================================================================
