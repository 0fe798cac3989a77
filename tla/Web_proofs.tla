------------------------------ MODULE Web_proofs ------------------------------
(***************************************************************************)
(* What the web application keeps.  The chain of promises and the renamed  *)
(* file make every call of FileStore atomic, for any calls in any order,   *)
(* with failures and restarts: it implements AtomicStore.  The gate of     *)
(* module Sessions holds for every number of browsers and accounts; it     *)
(* takes the accounts into the invariant: the ones made under a name are   *)
(* numbered in their order, no cookie is of a later one than the last, and *)
(* a record whose flag is down has had its password replaced.  In          *)
(* DivisionSetup, for any tags, imports and rows, what is reported ready   *)
(* is listed and allowed, and a run of the script that ends has seen to    *)
(* all of its tags.                                                        *)
(*                                                                         *)
(* The offices, for any number of codes, attempts, divisions and requests: *)
(* a limiter lets through no more than it says, because a window that is   *)
(* closed was closed for all it let through; a code answers for itself     *)
(* alone, because the one record kept is that of the last code.  A list    *)
(* the relay keeps says truly what it said when its reading began, but for *)
(* what was changed since.                                                 *)
(*                                                                         *)
(* The results, for any contracts, lists and number of events: the events  *)
(* of a listed contract since the registry was cleared tell, segment by    *)
(* segment, its past, and the last segment what the contract holds.        *)
(***************************************************************************)
EXTENDS FileStore, Sessions, DivisionSetup, Limits, Relay, Results, Induction_proofs, FiniteSetTheorems, TLAPS

-----------------------------------------------------------------------------
(* The store of accounts and invites.                                      *)

LEMMA StoreOfType == \A c \in Calls : StoreOf(c) \in Stores
  BY DEF StoreOf, Stores

\* Appending to a queue does not change who runs.
LEMMA AppendKeepsHead ==
    ASSUME NEW S, NEW q \in Seq(S), NEW x \in S, q # <<>>
    PROVE  Append(q, x) # <<>> /\ Head(Append(q, x)) = Head(q)
  OBVIOUS

\* A running call's queue is not empty, so that it can leave it.
LEMMA TailType ==
    ASSUME NEW S, NEW q \in Seq(S), q # <<>>
    PROVE  Tail(q) \in Seq(S)
  OBVIOUS

-----------------------------------------------------------------------------
LEMMA InitInv == Init => StoreInv
  BY DEF Init, StoreInv, TypeOK, Exclusive, Answered

\* A call that settles leaves its queue, and nobody else was running in it.
LEMMA SettleInv ==
    ASSUME StoreInv, NEW c \in Calls, NEW how \in {"ok", "refused", "failed"},
           pc[c] \in {"queued", "read"}, Runs(c), Settle(c, how),
           contents' = contents,
           DOMAIN file' = Stores,
           \A s \in Stores : s # StoreOf(c) => file'[s] = file[s]
    PROVE  StoreInv'
  <1>0. StoreOf(c) \in Stores
    BY StoreOfType
  <1>1. TypeOK'
    <2>1. queue' \in [Stores -> Seq(Calls)]
      BY <1>0, TailType DEF Settle, Runs, StoreInv, TypeOK
    <2>2. QED
      BY <2>1 DEF Settle, StoreInv, TypeOK
  <1>2. Exclusive'
    <2>1. SUFFICES ASSUME NEW x \in Calls, pc'[x] = "read"
                   PROVE  Runs(x)' /\ contents'[x] = file'[StoreOf(x)]
      BY DEF Exclusive
    <2>2. x # c /\ pc[x] = "read" /\ Runs(x) /\ contents[x] = file[StoreOf(x)]
      BY <2>1 DEF Settle, StoreInv, TypeOK, Exclusive
    <2>3. StoreOf(x) # StoreOf(c) /\ StoreOf(x) \in Stores
      BY <2>2, StoreOfType DEF Runs
    <2>4. queue'[StoreOf(x)] = queue[StoreOf(x)] /\ file'[StoreOf(x)] = file[StoreOf(x)]
      BY <1>0, <2>3 DEF Settle, StoreInv, TypeOK
    <2>5. QED
      BY <2>2, <2>4 DEF Runs
  <1>3. Answered'
    BY DEF Settle, StoreInv, TypeOK, Answered
  <1>4. QED
    BY <1>1, <1>2, <1>3 DEF StoreInv

LEMMA NextInv == StoreInv /\ [Next]_vars => StoreInv'
  <1>1. SUFFICES ASSUME StoreInv, [Next]_vars
                 PROVE  StoreInv'
    OBVIOUS
  <1>2. ASSUME NEW c \in Calls, Precheck(c)
        PROVE  StoreInv'
    <2>1. TypeOK'
      BY <1>1, <1>2 DEF Precheck, StoreInv, TypeOK
    <2>2. Exclusive'
      BY <1>1, <1>2 DEF Precheck, StoreInv, TypeOK, Exclusive, Runs
    <2>3. Answered'
      BY <1>1, <1>2 DEF Precheck, StoreInv, TypeOK, Answered
    <2>4. QED
      BY <2>1, <2>2, <2>3 DEF StoreInv
  <1>3. ASSUME NEW c \in Calls, Enqueue(c)
        PROVE  StoreInv'
    <2>0. StoreOf(c) \in Stores
      BY StoreOfType
    <2>1. TypeOK'
      BY <1>1, <1>3, <2>0 DEF Enqueue, StoreInv, TypeOK
    <2>2. Exclusive'
      <3>1. SUFFICES ASSUME NEW x \in Calls, pc'[x] = "read"
                     PROVE  Runs(x)' /\ contents'[x] = file'[StoreOf(x)]
        BY DEF Exclusive
      <3>2. pc[x] = "read" /\ Runs(x) /\ contents[x] = file[StoreOf(x)]
        BY <1>1, <1>3, <3>1 DEF Enqueue, StoreInv, TypeOK, Exclusive
      <3>3. StoreOf(x) \in Stores /\ queue[StoreOf(x)] \in Seq(Calls)
        BY <1>1, StoreOfType DEF StoreInv, TypeOK
      <3>4. queue'[StoreOf(x)] # <<>> /\ Head(queue'[StoreOf(x)]) = Head(queue[StoreOf(x)])
        <4>1. CASE StoreOf(x) = StoreOf(c)
          <5>1. queue'[StoreOf(x)] = Append(queue[StoreOf(x)], c)
            BY <1>1, <1>3, <2>0, <4>1 DEF Enqueue, StoreInv, TypeOK
          <5>2. QED
            BY <3>2, <3>3, <5>1, AppendKeepsHead DEF Runs
        <4>2. CASE StoreOf(x) # StoreOf(c)
          BY <1>1, <1>3, <3>2, <3>3, <4>2 DEF Enqueue, StoreInv, TypeOK, Runs
        <4>3. QED
          BY <4>1, <4>2
      <3>5. QED
        BY <1>3, <3>2, <3>4 DEF Enqueue, Runs
    <2>3. Answered'
      BY <1>1, <1>3 DEF Enqueue, StoreInv, TypeOK, Answered
    <2>4. QED
      BY <2>1, <2>2, <2>3 DEF StoreInv
  <1>4. ASSUME NEW c \in Calls, Read(c)
        PROVE  StoreInv'
    <2>1. TypeOK'
      BY <1>1, <1>4 DEF Read, StoreInv, TypeOK
    <2>2. Exclusive'
      BY <1>1, <1>4 DEF Read, StoreInv, TypeOK, Exclusive, Runs
    <2>3. Answered'
      BY <1>1, <1>4 DEF Read, StoreInv, TypeOK, Answered
    <2>4. QED
      BY <2>1, <2>2, <2>3 DEF StoreInv
  <1>5. ASSUME NEW c \in Calls, Throw(c)
        PROVE  StoreInv'
    BY <1>1, <1>5, SettleInv DEF Throw, StoreInv, TypeOK, Exclusive
  <1>6. ASSUME NEW c \in Calls, Rename(c)
        PROVE  StoreInv'
    BY <1>1, <1>6, SettleInv DEF Rename, StoreInv, TypeOK, Exclusive
  <1>7. ASSUME NEW c \in Calls, Break(c)
        PROVE  StoreInv'
    BY <1>1, <1>7, SettleInv DEF Break, StoreInv, TypeOK
  <1>8. ASSUME Restart
        PROVE  StoreInv'
    <2>1. TypeOK'
      BY <1>1, <1>8 DEF Restart, StoreInv, TypeOK
    <2>2. Exclusive'
      BY <1>1, <1>8 DEF Restart, StoreInv, TypeOK, Exclusive
    <2>3. Answered'
      BY <1>1, <1>8 DEF Restart, StoreInv, TypeOK, Answered
    <2>4. QED
      BY <2>1, <2>2, <2>3 DEF StoreInv
  <1>9. CASE UNCHANGED vars
    BY <1>1, <1>9 DEF vars, StoreInv, TypeOK, Exclusive, Answered, Runs
  <1>10. QED
    BY <1>1, <1>2, <1>3, <1>4, <1>5, <1>6, <1>7, <1>8, <1>9 DEF Next, Work

\* At any moment at most one mutation of a store has read the file, what it
\* has read is what is on disk, and a call has an answer when it settled.
THEOREM StoreInvAlways == Spec => []StoreInv
  BY InitInv, NextInv, PTL DEF Spec

-----------------------------------------------------------------------------
\* Both modules take the calls from StoreCalls.
LEMMA SameCalls ==
    \A f, c : /\ Atomic!Admits(f, c) <=> Admits(f, c)
             /\ Atomic!Result(f, c) = Result(f, c)
             /\ Atomic!StoreOf(c) = StoreOf(c)
  <1>1. \A f, c : Atomic!Admits(f, c) <=> Admits(f, c)
    BY DEF Atomic!Admits, Admits
  <1>2. \A f, c : Atomic!Result(f, c) = Result(f, c)
    BY DEF Atomic!Result, Result, Atomic!NoRecords, NoRecords
  <1>3. \A f, c : Atomic!StoreOf(c) = StoreOf(c)
    BY DEF Atomic!StoreOf, StoreOf
  <1>4. QED
    BY <1>1, <1>2, <1>3

\* Initial states and steps map to those of module AtomicStore.
LEMMA NextAtomic == StoreInv /\ [Next]_vars => [Atomic!Next]_(Atomic!storeVars)
  <1>1. SUFFICES ASSUME StoreInv, [Next]_vars
                 PROVE  Atomic!Next \/ UNCHANGED <<file, answer>>
    BY DEF Atomic!storeVars
  <1>2. ASSUME NEW c \in Calls, Precheck(c)
        PROVE  Atomic!Refuse(c) \/ UNCHANGED <<file, answer>>
    BY <1>1, <1>2, SameCalls DEF Precheck, Atomic!Refuse, StoreInv, Answered
  <1>3. ASSUME NEW c \in Calls, Throw(c)
        PROVE  Atomic!Refuse(c)
    <2>1. contents[c] = file[StoreOf(c)] /\ answer[c] = "none" /\ ~Admits(contents[c], c)
      BY <1>1, <1>3 DEF Throw, StoreInv, Answered, Exclusive
    <2>2. ~Atomic!Admits(file[Atomic!StoreOf(c)], c)
      BY <2>1, SameCalls
    <2>3. QED
      BY <1>3, <2>1, <2>2 DEF Throw, Settle, Atomic!Refuse
  <1>4. ASSUME NEW c \in Calls, Rename(c)
        PROVE  Atomic!Take(c)
    <2>1. contents[c] = file[StoreOf(c)] /\ answer[c] = "none"
      BY <1>1, <1>4 DEF Rename, StoreInv, Answered, Exclusive
    <2>2. file' = [file EXCEPT ![StoreOf(c)] = Result(file[StoreOf(c)], c)]
      BY <1>4, <2>1 DEF Rename
    <2>3. Atomic!Admits(file[Atomic!StoreOf(c)], c)
      BY <1>4, <2>1, SameCalls DEF Rename
    <2>4. file' = [file EXCEPT ![Atomic!StoreOf(c)] = Atomic!Result(file[Atomic!StoreOf(c)], c)]
      BY <2>2, SameCalls
    <2>5. QED
      BY <1>4, <2>1, <2>3, <2>4 DEF Rename, Settle, Atomic!Take
  <1>5. ASSUME NEW c \in Calls, Break(c)
        PROVE  Atomic!Fail(c)
    BY <1>1, <1>5 DEF Break, Settle, Atomic!Fail, StoreInv, Answered
  <1>6. QED
    BY <1>1, <1>2, <1>3, <1>4, <1>5 DEF Next, Work, Enqueue, Read, Restart, vars, Atomic!Next

\* Every call takes effect at once or not at all, for any number of calls,
\* keys, failures and restarts.
THEOREM Atomicity == Spec => NoLostUpdate
  <1>1. Init => Atomic!Init
    BY DEF Init, Atomic!Init, Atomic!Stores, Stores, Atomic!NoRecords, NoRecords
  <1>2. QED
    BY <1>1, NextAtomic, StoreInvAlways, PTL DEF Spec, NoLostUpdate, Atomic!Spec

-----------------------------------------------------------------------------
(* An officer's sessions.                                                   *)

SessionType == [id : Nat, gated : BOOLEAN]

\* A password was replaced no earlier than the session's account.
Passed(session) == \E id \in replaced : id >= session.id

SessionsTypeOK ==
    /\ officer \in [id : Nat, gated : BOOLEAN, disabled : BOOLEAN]
    /\ made \in Nat
    /\ replaced \subseteq Nat
    /\ sealed \in [Browsers -> SessionType]
    /\ post \in [Browsers -> [pc : {"idle", "login", "change", "save"}, session : SessionType]]

OfficerInv ==
    officer # NoOfficer => /\ officer.id = made
                           /\ ~officer.gated => officer.id \in replaced

NotLater == \A b \in Browsers : sealed[b].id <= made /\ post[b].session.id <= made

\* A route that is about to seal an ungated cookie has cause to.
PostInv ==
    \A b \in Browsers :
        \/ post[b].pc = "login" /\ ~post[b].session.gated
        \/ post[b].pc = "save"
        => Passed(post[b].session)

GateInv == SessionsTypeOK /\ OfficerInv /\ NotLater /\ PostInv /\ GateKept

USE DEF SessionType, Passed, NoSession, NoOfficer, NoPost

\* What the password route seals.
LEMMA Lifted ==
    ASSUME NEW s \in SessionType
    PROVE  /\ [s EXCEPT !.gated = FALSE] \in SessionType
           /\ [s EXCEPT !.gated = FALSE].id = s.id
<1> QED
    OBVIOUS

LEMMA GateInit == SessionsInit => GateInv
<1> SUFFICES ASSUME SessionsInit PROVE GateInv
    OBVIOUS
<1> QED
    BY DEF SessionsInit, GateInv, SessionsTypeOK, OfficerInv, NotLater, PostInv, GateKept

\* What the accounts' steps leave alone is as good as it was.
LEMMA GateStep == GateInv /\ [SessionsNext]_sessionVars => GateInv'
<1> SUFFICES ASSUME GateInv, [SessionsNext]_sessionVars PROVE GateInv'
    OBVIOUS
<1> USE DEF GateInv, SessionsTypeOK, OfficerInv, NotLater, PostInv, GateKept
<1>1. CASE CreateOfficer
    <2>1. made' \in Nat /\ made' > made
        BY <1>1 DEF CreateOfficer
    <2>2. SessionsTypeOK' /\ OfficerInv'
        BY <1>1, <2>1 DEF CreateOfficer
    <2>3. NotLater' /\ PostInv' /\ GateKept'
        BY <1>1, <2>1 DEF CreateOfficer
    <2> QED
        BY <2>2, <2>3
<1>2. CASE RemoveOfficer
    BY <1>2 DEF RemoveOfficer
<1>3. ASSUME NEW disabled \in BOOLEAN, DisableOfficer(disabled) PROVE GateInv'
    <2>1. officer' # NoOfficer => officer'.id = officer.id /\ officer'.gated = officer.gated
        BY <1>3 DEF DisableOfficer
    <2> QED
        BY <1>3, <2>1 DEF DisableOfficer
<1>4. ASSUME NEW b \in Browsers, UNCHANGED <<accountVars, sealed, post>> PROVE GateInv'
    BY <1>4 DEF accountVars
<1>5. ASSUME NEW b \in Browsers, Login(b) PROVE GateInv'
    <2> DEFINE copy == [id |-> officer.id, gated |-> officer.gated]
    <2>1. /\ copy \in SessionType /\ copy.id = made
          /\ ~copy.gated => Passed(copy)
        BY <1>5 DEF Login
    <2>2. UNCHANGED <<accountVars, sealed>> /\ post' = [post EXCEPT ![b] = [pc |-> "login", session |-> copy]]
        BY <1>5 DEF Login
    <2> HIDE DEF copy
    <2>3. SessionsTypeOK' /\ OfficerInv' /\ NotLater' /\ GateKept'
        BY <2>1, <2>2 DEF accountVars
    <2>4. PostInv'
        <3> SUFFICES ASSUME NEW x \in Browsers,
                            \/ post'[x].pc = "login" /\ ~post'[x].session.gated
                            \/ post'[x].pc = "save"
                     PROVE  \E id \in replaced' : id >= post'[x].session.id
            OBVIOUS
        <3>1. CASE x = b
            BY <2>1, <2>2, <3>1 DEF accountVars
        <3>2. CASE x # b
            BY <2>2, <3>2 DEF accountVars
        <3> QED
            BY <3>1, <3>2
    <2> QED
        BY <2>3, <2>4
<1>6. ASSUME NEW b \in Browsers, NEW signed \in SessionType, Seal(b, signed),
             UNCHANGED accountVars, signed.id <= made, ~signed.gated => Passed(signed)
      PROVE  GateInv'
    <2>1. sealed' = [sealed EXCEPT ![b] = signed] /\ post' = [post EXCEPT ![b] = NoPost]
        BY <1>6 DEF Seal
    <2>2. SessionsTypeOK' /\ OfficerInv' /\ NotLater'
        BY <1>6, <2>1 DEF accountVars
    <2>3. PostInv'
        BY <1>6, <2>1 DEF accountVars
    <2>4. GateKept'
        <3> SUFFICES ASSUME NEW x \in Browsers, ~sealed'[x].gated, sealed'[x] # NoSession
                     PROVE  \E id \in replaced' : id >= sealed'[x].id
            OBVIOUS
        <3>1. CASE x = b
            BY <1>6, <2>1, <3>1 DEF accountVars
        <3>2. CASE x # b
            BY <1>6, <2>1, <3>2 DEF accountVars
        <3> QED
            BY <3>1, <3>2
    <2> QED
        BY <2>2, <2>3, <2>4
<1>7. ASSUME NEW b \in Browsers, LoginEnds(b) PROVE GateInv'
    BY <1>6, <1>7 DEF LoginEnds
<1>8. ASSUME NEW b \in Browsers, ChangePassword(b) PROVE GateInv'
    BY <1>8 DEF ChangePassword, accountVars
<1>9. ASSUME NEW b \in Browsers, PasswordStored(b) PROVE GateInv'
    <2>1. /\ replaced' = replaced \cup {made} /\ made' = made /\ sealed' = sealed
          /\ post' = [post EXCEPT ![b].pc = "save"]
        BY <1>9 DEF PasswordStored
    <2>2. SessionsTypeOK' /\ OfficerInv'
        <3>1. officer' = [id |-> made, gated |-> FALSE, disabled |-> officer.disabled]
            BY <1>9 DEF PasswordStored
        <3>2. OfficerInv'
            BY <2>1, <3>1
        <3>3. post' \in [Browsers -> [pc : {"idle", "login", "change", "save"}, session : SessionType]]
            BY <2>1
        <3> QED
            BY <2>1, <3>1, <3>2, <3>3
    <2>3. NotLater' /\ GateKept'
        BY <2>1
    <2>4. PostInv'
        <3> SUFFICES ASSUME NEW x \in Browsers,
                            \/ post'[x].pc = "login" /\ ~post'[x].session.gated
                            \/ post'[x].pc = "save"
                     PROVE  \E id \in replaced' : id >= post'[x].session.id
            OBVIOUS
        <3>1. post'[x].session = post[x].session
            BY <2>1
        <3>2. CASE x = b
            BY <2>1, <3>1, made >= post[x].session.id
        <3>3. CASE x # b
            BY <2>1, <3>1, <3>3
        <3> QED
            BY <3>2, <3>3
    <2> QED
        BY <2>2, <2>3, <2>4
<1>10. ASSUME NEW b \in Browsers, PasswordNotStored(b) PROVE GateInv'
    BY <1>10 DEF PasswordNotStored, accountVars
<1>11. ASSUME NEW b \in Browsers, PasswordEnds(b) PROVE GateInv'
    <2> DEFINE signed == [post[b].session EXCEPT !.gated = FALSE]
    <2>1. signed \in SessionType /\ signed.id = post[b].session.id
        <3>1. post[b].session \in SessionType
            OBVIOUS
        <3> QED
            BY <3>1, Lifted
    <2>2. Passed(signed)
        BY <1>11, <2>1 DEF PasswordEnds
    <2>3. Seal(b, signed) /\ UNCHANGED accountVars
        BY <1>11 DEF PasswordEnds
    <2>4. signed.id <= made
        BY <2>1
    <2> HIDE DEF signed
    <2> QED
        BY <1>6, <2>1, <2>2, <2>3, <2>4
<1>12. ASSUME NEW b \in Browsers, SignOut(b) \/ CookieExpires(b) PROVE GateInv'
    <2>1. sealed' = sealed \/ sealed' = [sealed EXCEPT ![b] = NoSession]
        BY <1>12 DEF SignOut, CookieExpires
    <2>2. UNCHANGED <<accountVars, post>>
        BY <1>12 DEF SignOut, CookieExpires
    <2>3. SessionsTypeOK' /\ OfficerInv'
        <3>1. sealed' \in [Browsers -> SessionType]
            <4>1. NoSession \in SessionType
                OBVIOUS
            <4>2. CASE sealed' = sealed
                BY <4>2
            <4>3. CASE sealed' = [sealed EXCEPT ![b] = NoSession]
                BY <4>1, <4>3
            <4> QED
                BY <2>1, <4>2, <4>3
        <3> QED
            BY <2>2, <3>1 DEF accountVars
    <2>4. NotLater' /\ PostInv' /\ GateKept'
        <3>1. \A x \in Browsers : sealed'[x].id <= made
            BY <2>1
        <3>2. \A x \in Browsers : sealed'[x] # NoSession => sealed'[x] = sealed[x]
            BY <2>1
        <3> QED
            BY <2>2, <3>1, <3>2 DEF accountVars
    <2> QED
        BY <2>3, <2>4
<1>13. ASSUME NEW b \in Browsers, MountEffect(b) \/ ReadEnds(b) \/ WriteUnauthorised(b) PROVE GateInv'
    <2>1. UNCHANGED <<accountVars, sealed, post>>
        BY <1>13 DEF MountEffect, ReadEnds, ReadAnswered, ReadFails, WriteUnauthorised
    <2> QED
        BY <1>4, <1>13, <2>1
<1>14. CASE UNCHANGED sessionVars
    BY <1>14 DEF sessionVars, accountVars
<1> QED
    BY <1>1, <1>2, <1>3, <1>5, <1>7, <1>8, <1>9, <1>10, <1>11, <1>12, <1>13, <1>14 DEF SessionsNext

\* No session of api/auth/password's gate gets through it unless a generated
\* password was replaced for its account or a later one of the name, for any
\* number of browsers and of accounts.
THEOREM GateKeptAlways == SessionsSpec => []GateKept
<1>1. GateInv => GateKept
    BY DEF GateInv
<1> QED
    BY GateInit, GateStep, <1>1, PTL DEF SessionsSpec

-----------------------------------------------------------------------------
(* Setting up divisions.                                                   *)

ListEntry == [name : STRING, contract : Nat \ {0}, by : Imports \cup {"script"}]
ImportState == [pc : {"idle", "create", "receipt", "authorise", "done"}, row : Nat, names : SUBSET STRING,
                contract : Nat]

SetupTypeOK ==
    /\ listed \in Seq(ListEntry) /\ created \in Nat
    /\ recorded \in [TagSet -> Nat]
    /\ script \in [pc : {"stopped", "deploy", "authorise", "list", "done"}, at : Nat]
    /\ script.at \in 1 .. Len(Tags)
    /\ import \in [Imports -> ImportState]
    /\ \A b \in Imports : import[b].row \in 1 .. Len(RowsOf[b])
    /\ cached \subseteq STRING

\* A contract is listed once, and none that was not deployed.
ContractsOnce ==
    /\ \A i \in DOMAIN listed : listed[i].contract <= created
    /\ \A i, j \in DOMAIN listed : listed[i].contract = listed[j].contract => i = j
    /\ \A t \in TagSet : recorded[t] <= created

Listed(contract) == \E i \in DOMAIN listed : listed[i].contract = contract

Complete(t) == recorded[t] # 0 /\ recorded[t] \in allowed /\ Listed(recorded[t])

\* What a run of the script has left behind it is complete.
ScriptInv ==
    /\ script.pc \in {"deploy", "authorise", "list"} => \A k \in 1 .. script.at - 1 : Complete(Tags[k])
    /\ script.pc \in {"authorise", "list"} => recorded[Tags[script.at]] # 0
    /\ script.pc = "list" => recorded[Tags[script.at]] \in allowed
    /\ script.pc = "done" => \A k \in 1 .. Len(Tags) : Complete(Tags[k])

\* An import that was always answered holds every name it listed for taken;
\* the row it is at is listed as it will be reported.
ImportInv(b) ==
    /\ import[b].pc = "idle" => \A i \in DOMAIN listed : listed[i].by # b
    /\ import[b].pc \in {"receipt", "authorise"} =>
          \E i \in DOMAIN listed : listed[i] = Entry(RowName(b), import[b].contract, b)
    /\ b \notin unanswered /\ import[b].pc # "done" =>
          \A i \in DOMAIN listed : listed[i].by = b =>
              \/ listed[i].name \in import[b].names
              \/ import[b].pc \in {"receipt", "authorise"} /\ listed[i].name = RowName(b)

ImportsInv == \A b \in Imports : ImportInv(b)

SetupIInv == SetupTypeOK /\ ContractsOnce /\ ScriptInv /\ ImportsInv /\ ReportedReady /\ ImportNamesOnce

\* The tags of the script are names.
LEMMA TagsType == /\ \A k \in 1 .. Len(Tags) : Tags[k] \in TagSet /\ Tags[k] \in STRING
                  /\ Len(Tags) \in Nat \ {0} /\ DOMAIN Tags = 1 .. Len(Tags)
  BY DivisionSetupAssumption DEF TagSet

\* The name of a row is a name.
LEMMA RowNameType == ASSUME SetupTypeOK, NEW b \in Imports PROVE RowName(b) \in STRING
  BY DivisionSetupAssumption DEF SetupTypeOK, RowName

\* What is known of the entries of the list.
LEMMA ListedType ==
    ASSUME SetupTypeOK
    PROVE  /\ Len(listed) \in Nat /\ DOMAIN listed = 1 .. Len(listed)
           /\ \A i \in DOMAIN listed : listed[i] \in ListEntry
  BY DEF SetupTypeOK

\* The script's divisions are what it says once every tag is complete.
LEMMA ScriptRepairsHolds == SetupIInv => ScriptRepairs
  <1> SUFFICES ASSUME SetupIInv, script.pc = "done", NEW t \in TagSet
               PROVE  /\ recorded[t] \in allowed
                      /\ Cardinality({i \in DOMAIN listed : listed[i].contract = recorded[t]}) = 1
    BY DEF ScriptRepairs
  <1>1. PICK k \in 1 .. Len(Tags) : t = Tags[k]
    BY TagsType DEF TagSet
  <1>2. Complete(t)
    BY <1>1 DEF SetupIInv, ScriptInv
  <1>3. PICK i \in DOMAIN listed : listed[i].contract = recorded[t]
    BY <1>2 DEF Complete, Listed
  <1>4. {j \in DOMAIN listed : listed[j].contract = recorded[t]} = {i}
    BY <1>3 DEF SetupIInv, ContractsOnce
  <1> QED BY <1>2, <1>4, FS_Singleton DEF Complete

\* Where the list, the contracts and what is allowed only grow, what was
\* complete stays so.
LEMMA StaysComplete ==
    ASSUME NEW t \in TagSet, Complete(t), recorded'[t] = recorded[t], allowed \subseteq allowed',
           \A i \in DOMAIN listed : i \in DOMAIN listed' /\ listed'[i] = listed[i]
    PROVE  Complete(t)'
  BY DEF Complete, Listed

Grows(e) ==
    /\ listed' = Append(listed, e)
    /\ DOMAIN listed' = 1 .. Len(listed) + 1
    /\ listed'[Len(listed) + 1] = e
    /\ \A i \in DOMAIN listed : i \in DOMAIN listed' /\ listed'[i] = listed[i] /\ i # Len(listed) + 1
    /\ \A i \in DOMAIN listed' : i = Len(listed) + 1 \/ i \in DOMAIN listed
    /\ Len(listed) + 1 \in DOMAIN listed'
    /\ listed' \in Seq(ListEntry)

\* A list one longer keeps its entries.
LEMMA AppendGrows ==
    ASSUME SetupTypeOK, NEW e \in ListEntry, listed' = Append(listed, e)
    PROVE  Grows(e)
  <1>1. listed \in Seq(ListEntry) /\ Len(listed) \in Nat /\ DOMAIN listed = 1 .. Len(listed)
    BY DEF SetupTypeOK
  <1> QED BY <1>1 DEF Grows

\* Nothing is listed and nobody has begun.
LEMMA SetupStarts == SetupInit => SetupIInv
  BY TagsType, DivisionSetupAssumption DEF SetupInit, SetupIInv, SetupTypeOK, ContractsOnce, ScriptInv, ImportsInv,
     ImportInv, ReportedReady, ImportNamesOnce, ImportState, TagSet

\* The script's own steps.
LEMMA ScriptMoves ==
    ASSUME SetupIInv, UNCHANGED <<listed, created, allowed, recorded, importVars>>, SetupTypeOK', ScriptInv'
    PROVE  SetupIInv'
  BY DEF SetupIInv, ContractsOnce, ImportsInv, ImportInv, ReportedReady, ImportNamesOnce, importVars, RowName

\* The script begins with the first tag.
LEMMA StartScriptInv == SetupIInv /\ StartScript => SetupIInv'
  <1> SUFFICES ASSUME SetupIInv, StartScript PROVE SetupIInv'
    OBVIOUS
  <1>1. script' = [pc |-> "deploy", at |-> 1] /\ UNCHANGED <<onChain, recorded, crashes, importVars>>
    BY DEF StartScript
  <1>2. SetupTypeOK'
    BY <1>1, TagsType DEF SetupIInv, SetupTypeOK, onChain, importVars
  <1>3. ScriptInv'
    BY <1>1 DEF ScriptInv
  <1> QED BY <1>1, <1>2, <1>3, ScriptMoves DEF onChain

\* A contract deployed anew is not listed yet.
LEMMA ScriptDeployInv == SetupIInv /\ ScriptDeploy => SetupIInv'
  <1> SUFFICES ASSUME SetupIInv, ScriptDeploy PROVE SetupIInv'
    OBVIOUS
  <1> DEFINE tag == Tags[script.at]
  <1>0. SetupTypeOK /\ ContractsOnce /\ ScriptInv /\ ImportsInv /\ tag \in TagSet
    BY TagsType DEF SetupIInv, SetupTypeOK
  <1>1. /\ script.pc = "deploy" /\ script' = [script EXCEPT !.pc = "authorise"]
        /\ UNCHANGED <<listed, allowed, crashes, importVars>>
    BY DEF ScriptDeploy
  <1>2. /\ created' \in Nat /\ created' >= created
        /\ recorded' \in [TagSet -> Nat] /\ recorded'[tag] # 0 /\ recorded'[tag] <= created'
        /\ \A t \in TagSet : recorded[t] # 0 \/ t # tag => recorded'[t] = recorded[t]
        /\ \A t \in TagSet : recorded'[t] <= created'
    <2>0. created \in Nat /\ recorded \in [TagSet -> Nat] /\ \A t \in TagSet : recorded[t] <= created
      BY <1>0 DEF SetupTypeOK, ContractsOnce
    <2>1. CASE recorded[tag] = 0
      <3>1. created' = created + 1 /\ recorded' = [recorded EXCEPT ![tag] = created']
        BY <2>1 DEF ScriptDeploy
      <3>2. created' \in Nat /\ created' > created /\ created' # 0
        BY <2>0, <3>1
      <3> HIDE DEF tag
      <3>3. \A t \in TagSet : recorded'[t] = IF t = tag THEN created' ELSE recorded[t]
        BY <1>0, <2>0, <3>1
      <3>4. recorded' \in [TagSet -> Nat]
        BY <1>0, <2>0, <3>1, <3>2
      <3> QED BY <1>0, <2>0, <2>1, <3>2, <3>3, <3>4
    <2>2. CASE recorded[tag] # 0
      <3>1. created' = created /\ recorded' = recorded
        BY <2>2 DEF ScriptDeploy
      <3> QED BY <1>0, <2>0, <2>2, <3>1
    <2> QED BY <2>1, <2>2
  <1>3. SetupTypeOK'
    BY <1>0, <1>1, <1>2 DEF SetupTypeOK, importVars
  <1>4. ContractsOnce'
    <2>1. \A t \in TagSet : recorded'[t] <= created'
      BY <1>2
    <2>2. \A i \in DOMAIN listed : listed[i].contract <= created'
      BY <1>0, <1>2, ListedType DEF ContractsOnce, ListEntry, SetupTypeOK
    <2> QED BY <1>0, <1>1, <2>1, <2>2 DEF ContractsOnce
  <1>5. ScriptInv'
    <2>1. \A k \in 1 .. script.at - 1 : Complete(Tags[k])'
      <3> SUFFICES ASSUME NEW k \in 1 .. script.at - 1 PROVE Complete(Tags[k])'
        OBVIOUS
      <3>1. k \in 1 .. Len(Tags)
        BY <1>0, TagsType DEF SetupTypeOK
      <3>2. Tags[k] \in TagSet /\ Complete(Tags[k])
        BY <1>0, <1>1, <3>1, TagsType DEF ScriptInv
      <3> QED BY <1>1, <1>2, <3>2, StaysComplete DEF Complete
    <2>2. script'.at = script.at /\ script'.pc = "authorise"
      BY <1>0, <1>1 DEF SetupTypeOK
    <2> QED BY <1>2, <2>1, <2>2 DEF ScriptInv
  <1>6. ImportsInv' /\ ReportedReady' /\ ImportNamesOnce'
    BY <1>1 DEF SetupIInv, ImportsInv, ImportInv, ReportedReady, ImportNamesOnce, importVars, RowName
  <1> QED BY <1>3, <1>4, <1>5, <1>6 DEF SetupIInv

\* A contract that is authorised is as listed as it was.
LEMMA ScriptAuthoriseInv == SetupIInv /\ ScriptAuthorise => SetupIInv'
  <1> SUFFICES ASSUME SetupIInv, ScriptAuthorise PROVE SetupIInv'
    OBVIOUS
  <1>0. SetupTypeOK /\ ContractsOnce /\ ScriptInv /\ ImportsInv
    BY DEF SetupIInv
  <1>1. /\ script.pc = "authorise" /\ script' = [script EXCEPT !.pc = "list"]
        /\ allowed' = allowed \cup {recorded[Tags[script.at]]}
        /\ UNCHANGED <<listed, created, recorded, crashes, importVars>>
    BY DEF ScriptAuthorise
  <1>2. SetupTypeOK' /\ script'.at = script.at /\ script'.pc = "list"
    BY <1>0, <1>1 DEF SetupTypeOK, importVars
  <1>3. \A k \in 1 .. script.at - 1 : Complete(Tags[k])'
    BY <1>0, <1>1 DEF ScriptInv, Complete, Listed
  <1>4. ScriptInv'
    BY <1>0, <1>1, <1>2, <1>3 DEF ScriptInv
  <1>5. ContractsOnce' /\ ImportsInv' /\ ReportedReady' /\ ImportNamesOnce'
    BY <1>1 DEF SetupIInv, ContractsOnce, ImportsInv, ImportInv, ReportedReady, ImportNamesOnce, importVars, RowName
  <1> QED BY <1>2, <1>4, <1>5 DEF SetupIInv

\* The script lists the division of its tag unless it is listed.
LEMMA ScriptListInv == SetupIInv /\ ScriptList => SetupIInv'
  <1> SUFFICES ASSUME SetupIInv, ScriptList PROVE SetupIInv'
    OBVIOUS
  <1> DEFINE tag == Tags[script.at]
             e == Entry(tag, recorded[tag], "script")
             already == \E i \in DOMAIN listed : listed[i].contract = recorded[tag]
  <1>0. /\ SetupTypeOK /\ ContractsOnce /\ ScriptInv /\ ImportsInv /\ ReportedReady /\ ImportNamesOnce
        /\ tag \in TagSet /\ tag \in STRING /\ script.at \in 1 .. Len(Tags)
    BY TagsType DEF SetupIInv, SetupTypeOK
  <1>1. /\ script.pc = "list" /\ script' = NextTag
        /\ listed' = IF already THEN listed ELSE Append(listed, e)
        /\ UNCHANGED <<created, allowed, recorded, crashes, importVars>>
    BY DEF ScriptList
  <1>2. recorded[tag] \in Nat \ {0} /\ recorded[tag] <= created /\ recorded[tag] \in allowed
    BY <1>0, <1>1 DEF SetupTypeOK, ScriptInv, ContractsOnce
  <1>3. e \in ListEntry /\ e.contract = recorded[tag] /\ e.by = "script"
    BY <1>0, <1>2 DEF ListEntry, Entry
  <1>4. ~already => Grows(e)
    BY <1>0, <1>1, <1>3, AppendGrows
  <1> HIDE DEF e
  <1>5. /\ \A i \in DOMAIN listed : i \in DOMAIN listed' /\ listed'[i] = listed[i]
        /\ listed' \in Seq(ListEntry)
        /\ \A i \in DOMAIN listed' : i \in DOMAIN listed \/ listed'[i] = e
    BY <1>0, <1>1, <1>4 DEF Grows, SetupTypeOK
  <1> PICK t \in TagSet : t = tag
    BY <1>0
  <1>6. Complete(t)'
    <2>1. \E i \in DOMAIN listed' : listed'[i].contract = recorded[tag]
      <3>1. CASE already
        BY <1>5, <3>1
      <3>2. CASE ~already
        BY <1>3, <1>4, <3>2 DEF Grows
      <3> QED BY <3>1, <3>2
    <2>2. recorded'[t] = recorded[tag] /\ allowed' = allowed /\ recorded[tag] # 0 /\ recorded[tag] \in allowed
      BY <1>1, <1>2
    <2> QED BY <2>1, <2>2 DEF Complete, Listed
  <1>7. \A k \in 1 .. script.at : Complete(Tags[k])'
    <2>0. \A u \in TagSet : recorded'[u] = recorded[u]
      BY <1>1
    <2> SUFFICES ASSUME NEW k \in 1 .. script.at PROVE Complete(Tags[k])'
      OBVIOUS
    <2>1. CASE k = script.at
      BY <1>6, <2>1
    <2>2. CASE k # script.at
      <3>1. k \in 1 .. script.at - 1 /\ k \in 1 .. Len(Tags)
        BY <1>0, <2>2, TagsType
      <3>2. Tags[k] \in TagSet /\ Complete(Tags[k])
        BY <1>0, <1>1, <3>1, TagsType DEF ScriptInv
      <3> QED BY <1>1, <1>5, <2>0, <3>2, StaysComplete
    <2> QED BY <2>1, <2>2
  <1>8. ScriptInv' /\ script' \in [pc : {"stopped", "deploy", "authorise", "list", "done"}, at : Nat]
        /\ script'.at \in 1 .. Len(Tags)
    <2>1. CASE script.at = Len(Tags)
      <3>1. script' = [pc |-> "done", at |-> 1]
        BY <1>1, <2>1 DEF NextTag
      <3> QED BY <1>7, <2>1, <3>1, TagsType DEF ScriptInv
    <2>2. CASE script.at # Len(Tags)
      <3>1. script' = [pc |-> "deploy", at |-> script.at + 1]
        BY <1>1, <2>2 DEF NextTag
      <3>2. script.at + 1 - 1 = script.at /\ script.at + 1 \in 1 .. Len(Tags)
        BY <1>0, <2>2, TagsType
      <3>3. script'.at - 1 = script.at /\ script'.pc = "deploy"
        BY <1>0, <3>1, <3>2, TagsType
      <3>4. \A k \in 1 .. script'.at - 1 : Complete(Tags[k])'
        BY <1>7, <3>3
      <3>5. ScriptInv'
        BY <3>3, <3>4 DEF ScriptInv
      <3> QED BY <1>0, <3>1, <3>2, <3>5
    <2> QED BY <2>1, <2>2
  <1>9. SetupTypeOK'
    BY <1>0, <1>1, <1>5, <1>8 DEF SetupTypeOK, importVars
  <1>10. ContractsOnce'
    <2>1. CASE already
      BY <1>0, <1>1, <2>1 DEF ContractsOnce
    <2>2. CASE ~already
      <3>1. \A i \in DOMAIN listed' : listed'[i].contract <= created
        BY <1>0, <1>2, <1>3, <1>4, <2>2 DEF Grows, ContractsOnce
      <3>2. \A i, j \in DOMAIN listed' : listed'[i].contract = listed'[j].contract => i = j
        BY <1>0, <1>3, <1>4, <2>2 DEF Grows, ContractsOnce
      <3> QED BY <1>0, <1>1, <3>1, <3>2 DEF ContractsOnce
    <2> QED BY <2>1, <2>2
  <1>11. \A i \in DOMAIN listed' : i \in DOMAIN listed \/ listed'[i].by \notin Imports
    BY <1>3, <1>5, DivisionSetupAssumption
  <1>12. ImportsInv' /\ ImportNamesOnce'
    BY <1>0, <1>1, <1>5, <1>11 DEF ImportsInv, ImportInv, ImportNamesOnce, importVars, RowName
  <1>13. ReportedReady'
    BY <1>0, <1>1, <1>5 DEF ReportedReady, importVars
  <1> QED BY <1>8, <1>9, <1>10, <1>12, <1>13 DEF SetupIInv

\* What the script recorded outlives it.
LEMMA ScriptCrashInv == SetupIInv /\ ScriptCrash => SetupIInv'
  <1> SUFFICES ASSUME SetupIInv, ScriptCrash PROVE SetupIInv'
    OBVIOUS
  <1>0. SetupTypeOK /\ ContractsOnce
    BY DEF SetupIInv
  <1>1. /\ script' = [pc |-> "stopped", at |-> 1] /\ UNCHANGED <<listed, allowed, recorded, importVars>>
        /\ created' \in Nat /\ created' >= created
    BY <1>0 DEF ScriptCrash, SetupTypeOK
  <1>2. SetupTypeOK' /\ ScriptInv'
    BY <1>0, <1>1, TagsType DEF SetupTypeOK, ScriptInv, importVars
  <1>3. ContractsOnce'
    <2>1. \A i \in DOMAIN listed : listed[i].contract \in Nat
      BY <1>0, ListedType DEF ListEntry
    <2> QED BY <1>0, <1>1, <2>1 DEF ContractsOnce, SetupTypeOK
  <1>4. ImportsInv' /\ ReportedReady' /\ ImportNamesOnce'
    BY <1>1 DEF SetupIInv, ImportsInv, ImportInv, ReportedReady, ImportNamesOnce, importVars, RowName
  <1> QED BY <1>2, <1>3, <1>4 DEF SetupIInv

\* A step of an import that lists nothing.
LEMMA ImportMoves ==
    ASSUME SetupIInv, NEW b \in Imports, NEW x \in ImportState, x.row \in 1 .. Len(RowsOf[b]),
           import' = [import EXCEPT ![b] = x],
           UNCHANGED <<listed, created, scriptVars, unanswered>>, cached' \subseteq STRING,
           allowed \subseteq allowed', ImportInv(b)', ReportedReady'
    PROVE  SetupIInv'
  <1>0. SetupTypeOK /\ ContractsOnce /\ ScriptInv /\ ImportsInv /\ ImportNamesOnce
    BY DEF SetupIInv
  <1>1. /\ import' \in [Imports -> ImportState] /\ import'[b] = x
        /\ \A c \in Imports : c # b => import'[c] = import[c]
    BY <1>0 DEF SetupTypeOK
  <1>2. SetupTypeOK'
    BY <1>0, <1>1 DEF SetupTypeOK, scriptVars
  <1>3. \A c \in Imports : c # b => ImportInv(c)'
    BY <1>0, <1>1 DEF ImportsInv, ImportInv, RowName
  <1>4. ImportsInv'
    BY <1>3 DEF ImportsInv
  <1>5. ContractsOnce' /\ ImportNamesOnce'
    BY <1>0 DEF ContractsOnce, ImportNamesOnce, scriptVars
  <1>6. ScriptInv'
    BY <1>0 DEF ScriptInv, Complete, Listed, scriptVars
  <1> QED BY <1>2, <1>4, <1>5, <1>6 DEF SetupIInv

\* Where an import goes after a row.
LEMMA AfterType ==
    ASSUME SetupIInv, NEW b \in Imports, NEW names \in SUBSET STRING
    PROVE  /\ After(b, names) \in ImportState /\ After(b, names).row \in 1 .. Len(RowsOf[b])
           /\ After(b, names).pc \in {"done", "create"}
           /\ After(b, names).pc = "create" => After(b, names).names = names
  <1>1. import[b].row \in 1 .. Len(RowsOf[b]) /\ import[b].row \in Nat /\ Len(RowsOf[b]) \in Nat
    BY DivisionSetupAssumption DEF SetupIInv, SetupTypeOK
  <1> QED BY <1>1 DEF After, ImportState

\* After a row the import has every name it listed.
LEMMA AfterInv ==
    ASSUME SetupIInv, NEW b \in Imports, NEW names \in SUBSET STRING, import' = [import EXCEPT ![b] = After(b, names)],
           b \notin unanswered' => \A i \in DOMAIN listed' : listed'[i].by = b => listed'[i].name \in names
    PROVE  ImportInv(b)'
  <1>1. import'[b] = After(b, names)
    BY DEF SetupIInv, SetupTypeOK
  <1>2. import'[b].pc \in {"done", "create"} /\ (import'[b].pc = "create" => import'[b].names = names)
    BY <1>1, AfterType
  <1> QED BY <1>2 DEF ImportInv

\* What is known of an import under way.
LEMMA ImportType ==
    ASSUME SetupIInv, NEW b \in Imports
    PROVE  /\ import[b] \in ImportState /\ import[b].names \in SUBSET STRING /\ import[b].row \in 1 .. Len(RowsOf[b])
           /\ import[b].contract \in Nat /\ RowName(b) \in STRING /\ ImportInv(b)
           /\ RowName(b) = RowsOf[b][import[b].row]
  <1>1. import[b] \in ImportState
    BY DEF SetupIInv, SetupTypeOK
  <1> QED BY <1>1, RowNameType DEF SetupIInv, SetupTypeOK, ImportsInv, ImportState, RowName

\* An import begins with the names listed when it began.
LEMMA StartImportInv == ASSUME SetupIInv, NEW b \in Imports, StartImport(b) PROVE SetupIInv'
  <1> DEFINE x == [pc |-> "create", row |-> 1, names |-> cached, contract |-> 0]
  <1>1. /\ import[b].pc = "idle" /\ import' = [import EXCEPT ![b] = x]
        /\ UNCHANGED <<onChain, scriptVars, reports, unanswered, cached>>
    BY DEF StartImport
  <1>2. cached \subseteq STRING /\ import'[b] = x
    BY <1>1 DEF SetupIInv, SetupTypeOK
  <1>3. x \in ImportState /\ x.row \in 1 .. Len(RowsOf[b])
    BY <1>2, DivisionSetupAssumption DEF ImportState
  <1>4. ImportInv(b)'
    BY <1>1, <1>2, ImportType DEF ImportInv, onChain
  <1>5. ReportedReady'
    BY <1>1 DEF SetupIInv, ReportedReady, onChain
  <1> HIDE DEF x
  <1> QED BY <1>1, <1>2, <1>3, <1>4, <1>5, ImportMoves DEF onChain

\* A row that is refused is passed over.
LEMMA RowRefusedInv == ASSUME SetupIInv, NEW b \in Imports, RowRefused(b) PROVE SetupIInv'
  <1>1. /\ import[b].pc = "create" /\ import' = [import EXCEPT ![b] = After(b, import[b].names)]
        /\ UNCHANGED <<onChain, scriptVars, reports, unanswered, cached>>
    BY DEF RowRefused, SetupIInv, SetupTypeOK
  <1>2. b \notin unanswered => \A i \in DOMAIN listed : listed[i].by = b => listed[i].name \in import[b].names
    BY <1>1, ImportType DEF ImportInv
  <1>3. ImportInv(b)'
    BY <1>1, <1>2, ImportType, AfterInv DEF onChain
  <1>4. ReportedReady' /\ cached \subseteq STRING
    BY <1>1 DEF SetupIInv, SetupTypeOK, ReportedReady, onChain
  <1> QED BY <1>1, <1>3, <1>4, ImportType, AfterType, ImportMoves DEF onChain

\* The receipt names the contract just deployed.
LEMMA ReadReceiptInv == ASSUME SetupIInv, NEW b \in Imports, ReadReceipt(b) PROVE SetupIInv'
  <1> DEFINE x == [import[b] EXCEPT !.pc = "authorise"]
  <1>1. /\ import[b].pc = "receipt" /\ import' = [import EXCEPT ![b] = x]
        /\ UNCHANGED <<onChain, scriptVars, reports, unanswered, cached>>
    BY DEF ReadReceipt, SetupIInv, SetupTypeOK
  <1>2. /\ x \in ImportState /\ x.pc = "authorise" /\ x.row = import[b].row /\ x.names = import[b].names
        /\ x.contract = import[b].contract
    BY ImportType DEF ImportState
  <1>3. import'[b] = x
    BY <1>1 DEF SetupIInv, SetupTypeOK
  <1> HIDE DEF x
  <1>4. ImportInv(b)'
    BY <1>1, <1>2, <1>3, ImportType DEF ImportInv, RowName, onChain
  <1>5. ReportedReady' /\ cached \subseteq STRING
    BY <1>1 DEF SetupIInv, SetupTypeOK, ReportedReady, onChain
  <1> QED BY <1>1, <1>2, <1>4, <1>5, ImportType, ImportMoves DEF onChain

\* Without a receipt the row is given up.
LEMMA ReceiptFailsInv == ASSUME SetupIInv, NEW b \in Imports, ReceiptFails(b) PROVE SetupIInv'
  <1> DEFINE names == import[b].names \cup {RowName(b)}
  <1>1. /\ import[b].pc = "receipt" /\ import' = [import EXCEPT ![b] = After(b, names)] /\ reports' = reports
        /\ UNCHANGED <<onChain, scriptVars, unanswered, cached>>
    BY DEF ReceiptFails, Report, SetupIInv, SetupTypeOK
  <1>2. b \notin unanswered => \A i \in DOMAIN listed : listed[i].by = b => listed[i].name \in names
    BY <1>1, ImportType DEF ImportInv
  <1>3. names \in SUBSET STRING
    BY ImportType
  <1> HIDE DEF names
  <1>4. ImportInv(b)'
    BY <1>1, <1>2, <1>3, AfterInv DEF onChain
  <1>5. ReportedReady' /\ cached \subseteq STRING
    BY <1>1 DEF SetupIInv, SetupTypeOK, ReportedReady, onChain
  <1> QED BY <1>1, <1>3, <1>4, <1>5, AfterType, ImportMoves DEF onChain

\* The contract of a row is listed under its name.
LEMMA RowAuthorisedInv ==
    ASSUME SetupIInv, NEW b \in Imports, NEW landed \in BOOLEAN, NEW answered \in BOOLEAN,
           RowAuthorised(b, landed, answered)
    PROVE  SetupIInv'
  <1> DEFINE names == import[b].names \cup {RowName(b)}
             report == [by |-> b, row |-> import[b].row, contract |-> import[b].contract]
  <1>1. /\ import[b].pc = "authorise" /\ import' = [import EXCEPT ![b] = After(b, names)]
        /\ reports' = IF answered THEN reports \cup {report} ELSE reports
        /\ answered => landed
        /\ allowed' = IF landed THEN allowed \cup {import[b].contract} ELSE allowed
        /\ UNCHANGED <<listed, created, scriptVars, unanswered, cached>>
    BY DEF RowAuthorised, Report, SetupIInv, SetupTypeOK
  <1>2. b \notin unanswered => \A i \in DOMAIN listed : listed[i].by = b => listed[i].name \in names
    BY <1>1, ImportType DEF ImportInv
  <1>3. names \in SUBSET STRING /\ cached \subseteq STRING
    BY ImportType DEF SetupIInv, SetupTypeOK
  <1> HIDE DEF names
  <1>4. ImportInv(b)'
    BY <1>1, <1>2, <1>3, AfterInv
  <1>5. \E i \in DOMAIN listed : listed[i] = Entry(RowsOf[report.by][report.row], report.contract, report.by)
    BY <1>1, ImportType DEF ImportInv
  <1>6. /\ allowed \subseteq allowed' /\ \A r \in reports' : r \in reports \/ r = report
        /\ report \in reports' => report.contract \in allowed' \/ report \in reports
    BY <1>1
  <1>7. ReportedReady'
    <2>1. ReportedReady
      BY DEF SetupIInv
    <2> HIDE DEF report
    <2> QED BY <1>1, <1>5, <1>6, <2>1 DEF ReportedReady
  <1> QED BY <1>1, <1>3, <1>4, <1>6, <1>7, AfterType, ImportMoves

\* A row that is listed, whether or not the import hears of it.
LEMMA RowListed ==
    ASSUME SetupIInv, NEW b \in Imports, NEW x \in ImportState, x.row \in 1 .. Len(RowsOf[b]),
           import' = [import EXCEPT ![b] = x], Deployed(b), RowName(b) \notin import[b].names,
           unanswered' = unanswered \/ unanswered' = unanswered \cup {b}, UNCHANGED reports,
           Grows(Entry(RowName(b), created', b)) => ImportInv(b)'
    PROVE  SetupIInv'
  <1> DEFINE e == Entry(RowName(b), created + 1, b)
  <1>0. /\ SetupTypeOK /\ ContractsOnce /\ ScriptInv /\ ImportsInv /\ ReportedReady /\ ImportNamesOnce
        /\ created \in Nat
    BY DEF SetupIInv, SetupTypeOK
  <1>1. /\ import[b].pc = "create" /\ created' = created + 1 /\ listed' = Append(listed, e)
        /\ UNCHANGED <<allowed, scriptVars, cached>>
    BY DEF Deployed
  <1>2. e \in ListEntry /\ e.contract = created + 1 /\ e.by = b /\ e.name = RowName(b)
    BY <1>0, ImportType DEF ListEntry, Entry
  <1> HIDE DEF e
  <1>3. Grows(e)
    BY <1>0, <1>1, <1>2, AppendGrows
  <1>4. ImportInv(b)'
    BY <1>1, <1>3 DEF e
  <1>5. /\ import' \in [Imports -> ImportState] /\ import'[b] = x
        /\ \A c \in Imports : c # b => import'[c] = import[c]
    BY <1>0 DEF SetupTypeOK
  <1>6. SetupTypeOK'
    BY <1>0, <1>1, <1>3, <1>5 DEF SetupTypeOK, scriptVars, Grows
  <1>7. ContractsOnce'
    <2>1. \A i \in DOMAIN listed : listed[i].contract <= created /\ listed[i].contract \in Nat
      BY <1>0, ListedType DEF ContractsOnce, ListEntry
    <2>2. \A i \in DOMAIN listed' : listed'[i].contract <= created'
      BY <1>0, <1>1, <1>2, <1>3, <2>1 DEF Grows
    <2>3. \A i, j \in DOMAIN listed' : listed'[i].contract = listed'[j].contract => i = j
      <3>1. \A i \in DOMAIN listed : listed[i].contract # created + 1
        BY <1>0, <2>1
      <3> QED BY <1>0, <1>2, <1>3, <3>1 DEF Grows, ContractsOnce
    <2>4. \A t \in TagSet : recorded'[t] <= created'
      BY <1>0, <1>1 DEF ContractsOnce, SetupTypeOK, scriptVars
    <2> QED BY <2>2, <2>3, <2>4 DEF ContractsOnce
  <1>8. \A t \in TagSet : Complete(t) => Complete(t)'
    BY <1>1, <1>3, StaysComplete DEF Grows, scriptVars
  <1>9. ScriptInv'
    <2>1. script' = script /\ recorded' = recorded /\ allowed' = allowed
      BY <1>1 DEF scriptVars
    <2>2. \A k \in 1 .. Len(Tags) : Tags[k] \in TagSet
      BY TagsType
    <2>3. \A k \in 1 .. script.at - 1 : k \in 1 .. Len(Tags)
      BY <1>0, TagsType DEF SetupTypeOK
    <2> QED BY <1>0, <1>8, <2>1, <2>2, <2>3 DEF ScriptInv
  <1>10. \A c \in Imports : c # b => ImportInv(c)'
    <2> SUFFICES ASSUME NEW c \in Imports, c # b PROVE ImportInv(c)'
      OBVIOUS
    <2>1. ImportInv(c) /\ import'[c] = import[c] /\ RowName(c)' = RowName(c) /\ (c \in unanswered' <=> c \in unanswered)
      BY <1>0, <1>5 DEF ImportsInv, RowName
    <2>2. \A i \in DOMAIN listed' : listed'[i].by = c => i \in DOMAIN listed /\ listed'[i] = listed[i]
      BY <1>2, <1>3 DEF Grows
    <2>3. \A i \in DOMAIN listed : i \in DOMAIN listed' /\ listed'[i] = listed[i]
      BY <1>3 DEF Grows
    <2> QED BY <2>1, <2>2, <2>3 DEF ImportInv
  <1>11. ImportsInv'
    BY <1>4, <1>10 DEF ImportsInv
  <1>12. ReportedReady'
    BY <1>0, <1>1, <1>3 DEF ReportedReady, Grows
  <1>13. ImportNamesOnce'
    <2>1. \A i \in DOMAIN listed : listed[i].by = b /\ b \notin unanswered => listed[i].name # RowName(b)
      BY <1>1, ImportType DEF ImportInv
    <2> SUFFICES ASSUME NEW i \in DOMAIN listed', NEW j \in DOMAIN listed', i # j, listed'[i].by = listed'[j].by,
                        listed'[i].by \in Imports \ unanswered'
                 PROVE  listed'[i].name # listed'[j].name
      BY DEF ImportNamesOnce
    <2>2. CASE i \in DOMAIN listed /\ j \in DOMAIN listed
      BY <1>0, <1>3, <2>2 DEF Grows, ImportNamesOnce
    <2>3. CASE i = Len(listed) + 1 /\ j \in DOMAIN listed
      BY <1>2, <1>3, <2>1, <2>3 DEF Grows
    <2>4. CASE j = Len(listed) + 1 /\ i \in DOMAIN listed
      BY <1>2, <1>3, <2>1, <2>4 DEF Grows
    <2> QED BY <1>3, <2>2, <2>3, <2>4 DEF Grows
  <1> QED BY <1>6, <1>7, <1>9, <1>11, <1>12, <1>13 DEF SetupIInv

\* A contract made for a row is the last one deployed.
LEMMA RowCreatedInv == ASSUME SetupIInv, NEW b \in Imports, RowCreated(b) PROVE SetupIInv'
  <1> DEFINE x == [import[b] EXCEPT !.pc = "receipt", !.contract = created']
  <1>1. /\ RowName(b) \notin import[b].names /\ Deployed(b) /\ import' = [import EXCEPT ![b] = x]
        /\ UNCHANGED <<reports, unanswered>> /\ import[b].pc = "create" /\ created' = created + 1
    BY DEF RowCreated, Deployed, SetupIInv, SetupTypeOK
  <1>2. /\ x \in ImportState /\ x.pc = "receipt" /\ x.row = import[b].row /\ x.names = import[b].names
        /\ x.contract = created'
    <2>1. created' \in Nat /\ import[b] \in ImportState
      BY <1>1, ImportType DEF SetupIInv, SetupTypeOK
    <2> QED BY <2>1 DEF ImportState
  <1>3. import'[b] = x
    BY <1>1 DEF SetupIInv, SetupTypeOK
  <1> HIDE DEF x
  <1>4. ASSUME Grows(Entry(RowName(b), created', b)) PROVE ImportInv(b)'
    <2>1. RowName(b)' = RowName(b) /\ Entry(RowName(b), created', b).name = RowName(b)
      BY <1>2, <1>3 DEF RowName, Entry
    <2>2. \A i \in DOMAIN listed : listed[i].by = b /\ b \notin unanswered => listed[i].name \in import[b].names
      BY <1>1, ImportType DEF ImportInv
    <2> QED BY <1>1, <1>2, <1>3, <1>4, <2>1, <2>2 DEF Grows, ImportInv
  <1> QED BY <1>1, <1>2, <1>4, ImportType, RowListed

\* So is one whose answer was lost.
LEMMA RowCreatedUnansweredInv == ASSUME SetupIInv, NEW b \in Imports, RowCreatedUnanswered(b) PROVE SetupIInv'
  <1>1. /\ RowName(b) \notin import[b].names /\ Deployed(b)
        /\ import' = [import EXCEPT ![b] = After(b, import[b].names)]
        /\ unanswered' = unanswered \cup {b} /\ UNCHANGED reports
    BY DEF RowCreatedUnanswered, SetupIInv, SetupTypeOK
  <1>2. ImportInv(b)'
    BY <1>1, ImportType, AfterInv
  <1> QED BY <1>1, <1>2, ImportType, AfterType, RowListed

\* Every step of the script and the imports.
LEMMA SetupStep == SetupIInv /\ [SetupNext]_setupVars => SetupIInv'
  <1> SUFFICES ASSUME SetupIInv, [SetupNext]_setupVars PROVE SetupIInv'
    OBVIOUS
  <1>1. CASE StartScript \/ ScriptStep \/ ScriptCrash
    BY <1>1, StartScriptInv, ScriptDeployInv, ScriptAuthoriseInv, ScriptListInv, ScriptCrashInv DEF ScriptStep
  <1>2. CASE LoadNames
    <2>1. cached' = Names(listed) /\ UNCHANGED <<onChain, scriptVars, import, reports, unanswered>>
      BY <1>2 DEF LoadNames
    <2>2. cached' \subseteq STRING
      <3>1. SetupTypeOK
        BY DEF SetupIInv
      <3> QED BY <2>1, <3>1, ListedType DEF Names, ListEntry
    <2>3. SetupTypeOK'
      BY <2>1, <2>2 DEF SetupIInv, SetupTypeOK, onChain, scriptVars
    <2> QED BY <2>1, <2>3 DEF SetupIInv, ContractsOnce, ScriptInv, Complete, Listed, ImportsInv, ImportInv,
            ReportedReady, ImportNamesOnce, onChain, scriptVars, RowName
  <1>3. ASSUME NEW b \in Imports, StartImport(b) \/ ImportStep(b) PROVE SetupIInv'
    BY <1>3, StartImportInv, RowRefusedInv, RowCreatedInv, RowCreatedUnansweredInv, ReadReceiptInv, ReceiptFailsInv,
       RowAuthorisedInv DEF ImportStep
  <1>4. CASE UNCHANGED setupVars
    BY <1>4 DEF SetupIInv, SetupTypeOK, ContractsOnce, ScriptInv, Complete, Listed, ImportsInv, ImportInv,
       ReportedReady, ImportNamesOnce, onChain, scriptVars, importVars, setupVars, RowName
  <1> QED BY <1>1, <1>2, <1>3, <1>4 DEF SetupNext

\* Whatever script and imports do, and wherever a run of the script breaks
\* off, what is reported ready is ready and what the script ends with is whole.
THEOREM SetupInvAlways == SetupSpec => []SetupInv
  <1>1. SetupIInv => SetupInv
    BY ScriptRepairsHolds DEF SetupIInv, SetupInv
  <1> QED BY <1>1, SetupStarts, SetupStep, PTL DEF SetupSpec
-----------------------------------------------------------------------------
(* One-time codes.                                                         *)

\* The record is that of the last code sent, with as many tries as it has
\* had, and no proof was issued for it yet.
Pending ==
    record # NoRecord =>
        /\ record.code = Len(sent) /\ Len(sent) > 0
        /\ record.lastSentAt = sent[Len(sent)]
        /\ record.expiresAt = sent[Len(sent)] + CODE_TTL_MS
        /\ record.attempts = tries[Len(sent)]
        /\ \A t \in DOMAIN tokens : tokens[t].code # Len(sent)

\* Without one, the last code was used, tried too often or has expired.
Closed ==
    record = NoRecord /\ Len(sent) > 0 =>
        \/ \E t \in DOMAIN tokens : tokens[t].code = Len(sent)
        \/ tries[Len(sent)] = MAX_ATTEMPTS
        \/ clock - sent[Len(sent)] >= RESEND_COOLDOWN_MS

Token == [code : Nat \ {0}, at : Nat]

OtpTypeOK ==
    /\ clock \in Nat
    /\ record \in [code : Nat, expiresAt : Nat, attempts : Nat, lastSentAt : Nat]
    /\ sent \in Seq(Nat) /\ tries \in Seq(Nat) /\ Len(tries) = Len(sent)
    /\ tokens \in Seq(Token)

\* Nothing was sent or proved later than now, and nothing proved that was
\* not sent.
NothingAhead ==
    /\ \A i \in DOMAIN sent : sent[i] <= clock
    /\ \A t \in DOMAIN tokens : tokens[t].at <= clock /\ tokens[t].code <= Len(sent)

OtpIInv == OtpTypeOK /\ NothingAhead /\ Pending /\ Closed /\ OtpInv

\* What the logs hold, element by element.
Entries ==
    /\ Len(sent) \in Nat /\ DOMAIN sent = 1 .. Len(sent) /\ DOMAIN tries = 1 .. Len(sent)
    /\ \A i \in 1 .. Len(sent) : sent[i] \in Nat /\ tries[i] \in Nat
    /\ Len(tokens) \in Nat /\ DOMAIN tokens = 1 .. Len(tokens)
    /\ \A t \in 1 .. Len(tokens) : tokens[t].code \in Nat \ {0} /\ tokens[t].at \in Nat
    /\ clock \in Nat
    /\ MAX_ATTEMPTS \in Nat \ {0} /\ CODE_TTL_MS \in Nat
    /\ RESEND_COOLDOWN_MS \in Nat /\ RESEND_COOLDOWN_MS <= CODE_TTL_MS

\* What is known of the single codes, proofs and tries.
LEMMA EntriesHold == OtpTypeOK => Entries
  <1> SUFFICES ASSUME OtpTypeOK PROVE Entries
    OBVIOUS
  <1>1. \A t \in 1 .. Len(tokens) : tokens[t] \in Token
    BY DEF OtpTypeOK
  <1>2. \A t \in 1 .. Len(tokens) : tokens[t].code \in Nat \ {0} /\ tokens[t].at \in Nat
    BY <1>1 DEF Token
  <1>3. \A i \in 1 .. Len(sent) : sent[i] \in Nat /\ tries[i] \in Nat
    BY DEF OtpTypeOK
  <1>4. /\ Len(sent) \in Nat /\ DOMAIN sent = 1 .. Len(sent) /\ DOMAIN tries = 1 .. Len(sent)
        /\ Len(tokens) \in Nat /\ DOMAIN tokens = 1 .. Len(tokens) /\ clock \in Nat
    BY DEF OtpTypeOK
  <1>5. /\ MAX_ATTEMPTS \in Nat \ {0} /\ CODE_TTL_MS \in Nat
        /\ RESEND_COOLDOWN_MS \in Nat /\ RESEND_COOLDOWN_MS <= CODE_TTL_MS
    BY OtpAssumption
  <1> QED BY <1>2, <1>3, <1>4, <1>5 DEF Entries

\* No code was sent yet.
LEMMA OtpStarts == OtpInit => OtpIInv
  BY OtpAssumption DEF OtpInit, OtpIInv, OtpTypeOK, NothingAhead, Pending, Closed, OtpInv,
     TokensEarned, TriesBounded, SendsSpaced, NoRecord

\* A new code is the last one sent: the record is its own, with no tries.
LEMMA SendOtpInv == OtpIInv /\ SendOtp => OtpIInv'
  <1> SUFFICES ASSUME OtpIInv, SendOtp PROVE OtpIInv'
    OBVIOUS
  <1> DEFINE n == Len(sent) + 1
  <1>0. OtpTypeOK /\ NothingAhead /\ Pending /\ Closed /\ OtpInv /\ Entries
    BY EntriesHold DEF OtpIInv
  <1>a. sent' = Append(sent, clock) /\ tries' = Append(tries, 0) /\ clock' = clock /\ tokens' = tokens
    BY DEF SendOtp
  <1>b. sent \in Seq(Nat) /\ tries \in Seq(Nat) /\ Len(tries) = Len(sent) /\ clock \in Nat
    BY <1>0 DEF OtpTypeOK
  <1>c. sent' \in Seq(Nat) /\ tries' \in Seq(Nat)
    BY <1>a, <1>b
  <1>1. /\ n \in Nat \ {0} /\ Len(sent') = n /\ Len(tries') = n
        /\ sent'[n] = clock /\ tries'[n] = 0
        /\ \A i \in 1 .. n - 1 : sent'[i] = sent[i] /\ tries'[i] = tries[i]
        /\ DOMAIN sent' = 1 .. n /\ DOMAIN tries' = 1 .. n
        /\ \A i \in 1 .. n : i = n \/ i \in 1 .. n - 1
        /\ n - 1 = Len(sent)
    BY <1>a, <1>b
  <1>2. record' = [code |-> n, expiresAt |-> clock + CODE_TTL_MS, attempts |-> 0, lastSentAt |-> clock]
    BY DEF SendOtp
  <1>3. record' # NoRecord
    BY <1>0, <1>1, <1>2 DEF NoRecord
  <1>4. OtpTypeOK'
    BY <1>0, <1>1, <1>2, <1>a, <1>c DEF OtpTypeOK, Entries
  <1>5. \A t \in DOMAIN tokens : tokens[t].code < n /\ tokens[t].at <= clock
    BY <1>0 DEF NothingAhead, Entries
  <1>6. NothingAhead'
    <2>1. ASSUME NEW i \in 1 .. n PROVE sent'[i] <= clock
      <3>1. CASE i = n
        BY <1>1, <1>b, <3>1
      <3>2. CASE i \in 1 .. n - 1
        <4>1. i \in DOMAIN sent /\ sent'[i] = sent[i]
          BY <1>0, <1>1, <3>2 DEF Entries
        <4> QED BY <1>0, <4>1 DEF NothingAhead
      <3> QED BY <1>1, <3>1, <3>2
    <2>2. \A t \in DOMAIN tokens : tokens[t].code <= n
      BY <1>0, <1>1, <1>5 DEF Entries
    <2> QED BY <1>0, <1>1, <1>5, <1>a, <2>1, <2>2 DEF NothingAhead
  <1>7. Pending' /\ Closed'
    <2>1. \A t \in DOMAIN tokens : tokens[t].code # n
      BY <1>0, <1>5 DEF Entries
    <2> QED BY <1>1, <1>a, <1>2, <1>3, <2>1 DEF Pending, Closed
  <1>8. TokensEarned'
    <2>1. ASSUME NEW i \in DOMAIN tokens
          PROVE  /\ tokens[i].at <= sent'[tokens[i].code] + CODE_TTL_MS
                 /\ \A j \in DOMAIN tokens : tokens[j].code = tokens[i].code => j = i
                 /\ \A later \in 1 .. n : later > tokens[i].code => sent'[later] >= tokens[i].at
      <3>1. tokens[i].code \in 1 .. n - 1 /\ tokens[i].at \in Nat
        BY <1>0, <1>5 DEF Entries
      <3>2. sent'[tokens[i].code] = sent[tokens[i].code]
        BY <1>1, <3>1
      <3>3. \A later \in 1 .. n : later > tokens[i].code => sent'[later] >= tokens[i].at
        <4>1. \A later \in 1 .. n - 1 : later > tokens[i].code => sent[later] >= tokens[i].at
          BY <1>0, <1>1 DEF OtpInv, TokensEarned, Entries
        <4> QED BY <1>1, <1>5, <1>b, <3>1, <4>1
      <3> QED BY <1>0, <3>2, <3>3 DEF OtpInv, TokensEarned
    <2> QED BY <1>1, <1>a, <2>1 DEF TokensEarned
  <1>9. TriesBounded'
    BY <1>0, <1>1 DEF OtpInv, TriesBounded, Entries
  <1>10. SendsSpaced'
    <2>1. ASSUME NEW i \in 1 .. n, i > 1, sent'[i] - sent'[i - 1] < RESEND_COOLDOWN_MS
          PROVE  (\E t \in DOMAIN tokens : tokens[t].code = i - 1) \/ tries'[i - 1] = MAX_ATTEMPTS
      <3>1. CASE i < n
        <4>1. i \in 1 .. Len(sent) /\ i - 1 \in 1 .. n - 1
          BY <1>1, <2>1, <3>1
        <4>2. sent'[i] = sent[i] /\ sent'[i - 1] = sent[i - 1] /\ tries'[i - 1] = tries[i - 1]
          BY <1>1, <4>1
        <4> QED BY <1>0, <2>1, <4>1, <4>2 DEF OtpInv, SendsSpaced, Entries
      <3>2. CASE i = n
        <4>1. i - 1 = Len(sent) /\ Len(sent) > 0 /\ clock - sent[Len(sent)] < RESEND_COOLDOWN_MS
          BY <1>0, <1>1, <2>1, <3>2 DEF Entries
        <4>2. record = NoRecord
          BY <1>0, <4>1 DEF SendOtp, CoolingDown, Pending
        <4>3. tries'[i - 1] = tries[Len(sent)]
          BY <1>0, <1>1, <4>1 DEF Entries
        <4>4. sent[Len(sent)] \in Nat
          BY <1>0, <4>1 DEF Entries
        <4> QED BY <1>0, <4>1, <4>2, <4>3, <4>4 DEF Closed, Entries
      <3> QED BY <3>1, <3>2, <1>1
    <2> QED BY <1>1, <1>a, <2>1 DEF SendsSpaced
  <1> QED BY <1>4, <1>6, <1>7, <1>8, <1>9, <1>10 DEF OtpInv, OtpIInv

\* Only an expired record is swept.
LEMMA DiscardInv == OtpIInv /\ Discard => OtpIInv'
  <1> SUFFICES ASSUME OtpIInv, Discard PROVE OtpIInv'
    OBVIOUS
  <1>0. OtpTypeOK /\ NothingAhead /\ Pending /\ Closed /\ OtpInv /\ Entries
    BY EntriesHold DEF OtpIInv
  <1>1. record' = NoRecord /\ UNCHANGED <<clock, sent, tries, tokens>>
    BY DEF Discard
  <1>2. OtpTypeOK' /\ Pending'
    BY <1>0, <1>1 DEF NoRecord, Pending, OtpTypeOK
  <1>3. /\ Len(sent) \in 1 .. Len(sent) /\ record.expiresAt = sent[Len(sent)] + CODE_TTL_MS
        /\ record.attempts = tries[Len(sent)]
    BY <1>0 DEF Discard, Pending, Entries
  <1>4. sent[Len(sent)] \in Nat /\ tries[Len(sent)] \in Nat /\ tries[Len(sent)] <= MAX_ATTEMPTS
    BY <1>0, <1>3 DEF Entries, OtpInv, TriesBounded
  <1>5. clock - sent[Len(sent)] >= RESEND_COOLDOWN_MS \/ tries[Len(sent)] = MAX_ATTEMPTS
    BY <1>0, <1>3, <1>4 DEF Entries, Discard
  <1>6. Closed'
    BY <1>1, <1>5 DEF Closed
  <1>7. NothingAhead' /\ OtpInv'
    BY <1>0, <1>1 DEF NothingAhead, OtpInv, TokensEarned, TriesBounded, SendsSpaced
  <1> QED BY <1>2, <1>6, <1>7 DEF OtpIInv

\* A wrong answer counts as a try; a right one turns the record into a proof.
LEMMA VerifyInv == ASSUME OtpIInv, NEW code \in Nat, Verify(code) PROVE OtpIInv'
  <1> DEFINE n == Len(sent)
  <1>0. OtpTypeOK /\ NothingAhead /\ Pending /\ Closed /\ OtpInv /\ Entries
    BY EntriesHold DEF OtpIInv
  <1>1. /\ n \in Nat \ {0} /\ record.code = n /\ record.attempts = tries[n]
        /\ record.expiresAt = sent[n] + CODE_TTL_MS /\ record.lastSentAt = sent[n]
        /\ \A t \in DOMAIN tokens : tokens[t].code # n
    BY <1>0 DEF Verify, Pending, Entries
  <1>2. /\ clock' = clock /\ sent' = sent /\ clock <= sent[n] + CODE_TTL_MS /\ tries[n] < MAX_ATTEMPTS
        /\ tries' = [tries EXCEPT ![n] = @ + 1] /\ n \in DOMAIN tries /\ n \in DOMAIN sent
        /\ sent[n] \in Nat /\ tries[n] \in Nat
    BY <1>0, <1>1 DEF Verify, Entries
  <1>3. /\ tries' \in Seq(Nat) /\ Len(tries') = n /\ DOMAIN tries' = 1 .. n
        /\ tries'[n] = tries[n] + 1 /\ \A i \in 1 .. n - 1 : tries'[i] = tries[i]
    BY <1>0, <1>1, <1>2 DEF OtpTypeOK
  <1>4. TriesBounded'
    <2>1. ASSUME NEW i \in 1 .. n PROVE tries'[i] <= MAX_ATTEMPTS
      <3>1. CASE i = n
        <4>1. MAX_ATTEMPTS \in Nat /\ tries'[i] = tries[n] + 1
          BY <1>0, <1>3, <3>1 DEF Entries
        <4> QED BY <1>2, <4>1
      <3>2. CASE i # n
        <4>a. i \in DOMAIN tries
          BY <1>0 DEF Entries
        <4>b. n \in Nat
          BY <1>1
        <4> HIDE DEF n
        <4>1. i \in 1 .. n - 1
          BY <4>b, <3>2
        <4>2. tries'[i] = tries[i] /\ tries[i] <= MAX_ATTEMPTS
          BY <1>0, <1>3, <4>a, <4>1 DEF OtpInv, TriesBounded
        <4> QED BY <4>2
      <3> QED BY <3>1, <3>2
    <2> QED BY <1>3, <2>1 DEF TriesBounded
  <1>5. CASE code = n
    <2> DEFINE token == [code |-> n, at |-> clock]
               k == Len(tokens) + 1
    <2>1. record' = NoRecord /\ tokens' = Append(tokens, token)
      BY <1>1, <1>5 DEF Verify
    <2>2. token \in Token /\ tokens \in Seq(Token)
      BY <1>0, <1>1 DEF Token, OtpTypeOK, Entries
    <2>3. /\ DOMAIN tokens' = 1 .. k /\ DOMAIN tokens = 1 .. k - 1 /\ k \in Nat \ {0}
          /\ tokens'[k] = token /\ \A t \in 1 .. k - 1 : tokens'[t] = tokens[t]
          /\ tokens' \in Seq(Token)
      BY <2>1, <2>2
    <2>4. token.code = n /\ token.at = clock
      OBVIOUS
    <2> HIDE DEF token, k
    <2>5. OtpTypeOK'
      BY <1>0, <1>1, <1>2, <1>3, <2>1, <2>3 DEF NoRecord, OtpTypeOK
    <2>6. NothingAhead'
      <3>1. \A t \in 1 .. k - 1 : tokens'[t].at <= clock /\ tokens'[t].code <= n
        BY <1>0, <2>3 DEF NothingAhead
      <3>2. tokens'[k].at <= clock /\ tokens'[k].code <= n
        BY <1>0, <1>1, <2>3, <2>4 DEF Entries
      <3>3. \A t \in 1 .. k : t = k \/ t \in 1 .. k - 1
        BY <2>3
      <3> QED BY <1>0, <1>2, <2>3, <3>1, <3>2, <3>3 DEF NothingAhead
    <2>7. Pending' /\ Closed'
      <3>1. k \in DOMAIN tokens' /\ tokens'[k].code = n
        BY <2>3, <2>4
      <3> QED BY <1>2, <2>1, <3>1 DEF Pending, Closed
    <2>8. TokensEarned'
      <3>1. ASSUME NEW i \in 1 .. k
            PROVE  /\ tokens'[i].at <= sent[tokens'[i].code] + CODE_TTL_MS
                   /\ \A j \in 1 .. k : tokens'[j].code = tokens'[i].code => j = i
                   /\ \A later \in 1 .. n : later > tokens'[i].code => sent[later] >= tokens'[i].at
        <4>1. CASE i = k
          <5>1. \A j \in 1 .. k - 1 : tokens'[j].code # n
            BY <1>1, <2>3
          <5> QED BY <1>1, <1>2, <2>3, <2>4, <4>1, <5>1
        <4>2. CASE i # k
          <5>1. i \in 1 .. k - 1 /\ tokens'[i] = tokens[i] /\ tokens[i].code # n
            BY <1>1, <2>3, <4>2
          <5>2. \A j \in 1 .. k : tokens'[j].code = tokens'[i].code => j = i
            <6>1. \A j \in 1 .. k - 1 : tokens[j].code = tokens[i].code => j = i
              BY <1>0, <2>3, <5>1 DEF OtpInv, TokensEarned
            <6> QED BY <2>3, <2>4, <5>1, <6>1
          <5> QED BY <1>0, <2>3, <5>1, <5>2 DEF OtpInv, TokensEarned, Entries
        <4> QED BY <4>1, <4>2
      <3> QED BY <1>0, <1>2, <2>3, <3>1 DEF TokensEarned, Entries
    <2>9. SendsSpaced'
      <3>1. \A i \in 1 .. n : i > 1 => tries'[i - 1] = tries[i - 1]
        BY <1>1, <1>3
      <3>2. \A c : (\E t \in DOMAIN tokens : tokens[t].code = c) => (\E t \in DOMAIN tokens' : tokens'[t].code = c)
        BY <2>3
      <3> QED BY <1>0, <1>2, <3>1, <3>2 DEF OtpInv, SendsSpaced, Entries
    <2> QED BY <1>4, <2>5, <2>6, <2>7, <2>8, <2>9 DEF OtpInv, OtpIInv
  <1>6. CASE code # n
    <2>1. record' = [record EXCEPT !.attempts = @ + 1] /\ tokens' = tokens
      BY <1>1, <1>6 DEF Verify
    <2>2. /\ record' # NoRecord /\ record'.attempts = record.attempts + 1 /\ record'.code = record.code
          /\ record'.lastSentAt = record.lastSentAt /\ record'.expiresAt = record.expiresAt
      BY <1>0, <1>1, <2>1 DEF NoRecord, OtpTypeOK
    <2>3. OtpTypeOK' /\ NothingAhead'
      <3>1. record'.attempts \in Nat
        BY <1>1, <1>2, <2>2
      <3>2. record' \in [code : Nat, expiresAt : Nat, attempts : Nat, lastSentAt : Nat]
        BY <1>0, <2>1, <2>2, <3>1 DEF OtpTypeOK
      <3> QED BY <1>0, <1>2, <1>3, <2>1, <3>2 DEF NothingAhead, OtpTypeOK
    <2>4. Pending' /\ Closed'
      BY <1>0, <1>1, <1>2, <1>3, <2>1, <2>2 DEF Pending, Closed, Entries
    <2>5. TokensEarned'
      BY <1>0, <1>2, <2>1 DEF OtpInv, TokensEarned
    <2>6. SendsSpaced'
      <3>1. \A i \in 1 .. n : i > 1 => tries'[i - 1] = tries[i - 1]
        BY <1>1, <1>3
      <3> QED BY <1>0, <1>2, <2>1, <3>1 DEF OtpInv, SendsSpaced, Entries
    <2> QED BY <1>4, <2>3, <2>4, <2>5, <2>6 DEF OtpInv, OtpIInv
  <1> QED BY <1>5, <1>6

\* Time does not take a record back, nor a proof.
LEMMA ClockTickInv == OtpIInv /\ ClockTick => OtpIInv'
  <1> SUFFICES ASSUME OtpIInv, ClockTick PROVE OtpIInv'
    OBVIOUS
  <1>0. OtpTypeOK /\ NothingAhead /\ Pending /\ Closed /\ OtpInv /\ Entries
    BY EntriesHold DEF OtpIInv
  <1>1. clock' = clock + 1 /\ UNCHANGED <<record, sent, tries, tokens>>
    BY DEF ClockTick
  <1>2. OtpTypeOK' /\ NothingAhead' /\ Pending'
    BY <1>0, <1>1 DEF OtpTypeOK, NothingAhead, Pending, Entries
  <1>3. Closed'
    <2>1. Len(sent) > 0 => sent[Len(sent)] \in Nat
      BY <1>0 DEF Entries
    <2> QED BY <1>0, <1>1, <2>1 DEF Closed, Entries
  <1>4. OtpInv'
    BY <1>0, <1>1 DEF OtpInv, TokensEarned, TriesBounded, SendsSpaced
  <1> QED BY <1>2, <1>3, <1>4 DEF OtpIInv

\* Every step of the one-time codes.
LEMMA OtpStep == OtpIInv /\ [OtpNext]_otpVars => OtpIInv'
  <1> SUFFICES ASSUME OtpIInv, [OtpNext]_otpVars PROVE OtpIInv'
    OBVIOUS
  <1>1. Len(sent) \in Nat
    BY EntriesHold DEF OtpIInv, Entries
  <1>2. CASE \E code \in 0 .. Len(sent) : Verify(code)
    BY <1>1, <1>2, VerifyInv
  <1>3. CASE UNCHANGED otpVars
    BY <1>3 DEF otpVars, OtpIInv, OtpTypeOK, NothingAhead, Pending, Closed, OtpInv,
       TokensEarned, TriesBounded, SendsSpaced
  <1> QED BY <1>2, <1>3, SendOtpInv, DiscardInv, ClockTickInv DEF OtpNext

\* What the codes promise, whatever is sent, tried and swept.
LEMMA OtpInvAlways == OtpSpec => []OtpInv
  <1>1. OtpIInv => OtpInv
    BY DEF OtpIInv
  <1> QED BY <1>1, OtpStarts, OtpStep, PTL DEF OtpSpec

-----------------------------------------------------------------------------
(* The login.                                                              *)

\* The entries of a log of times that are in T.
At(times, T) == {i \in 1 .. Len(times) : times[i] \in T}

From(t) == {x \in Nat : t <= x}
Between(t, u) == {x \in Nat : t <= x /\ x < u}

\* The entries of a log within some times are finitely many.
LEMMA AtFinite ==
    ASSUME NEW times \in Seq(Nat), NEW T
    PROVE  IsFiniteSet(At(times, T)) /\ Cardinality(At(times, T)) \in Nat
  <1>1. IsFiniteSet(1 .. Len(times))
    BY FS_Interval
  <1>2. At(times, T) \subseteq 1 .. Len(times)
    BY DEF At
  <1>3. IsFiniteSet(At(times, T))
    BY <1>1, <1>2, FS_Subset
  <1> QED BY <1>3, FS_CardinalityType

\* There are no more of them in fewer times.
LEMMA AtFewer ==
    ASSUME NEW times \in Seq(Nat), NEW T, NEW U, \A i \in 1 .. Len(times) : times[i] \in T => times[i] \in U
    PROVE  Cardinality(At(times, T)) <= Cardinality(At(times, U))
  <1>1. At(times, T) \subseteq At(times, U)
    BY DEF At
  <1> QED BY <1>1, AtFinite, FS_Subset

\* Those of two spans together are at most their sum.
LEMMA AtTogether ==
    ASSUME NEW times \in Seq(Nat), NEW T, NEW U, NEW V, NEW k \in Nat, NEW l \in Nat,
           \A i \in 1 .. Len(times) : times[i] \in T => times[i] \in U \/ times[i] \in V,
           Cardinality(At(times, U)) <= k, Cardinality(At(times, V)) <= l
    PROVE  Cardinality(At(times, T)) <= k + l
  <1> DEFINE u == At(times, U)
             v == At(times, V)
  <1>1. IsFiniteSet(u) /\ IsFiniteSet(v) /\ Cardinality(u) \in Nat /\ Cardinality(v) \in Nat
    BY AtFinite
  <1>2. At(times, T) \subseteq u \cup v
    BY DEF At
  <1> HIDE DEF u, v
  <1>3. IsFiniteSet(u \cup v) /\ IsFiniteSet(u \cap v)
    BY <1>1, FS_Union, FS_Intersection
  <1>4. Cardinality(u \cup v) = Cardinality(u) + Cardinality(v) - Cardinality(u \cap v)
    BY <1>1, FS_Union
  <1>5. Cardinality(At(times, T)) <= Cardinality(u \cup v)
    BY <1>2, <1>3, FS_Subset
  <1>6. Cardinality(u \cap v) \in Nat /\ Cardinality(u \cup v) \in Nat /\ Cardinality(At(times, T)) \in Nat
    BY <1>3, AtFinite, FS_CardinalityType
  <1>7. Cardinality(u) <= k /\ Cardinality(v) <= l
    BY DEF u, v
  <1> QED BY <1>1, <1>4, <1>5, <1>6, <1>7

\* One more entry is at most one more among those times.
LEMMA AtAppend ==
    ASSUME NEW times \in Seq(Nat), NEW x \in Nat, NEW T
    PROVE  /\ x \notin T => At(Append(times, x), T) = At(times, T)
           /\ Cardinality(At(Append(times, x), T)) <= Cardinality(At(times, T)) + 1
  <1> DEFINE n == Len(times)
             more == Append(times, x)
  <1>1. /\ n \in Nat /\ Len(more) = n + 1 /\ more[n + 1] = x
        /\ \A i \in 1 .. n : more[i] = times[i]
    OBVIOUS
  <1> HIDE DEF more
  <1>2. x \notin T => At(more, T) = At(times, T)
    BY <1>1 DEF At
  <1>3. At(more, T) \subseteq At(times, T) \cup {n + 1}
    BY <1>1 DEF At
  <1>4. IsFiniteSet(At(times, T)) /\ Cardinality(At(times, T)) \in Nat
    BY AtFinite
  <1>5. n + 1 \notin At(times, T)
    BY <1>1 DEF At
  <1>6. /\ IsFiniteSet(At(times, T) \cup {n + 1})
        /\ Cardinality(At(times, T) \cup {n + 1}) = Cardinality(At(times, T)) + 1
    BY <1>4, <1>5, FS_AddElement
  <1>7. Cardinality(At(more, T)) <= Cardinality(At(times, T) \cup {n + 1})
    BY <1>3, <1>6, FS_Subset
  <1> QED BY <1>2, <1>6, <1>7 DEF more

\* What a limiter has let through, beside the window it counts in: in the
\* window, at most what was counted and at most the limit; just before it, at
\* most the limit.
Limiter(times, w, time) ==
    /\ w.startedAt = 0 => times = <<>>
    /\ w.startedAt <= time
    /\ \A i \in 1 .. Len(times) : times[i] < w.startedAt + WindowMs
    /\ Cardinality(At(times, From(w.startedAt))) <= w.count
    /\ Cardinality(At(times, From(w.startedAt))) <= Limit
    /\ \A t \in Nat : t + WindowMs > w.startedAt =>
          Cardinality(At(times, Between(t, w.startedAt))) <= Limit

Bursts(times) == \A t \in Nat : Cardinality(At(times, Between(t, t + WindowMs))) <= 2 * Limit

Window == [count : Nat, startedAt : Nat]

\* An interval that reaches into the window holds what was let through in it
\* and just before it.
LEMMA BurstOfTwo ==
    ASSUME NEW times \in Seq(Nat), NEW w \in Window, NEW time \in Nat, Limiter(times, w, time),
           NEW t \in Nat, t + WindowMs > w.startedAt
    PROVE  Cardinality(At(times, Between(t, t + WindowMs))) <= 2 * Limit
  <1>1. w.startedAt \in Nat /\ WindowMs \in Nat /\ Limit \in Nat
    BY ThrottlesAssumption DEF Window
  <1>2. \A i \in 1 .. Len(times) : times[i] \in Between(t, t + WindowMs) =>
            times[i] \in Between(t, w.startedAt) \/ times[i] \in From(w.startedAt)
    BY <1>1 DEF Between, From
  <1>3. /\ Cardinality(At(times, Between(t, w.startedAt))) <= Limit
        /\ Cardinality(At(times, From(w.startedAt))) <= Limit
    BY DEF Limiter
  <1>4. Cardinality(At(times, Between(t, t + WindowMs))) <= Limit + Limit
    BY <1>1, <1>2, <1>3, AtTogether
  <1> QED BY <1>1, <1>4

\* A request that opens a window is let through.
LEMMA WindowOpens ==
    ASSUME NEW times \in Seq(Nat), NEW w \in Window, NEW time \in Nat \ {0}, Limiter(times, w, time), Bursts(times),
           w.startedAt = 0 \/ time - w.startedAt >= WindowMs
    PROVE  Limiter(Append(times, time), [count |-> 1, startedAt |-> time], time) /\ Bursts(Append(times, time))
  <1> DEFINE new == [count |-> 1, startedAt |-> time]
             more == Append(times, time)
  <1>0. w.startedAt \in Nat /\ WindowMs \in Nat \ {0} /\ Limit \in Nat \ {0} /\ time \in Nat
    BY ThrottlesAssumption DEF Window
  <1>1. /\ more \in Seq(Nat) /\ Len(times) \in Nat /\ Len(more) = Len(times) + 1 /\ more[Len(times) + 1] = time
        /\ \A i \in 1 .. Len(times) : more[i] = times[i] /\ times[i] \in Nat
    OBVIOUS
  <1>2. \A i \in 1 .. Len(times) : times[i] < time
    BY <1>0, <1>1 DEF Limiter
  <1>3. Cardinality(At(more, From(time))) <= 1
    <2>1. At(times, From(time)) = {}
      BY <1>0, <1>1, <1>2 DEF At, From
    <2>2. Cardinality(At(times, From(time))) = 0
      BY <2>1, FS_EmptySet
    <2> QED BY <1>0, <1>1, <2>2, AtAppend
  <1>4. ASSUME NEW t \in Nat, t + WindowMs > time
        PROVE  Cardinality(At(more, Between(t, time))) <= Limit
    <2>1. At(more, Between(t, time)) = At(times, Between(t, time))
      <3>1. time \notin Between(t, time)
        BY DEF Between
      <3> QED BY <3>1, <1>0, AtAppend
    <2>2. \A i \in 1 .. Len(times) : times[i] \in Between(t, time) => times[i] \in From(w.startedAt)
      BY <1>0, <1>1, <1>4 DEF Between, From, Limiter
    <2>3. Cardinality(At(times, Between(t, time))) <= Cardinality(At(times, From(w.startedAt)))
      BY <2>2, AtFewer
    <2>4. Cardinality(At(times, From(w.startedAt))) <= Limit
      BY DEF Limiter
    <2>5. Cardinality(At(times, Between(t, time))) \in Nat /\ Cardinality(At(times, From(w.startedAt))) \in Nat
      BY AtFinite
    <2> QED BY <1>0, <2>1, <2>3, <2>4, <2>5
  <1>5. Cardinality(At(more, From(time))) \in Nat
    BY <1>1, AtFinite
  <1>6. new \in Window /\ new.count = 1 /\ new.startedAt = time
    BY <1>0 DEF Window
  <1> HIDE DEF new, more
  <1>7. Limiter(more, new, time)
    <2>1. ASSUME NEW i \in 1 .. Len(more) PROVE more[i] < time + WindowMs
      <3>1. CASE i = Len(times) + 1
        BY <1>0, <1>1, <3>1
      <3>2. CASE i \in 1 .. Len(times)
        <4>1. more[i] = times[i] /\ times[i] \in Nat /\ times[i] < time
          BY <1>1, <1>2, <3>2
        <4> QED BY <1>0, <4>1
      <3> QED BY <1>1, <3>1, <3>2
    <2>2. Cardinality(At(more, From(time))) <= Limit
      BY <1>0, <1>3, <1>5
    <2> QED BY <1>0, <1>3, <1>4, <1>6, <2>1, <2>2 DEF Limiter
  <1>8. ASSUME NEW t \in Nat
        PROVE  Cardinality(At(more, Between(t, t + WindowMs))) <= 2 * Limit
    <2>1. CASE t + WindowMs > time
      BY <1>0, <1>1, <1>6, <1>7, <2>1, BurstOfTwo
    <2>2. CASE t + WindowMs <= time
      <3>1. time \notin Between(t, t + WindowMs)
        BY <1>0, <2>2 DEF Between
      <3>2. At(more, Between(t, t + WindowMs)) = At(times, Between(t, t + WindowMs))
        BY <1>0, <3>1, AtAppend DEF more
      <3> QED BY <3>2 DEF Bursts
    <2> QED BY <1>0, <2>1, <2>2
  <1>9. Bursts(more)
    BY <1>8 DEF Bursts
  <1> QED BY <1>7, <1>9 DEF new, more

\* One within a window is let through as long as the limit is not reached.
LEMMA WindowGoesOn ==
    ASSUME NEW times \in Seq(Nat), NEW w \in Window, NEW time \in Nat \ {0}, Limiter(times, w, time), Bursts(times),
           ~(w.startedAt = 0 \/ time - w.startedAt >= WindowMs)
    PROVE  /\ Limiter(times, [w EXCEPT !.count = @ + 1], time)
           /\ w.count + 1 <= Limit =>
                 Limiter(Append(times, time), [w EXCEPT !.count = @ + 1], time) /\ Bursts(Append(times, time))
  <1> DEFINE new == [w EXCEPT !.count = @ + 1]
             more == Append(times, time)
             s == w.startedAt
  <1>0. s \in Nat /\ w.count \in Nat /\ WindowMs \in Nat \ {0} /\ Limit \in Nat \ {0} /\ time \in Nat
    BY ThrottlesAssumption DEF Window
  <1>1. /\ more \in Seq(Nat) /\ Len(times) \in Nat /\ Len(more) = Len(times) + 1 /\ more[Len(times) + 1] = time
        /\ \A i \in 1 .. Len(times) : more[i] = times[i] /\ times[i] \in Nat
    OBVIOUS
  <1>2. new \in Window /\ new.count = w.count + 1 /\ new.startedAt = s
    BY <1>0 DEF Window
  <1>3. Cardinality(At(times, From(s))) \in Nat
    BY AtFinite
  <1> HIDE DEF new, more
  <1>4. Limiter(times, new, time)
    BY <1>0, <1>2, <1>3 DEF Limiter
  <1>5. ASSUME w.count + 1 <= Limit
        PROVE  Limiter(more, new, time) /\ Bursts(more)
    <2>1. /\ Cardinality(At(more, From(s))) <= w.count + 1
          /\ Cardinality(At(more, From(s))) <= Limit
      <3>1. Cardinality(At(more, From(s))) <= Cardinality(At(times, From(s))) + 1
        BY <1>0, AtAppend DEF more
      <3>2. Cardinality(At(times, From(s))) <= w.count /\ Cardinality(At(more, From(s))) \in Nat
        BY <1>1, AtFinite DEF Limiter
      <3> QED BY <1>0, <1>3, <1>5, <3>1, <3>2
    <2>2. ASSUME NEW t \in Nat, t + WindowMs > s
          PROVE  Cardinality(At(more, Between(t, s))) <= Limit
      <3>1. time \notin Between(t, s)
        BY <1>0 DEF Between, Limiter
      <3>2. At(more, Between(t, s)) = At(times, Between(t, s))
        BY <1>0, <3>1, AtAppend DEF more
      <3> QED BY <2>2, <3>2 DEF Limiter
    <2>3. ASSUME NEW i \in 1 .. Len(more) PROVE more[i] < s + WindowMs
      <3>1. CASE i = Len(times) + 1
        BY <1>0, <1>1, <3>1
      <3>2. CASE i \in 1 .. Len(times)
        BY <1>1, <3>2 DEF Limiter
      <3> QED BY <1>1, <3>1, <3>2
    <2>4. Limiter(more, new, time)
      BY <1>0, <1>2, <2>1, <2>2, <2>3 DEF Limiter
    <2>5. ASSUME NEW t \in Nat
          PROVE  Cardinality(At(more, Between(t, t + WindowMs))) <= 2 * Limit
      <3>1. CASE t + WindowMs > s
        BY <1>0, <1>1, <1>2, <2>4, <3>1, BurstOfTwo
      <3>2. CASE t + WindowMs <= s
        <4>1. time \notin Between(t, t + WindowMs)
          BY <1>0, <3>2 DEF Between, Limiter
        <4>2. At(more, Between(t, t + WindowMs)) = At(times, Between(t, t + WindowMs))
          BY <1>0, <4>1, AtAppend DEF more
        <4> QED BY <4>2 DEF Bursts
      <3> QED BY <1>0, <3>1, <3>2
    <2> QED BY <2>4, <2>5 DEF Bursts
  <1> QED BY <1>4, <1>5 DEF new, more

\* A lock stands for as many failures, none of them from before a success or
\* the end of an earlier lock.
LockInv ==
    /\ failures \in [count : Nat, lockedUntil : Nat] /\ wrong \in Nat
    /\ failures.lockedUntil > 0 => failures.count >= MaxFailures
    /\ failures.lockedUntil = 0 \/ Locked => failures.count <= wrong

Logins == [pc : {"idle", "body", "comparing", "refused", "signedIn"}, ip : Addresses]

ThrottleTypeOK ==
    /\ now \in Nat \ {0}
    /\ windows \in [Addresses -> Window]
    /\ attempt \in [Attempts -> Logins]
    /\ admitted \in [Addresses -> Seq(Nat)]

ThrottleIInv ==
    /\ ThrottleTypeOK /\ LockInv
    /\ \A ip \in Addresses : Limiter(admitted[ip], windows[ip], now) /\ Bursts(admitted[ip])

\* A limiter that has let nothing through.
LEMMA NothingLetThrough ==
    ASSUME NEW time \in Nat
    PROVE  Limiter(<<>>, NoWindow, time) /\ Bursts(<<>>)
  <1>1. \A T : At(<<>>, T) = {}
    BY DEF At
  <1>2. \A T : Cardinality(At(<<>>, T)) = 0
    BY <1>1, FS_EmptySet
  <1> QED BY <1>2, ThrottlesAssumption DEF Limiter, Bursts, NoWindow

\* Nobody has tried anything yet.
LEMMA ThrottleStarts == ThrottleInit => ThrottleIInv
  <1> SUFFICES ASSUME ThrottleInit PROVE ThrottleIInv
    OBVIOUS
  <1>1. ThrottleTypeOK
    BY DEF ThrottleInit, ThrottleTypeOK, Logins, Window, NoWindow
  <1>2. LockInv
    BY DEF ThrottleInit, LockInv, NoFailures, Locked
  <1>3. \A ip \in Addresses : Limiter(admitted[ip], windows[ip], now) /\ Bursts(admitted[ip])
    BY NothingLetThrough DEF ThrottleInit
  <1> QED BY <1>1, <1>2, <1>3 DEF ThrottleIInv

\* An attempt the limiter lets through is counted in its window.
LEMMA ArriveInv == ASSUME ThrottleIInv, NEW a \in Attempts, Arrive(a) PROVE ThrottleIInv'
  <1> DEFINE ip == attempt[a].ip
             w == windows[ip]
             times == admitted[ip]
             new == Consume(w)
  <1>1. /\ ip \in Addresses /\ w \in Window /\ times \in Seq(Nat) /\ now \in Nat \ {0}
        /\ Limiter(times, w, now) /\ Bursts(times)
    BY DEF ThrottleIInv, ThrottleTypeOK, Logins
  <1>2. new \in Window /\ now' = now /\ UNCHANGED <<failures, wrong>>
    BY <1>1 DEF Arrive, Consume, Window
  <1>3. /\ windows' = [windows EXCEPT ![ip] = new]
        /\ admitted' = IF new.count <= Limit THEN [admitted EXCEPT ![ip] = Append(@, now)] ELSE admitted
        /\ attempt' \in [Attempts -> Logins]
    BY DEF Arrive, ThrottleIInv, ThrottleTypeOK, Logins
  <1>4. IF new.count <= Limit THEN Limiter(Append(times, now), new, now) /\ Bursts(Append(times, now))
                              ELSE Limiter(times, new, now) /\ Bursts(times)
    <2>1. CASE w.startedAt = 0 \/ now - w.startedAt >= WindowMs
      <3>1. new = [count |-> 1, startedAt |-> now] /\ 1 <= Limit
        BY <2>1, ThrottlesAssumption DEF Consume
      <3>2. new.count <= Limit
        BY <3>1
      <3> QED BY <1>1, <2>1, <3>1, <3>2, WindowOpens
    <2>2. CASE ~(w.startedAt = 0 \/ now - w.startedAt >= WindowMs)
      <3>1. new = [w EXCEPT !.count = @ + 1] /\ new.count = w.count + 1
        BY <1>1, <2>2 DEF Consume, Window
      <3> QED BY <1>1, <2>2, <3>1, WindowGoesOn
    <2> QED BY <2>1, <2>2
  <1> HIDE DEF new, ip
  <1>5. ThrottleTypeOK'
    BY <1>1, <1>2, <1>3 DEF ThrottleIInv, ThrottleTypeOK
  <1>6. LockInv'
    BY <1>2 DEF ThrottleIInv, LockInv, Locked
  <1>7. ASSUME NEW i \in Addresses
        PROVE  Limiter(admitted'[i], windows'[i], now') /\ Bursts(admitted'[i])
    <2>1. CASE i = ip
      BY <1>1, <1>2, <1>3, <1>4, <2>1 DEF ThrottleIInv, ThrottleTypeOK
    <2>2. CASE i # ip
      BY <1>1, <1>2, <1>3, <2>2 DEF ThrottleIInv, ThrottleTypeOK
    <2> QED BY <2>1, <2>2
  <1> QED BY <1>5, <1>6, <1>7 DEF ThrottleIInv

\* Where windows and what was let through stay as they are.
LEMMA QuietLimiters ==
    ASSUME ThrottleIInv, UNCHANGED <<windows, admitted>>, now' \in Nat, now' >= now,
           attempt' \in [Attempts -> Logins], LockInv'
    PROVE  ThrottleIInv'
  <1>1. ThrottleTypeOK'
    BY DEF ThrottleIInv, ThrottleTypeOK
  <1>2. \A ip \in Addresses : Limiter(admitted[ip], windows[ip], now') /\ Bursts(admitted[ip])
    BY DEF ThrottleIInv, ThrottleTypeOK, Limiter, Window
  <1> QED BY <1>1, <1>2 DEF ThrottleIInv

\* An attempt to sign in, once the limiter and the lock have been asked.
LEMMA LoginStep == ASSUME ThrottleIInv, NEW a \in Attempts,
                          Arrive(a) \/ BadBody(a) \/ CheckLock(a) \/ WrongPassword(a) \/ RightPassword(a)
                   PROVE  ThrottleIInv'
  <1>0. now \in Nat /\ now > 0 /\ MaxFailures \in Nat \ {0} /\ LockoutMs \in Nat \ {0}
    BY ThrottlesAssumption DEF ThrottleIInv, ThrottleTypeOK
  <1>1. CASE Arrive(a)
    BY <1>1, ArriveInv
  <1>2. CASE BadBody(a)
    <2>1. attempt' \in [Attempts -> Logins]
      BY <1>2 DEF BadBody, ThrottleIInv, ThrottleTypeOK, Logins
    <2>2. LockInv'
      BY <1>2 DEF BadBody, ThrottleIInv, LockInv, Locked
    <2> QED BY <1>0, <1>2, <2>1, <2>2, QuietLimiters DEF BadBody
  <1>3. CASE CheckLock(a)
    <2>1. attempt' \in [Attempts -> Logins]
      BY <1>3 DEF CheckLock, ThrottleIInv, ThrottleTypeOK, Logins
    <2>2. LockInv'
      BY <1>0, <1>3 DEF CheckLock, ThrottleIInv, LockInv, Locked, Status, NoFailures
    <2> QED BY <1>0, <1>3, <2>1, <2>2, QuietLimiters DEF CheckLock
  <1>4. CASE WrongPassword(a)
    <2>1. attempt' \in [Attempts -> Logins]
      BY <1>4 DEF WrongPassword, ThrottleIInv, ThrottleTypeOK, Logins
    <2>2. wrong' = wrong + 1 /\ now' = now
      BY <1>4 DEF WrongPassword
    <2>3. ASSUME Locked PROVE LockInv'
      <3>1. failures' = failures
        BY <1>4, <2>3 DEF WrongPassword, RecordFailure
      <3>2. LockInv
        BY DEF ThrottleIInv
      <3> QED BY <1>0, <2>2, <2>3, <3>1, <3>2 DEF LockInv, Locked
    <2>4. ASSUME ~Locked PROVE LockInv'
      <3>1. Status.count \in Nat /\ Status.count <= wrong
        BY <1>0, <2>4 DEF ThrottleIInv, LockInv, Locked, Status, NoFailures
      <3>2. failures' = [count |-> Status.count + 1,
                         lockedUntil |-> IF Status.count + 1 >= MaxFailures THEN now + LockoutMs ELSE 0]
        BY <1>4, <2>4 DEF WrongPassword, RecordFailure
      <3>3. wrong \in Nat
        BY DEF ThrottleIInv, LockInv
      <3> DEFINE c == Status.count + 1
      <3>4. c \in Nat /\ c <= wrong' /\ wrong' \in Nat
        BY <2>2, <3>1, <3>3
      <3>5. failures'.count = c /\ failures'.lockedUntil = IF c >= MaxFailures THEN now + LockoutMs ELSE 0
        BY <3>2
      <3>6. failures' \in [count : Nat, lockedUntil : Nat]
        BY <1>0, <3>2, <3>4
      <3> HIDE DEF c
      <3> QED BY <1>0, <3>4, <3>5, <3>6 DEF LockInv
    <2> QED BY <1>0, <1>4, <2>1, <2>3, <2>4, QuietLimiters DEF WrongPassword
  <1>5. CASE RightPassword(a)
    <2> DEFINE ip == attempt[a].ip
    <2>1. ip \in Addresses
      BY DEF ThrottleIInv, ThrottleTypeOK, Logins
    <2>2. ThrottleTypeOK'
      <3>1. NoWindow \in Window /\ <<>> \in Seq(Nat)
        BY DEF NoWindow, Window
      <3>2. attempt' \in [Attempts -> Logins]
        BY <1>5 DEF RightPassword, ThrottleIInv, ThrottleTypeOK, Logins
      <3> QED BY <1>5, <2>1, <3>1, <3>2 DEF RightPassword, ThrottleIInv, ThrottleTypeOK
    <2>3. LockInv'
      BY <1>5 DEF RightPassword, LockInv, NoFailures, Locked
    <2>4. ASSUME NEW i \in Addresses
          PROVE  Limiter(admitted'[i], windows'[i], now') /\ Bursts(admitted'[i])
      <3>1. CASE i = ip
        BY <1>0, <1>5, <3>1, NothingLetThrough DEF RightPassword, ThrottleIInv, ThrottleTypeOK
      <3>2. CASE i # ip
        BY <1>5, <3>2 DEF RightPassword, ThrottleIInv, ThrottleTypeOK
      <3> QED BY <3>1, <3>2
    <2> QED BY <2>2, <2>3, <2>4 DEF ThrottleIInv
  <1> QED BY <1>1, <1>2, <1>3, <1>4, <1>5

\* Every step of the limiters and the login guard.
LEMMA ThrottleStep == ThrottleIInv /\ [ThrottleNext]_throttleVars => ThrottleIInv'
  <1> SUFFICES ASSUME ThrottleIInv, [ThrottleNext]_throttleVars PROVE ThrottleIInv'
    OBVIOUS
  <1>1. now \in Nat /\ now > 0 /\ attempt \in [Attempts -> Logins]
    BY DEF ThrottleIInv, ThrottleTypeOK
  <1>2. CASE Tick
    <2>1. LockInv'
      BY <1>1, <1>2 DEF Tick, ThrottleIInv, LockInv, Locked
    <2> QED BY <1>1, <1>2, <2>1, QuietLimiters DEF Tick
  <1>3. CASE UNCHANGED throttleVars
    <2>1. LockInv'
      BY <1>3 DEF throttleVars, ThrottleIInv, LockInv, Locked
    <2> QED BY <1>1, <1>3, <2>1, QuietLimiters DEF throttleVars
  <1> QED BY <1>2, <1>3, LoginStep DEF ThrottleNext

\* What the invariant says of them is what they promise.
LEMMA ThrottleInvHolds == ThrottleIInv => ThrottleInv
  <1> SUFFICES ASSUME ThrottleIInv PROVE ThrottleInv
    OBVIOUS
  <1>1. BurstBounded
    <2> SUFFICES ASSUME NEW ip \in Addresses, NEW t \in 1 .. MaxTime
        PROVE Cardinality({i \in DOMAIN admitted[ip] :
                       t <= admitted[ip][i] /\ admitted[ip][i] < t + WindowMs}) <= 2 * Limit
      BY DEF BurstBounded
    <2>1. admitted[ip] \in Seq(Nat) /\ t \in Nat
      BY DEF ThrottleIInv, ThrottleTypeOK
    <2>2. {i \in DOMAIN admitted[ip] : t <= admitted[ip][i] /\ admitted[ip][i] < t + WindowMs}
            = At(admitted[ip], Between(t, t + WindowMs))
      BY <2>1 DEF At, Between
    <2> QED BY <2>1, <2>2 DEF ThrottleIInv, Bursts
  <1>2. LockedForCause
    BY ThrottlesAssumption DEF ThrottleIInv, ThrottleTypeOK, LockInv, LockedForCause, Locked
  <1> QED BY <1>1, <1>2 DEF ThrottleInv

\* Neither the passwords of a name nor the codes of a number can be guessed
\* faster than the limits allow, for any number of attempts, addresses and
\* codes and any lengths of windows, locks and lives: in an interval as long
\* as a window at most twice the limit gets through, a lock stands for that
\* many mistakes, and a proof of phone for one code, used in time
\* (rateLimit.ts, otpService.ts).
THEOREM LimitsInvAlways == ThrottleSpec /\ OtpSpec => []LimitsInv
  <1>1. ThrottleSpec => []ThrottleInv
    BY ThrottleStarts, ThrottleStep, ThrottleInvHolds, PTL DEF ThrottleSpec
  <1>2. ThrottleInv /\ OtpInv => LimitsInv
    BY DEF LimitsInv
  <1> QED BY <1>1, <1>2, OtpInvAlways, PTL

-----------------------------------------------------------------------------
(* The relay.                                                              *)

Item == [contract : Nat, answered : BOOLEAN, officers : SUBSET Nat]

OfficerPcs == {"load", "wait", "check", "send", "ok", "reverted", "refused", "unavailable"}
CreatePcs == {"load", "wait", "store", "loadAgain", "waitAgain", "send", "ok", "unassigned", "refused", "unavailable"}

RelayCall == [kind : {"none", "officer", "create"}, pc : {"idle"} \cup OfficerPcs \cup CreatePcs,
              division : Nat, target : Nat, key : Nat, list : Seq(Item), usable : BOOLEAN]

RelayTypeOK ==
    /\ moment \in Nat \ {0} /\ deployed \in 0 .. MaxContracts /\ generated \in Nat
    /\ registry \in Seq(Nat) /\ cookie \in Nat /\ ready \in 0 .. moment /\ clearedAt \in 0 .. moment
    /\ gnOfficers \in [Contracts -> SUBSET Nat]
    /\ account \in [key : Nat, division : Nat, disabled : BOOLEAN]
    /\ cache \in [list : Seq(Item), expiresAt : Nat]
    /\ reading \in [stage : {"none", "list", "officers"}, list : Seq(Nat), since : Nat]
    /\ call \in [RelayCalls -> RelayCall]

\* Contracts and keys are those there are; no contract is listed twice; the
\* officer may write whenever a moment is kept since when.
ChainInv ==
    /\ \A i \in DOMAIN registry : registry[i] \in 1 .. deployed
    /\ \A i, j \in DOMAIN registry : registry[i] = registry[j] => i = j
    /\ \A k \in Contracts : \A key \in gnOfficers[k] : key <= generated
    /\ account.key <= generated
    /\ ready # 0 => MayWrite

\* A contract that is still registered is registered where it was.
Placed(contract, i) ==
    contract \in {registry[j] : j \in DOMAIN registry} => i \in DOMAIN registry /\ registry[i] = contract

ListInv(L) ==
    \A i \in DOMAIN L :
        /\ L[i].contract <= deployed /\ Placed(L[i].contract, i)
        /\ \A key \in L[i].officers : key <= generated

\* What a list of which the reading began at moment b still says truly: the
\* divisions, unless they were cleared since, and the officer's own.
Kept(L, b) ==
    /\ clearedAt < b => \A i \in DOMAIN L : i \in DOMAIN registry /\ registry[i] = L[i].contract
    /\ ready # 0 /\ ready < b =>
          /\ cookie \in DOMAIN L /\ L[cookie].contract = registry[cookie]
          /\ L[cookie].answered => account.key \in L[cookie].officers

CacheInv ==
    /\ ListInv(cache.list) /\ cache.expiresAt <= moment + TTL
    /\ Kept(cache.list, cache.expiresAt - TTL - MaxRead)

ReadingInv ==
    /\ reading.stage = "none" => reading = NoReading
    /\ reading.stage # "none" => reading.since <= moment /\ moment <= reading.since + MaxRead
    /\ reading.stage = "officers" =>
          /\ \A i \in DOMAIN reading.list : reading.list[i] \in 1 .. deployed /\ Placed(reading.list[i], i)
          /\ clearedAt < reading.since =>
                \A i \in DOMAIN reading.list : i \in DOMAIN registry /\ registry[i] = reading.list[i]
          /\ ready # 0 /\ ready < reading.since =>
                cookie \in DOMAIN reading.list /\ reading.list[cookie] = registry[cookie]

\* An account that could not be used when the list came is not usable, or has
\* a key of which the list does not know.
SignedInv(q) ==
    q.kind = "officer" =>
        /\ q.pc \in OfficerPcs
        /\ q.pc = "check" /\ ~q.usable =>
              ~Usable \/ \A i \in DOMAIN q.list : account.key \notin q.list[i].officers
        /\ q.pc \in {"send", "ok", "reverted"} => q.usable

AssignInv(q) ==
    q.kind = "create" =>
        /\ q.pc \in CreatePcs /\ q.key <= generated
        /\ q.pc \in {"loadAgain", "waitAgain", "send"} => q.target <= deployed /\ Placed(q.target, q.division)

CallInv(q) ==
    /\ ListInv(q.list)
    /\ q.pc \in {"check", "store", "send"} => Kept(q.list, moment - TTL - MaxRead + 1)
    /\ SignedInv(q)
    /\ AssignInv(q)

RelayIInv ==
    /\ RelayTypeOK /\ ChainInv /\ CacheInv /\ ReadingInv
    /\ \A c \in RelayCalls : CallInv(call[c])

\* What the invariant says of the single variables.
LEMMA RelayParts ==
    ASSUME RelayIInv
    PROVE  /\ moment \in Nat \ {0} /\ deployed \in Nat /\ generated \in Nat /\ ready \in Nat /\ clearedAt \in Nat
           /\ ready <= moment /\ clearedAt <= moment /\ cookie \in Nat /\ account.key \in Nat
           /\ account \in [key : Nat, division : Nat, disabled : BOOLEAN]
           /\ registry \in Seq(Nat) /\ Len(registry) \in Nat /\ DOMAIN registry = 1 .. Len(registry)
           /\ \A i \in DOMAIN registry : registry[i] \in Nat /\ registry[i] <= deployed
           /\ cache.list \in Seq(Item) /\ cache.expiresAt \in Nat
           /\ reading.list \in Seq(Nat) /\ reading.since \in Nat
           /\ \A c \in RelayCalls : call[c] \in RelayCall /\ CallInv(call[c])
           /\ TTL \in Nat \ {0} /\ MaxRead \in Nat \ {0}
  BY RelayAssumption DEF RelayIInv, RelayTypeOK, ChainInv

\* What it says of the numbers.
LEMMA RelayNumbers ==
    ASSUME RelayIInv
    PROVE  /\ moment \in Nat /\ moment # 0 /\ deployed \in Nat /\ generated \in Nat /\ ready \in Nat /\ clearedAt \in Nat
           /\ ready <= moment /\ clearedAt <= moment /\ account.key \in Nat
           /\ cache.expiresAt \in Nat /\ reading.since \in Nat
           /\ TTL \in Nat /\ MaxRead \in Nat /\ TTL # 0 /\ MaxRead # 0
  BY RelayParts

\* The contracts of the registry are numbers.
LEMMA RegistryType ==
    ASSUME RelayIInv, NEW i \in DOMAIN registry
    PROVE  registry[i] \in Nat /\ registry[i] <= deployed /\ i \in Nat
  BY RelayParts

\* What a step may do to that which the lists are about: the divisions grow,
\* by contracts that were not there, or are cleared now; the officer may
\* write from now on, or as before, or no longer.
Grow ==
    \/ clearedAt' = moment
    \/ clearedAt' = clearedAt /\ \A i \in DOMAIN registry : i \in DOMAIN registry' /\ registry'[i] = registry[i]

SameOfficer ==
    /\ cookie' = cookie /\ account'.key = account.key
    /\ cookie \in DOMAIN registry /\ cookie \in DOMAIN registry' /\ registry'[cookie] = registry[cookie]

Steady ==
    /\ moment' \in Nat /\ moment' >= moment
    /\ deployed' \in Nat /\ deployed' >= deployed /\ generated' \in Nat /\ generated' >= generated
    /\ clearedAt' \in Nat /\ ready' \in Nat
    /\ Grow
    /\ \A i \in DOMAIN registry' : registry'[i] > deployed \/ (i \in DOMAIN registry /\ registry'[i] = registry[i])
    /\ ready' = 0 \/ ready' = moment \/ (ready' = ready /\ SameOfficer)

\* The account is not changed, or cannot be used, or has a new key.
Calm == account' = account \/ ~Usable' \/ account'.key > generated

\* A contract stays where it is registered, or leaves.
LEMMA PlacedStays ==
    ASSUME RelayIInv, Steady, NEW contract \in Nat, contract <= deployed, NEW i \in Nat, Placed(contract, i)
    PROVE  Placed(contract, i)'
  <1> SUFFICES ASSUME NEW j \in DOMAIN registry', registry'[j] = contract
               PROVE  i \in DOMAIN registry' /\ registry'[i] = contract
    BY DEF Placed
  <1>1. j \in DOMAIN registry /\ registry[j] = contract
    <2>1. registry'[j] > deployed \/ (j \in DOMAIN registry /\ registry'[j] = registry[j])
      BY DEF Steady
    <2>2. ~(contract > deployed)
      BY RelayNumbers
    <2> QED BY <2>1, <2>2
  <1>2. i \in DOMAIN registry /\ registry[i] = contract
    BY <1>1 DEF Placed
  <1>3. i = j
    BY <1>1, <1>2 DEF RelayIInv, ChainInv
  <1> QED BY <1>3

\* What is known of an entry of a list.
LEMMA ItemsType ==
    ASSUME NEW L \in Seq(Item), NEW i \in DOMAIN L
    PROVE  /\ i \in Nat /\ L[i] \in Item /\ L[i].contract \in Nat /\ L[i].answered \in BOOLEAN
           /\ L[i].officers \in SUBSET Nat
  <1>1. L[i] \in Item /\ i \in Nat
    OBVIOUS
  <1> QED BY <1>1 DEF Item

\* A list stays about contracts and keys there are.
LEMMA ListStays ==
    ASSUME RelayIInv, Steady, NEW L \in Seq(Item), ListInv(L)
    PROVE  ListInv(L)'
  <1> SUFFICES ASSUME NEW i \in DOMAIN L
               PROVE  /\ L[i].contract <= deployed' /\ Placed(L[i].contract, i)'
                      /\ \A key \in L[i].officers : key <= generated'
    BY DEF ListInv
  <1>1. /\ L[i].contract <= deployed /\ Placed(L[i].contract, i) /\ \A key \in L[i].officers : key <= generated
    BY DEF ListInv
  <1>2. Placed(L[i].contract, i)'
    <2>1. PICK k \in Nat : k = L[i].contract
      BY ItemsType
    <2>2. Placed(k, i)'
      BY <1>1, <2>1, ItemsType, PlacedStays
    <2> QED BY <2>1, <2>2
  <1>3. \A key \in L[i].officers : key \in Nat
    BY ItemsType
  <1>4. deployed' >= deployed /\ deployed' \in Nat /\ generated' >= generated /\ generated' \in Nat
    BY DEF Steady
  <1>5. L[i].contract \in Nat
    BY ItemsType
  <1> QED BY <1>1, <1>2, <1>3, <1>4, <1>5, RelayNumbers

\* What a list kept, it keeps: what has changed since is dated.
LEMMA KeptStays ==
    ASSUME RelayIInv, Steady, NEW L \in Seq(Item), NEW b \in Int, b <= moment, Kept(L, b)
    PROVE  Kept(L, b)'
  <1>1. ASSUME clearedAt' < b, NEW i \in DOMAIN L PROVE i \in DOMAIN registry' /\ registry'[i] = L[i].contract
    <2>1. clearedAt' = clearedAt /\ \A j \in DOMAIN registry : j \in DOMAIN registry' /\ registry'[j] = registry[j]
      <3>1. Grow
        BY DEF Steady
      <3>2. clearedAt' # moment
        BY <1>1, RelayNumbers
      <3> QED BY <3>1, <3>2 DEF Grow
    <2> QED BY <1>1, <2>1 DEF Kept
  <1>2. ASSUME ready' # 0, ready' < b
        PROVE  /\ cookie' \in DOMAIN L /\ L[cookie'].contract = registry'[cookie']
               /\ L[cookie'].answered => account'.key \in L[cookie'].officers
    <2>1. ready' = ready /\ SameOfficer
      BY <1>2, RelayNumbers DEF Steady
    <2> QED BY <1>2, <2>1 DEF Kept, SameOfficer
  <1> QED BY <1>1, <1>2 DEF Kept

\* An older list says less.
LEMMA KeptEarlier ==
    ASSUME RelayIInv, NEW L, NEW b \in Int, NEW a \in Int, a <= b, Kept(L, b)
    PROVE  Kept(L, a)
  BY RelayParts DEF Kept

\* The list kept and the one being read stay true.
LEMMA ListsStay ==
    ASSUME RelayIInv, Steady, UNCHANGED listVars,
           reading.stage # "none" => moment' <= reading.since + MaxRead
    PROVE  CacheInv' /\ ReadingInv'
  <1>0. CacheInv /\ ReadingInv /\ cache' = cache /\ reading' = reading
    BY DEF RelayIInv, listVars
  <1>1. CacheInv'
    <2> PICK L \in Seq(Item) : L = cache.list
      BY RelayParts
    <2> PICK b \in Int : b = cache.expiresAt - TTL - MaxRead
      BY RelayParts
    <2>0. ListInv(L) /\ Kept(L, b) /\ b <= moment
      BY <1>0, RelayNumbers DEF CacheInv
    <2>1. ListInv(L)' /\ Kept(L, b)'
      BY <2>0, ListStays, KeptStays
    <2>2. cache'.expiresAt <= moment' + TTL
      <3>1. moment' \in Nat /\ moment' >= moment
        BY DEF Steady
      <3>2. cache.expiresAt <= moment + TTL
        BY <1>0 DEF CacheInv
      <3> QED BY <1>0, <3>1, <3>2, RelayNumbers
    <2> QED BY <1>0, <2>1, <2>2 DEF CacheInv
  <1>2. ReadingInv'
    <2>1. ASSUME reading.stage = "officers", NEW i \in DOMAIN reading.list
          PROVE  reading.list[i] \in 1 .. deployed' /\ Placed(reading.list[i], i)'
      <3>1. reading.list[i] \in Nat /\ i \in Nat
        <4>1. reading.list \in Seq(Nat)
          BY RelayParts
        <4> QED BY <4>1
      <3>2. PICK k \in Nat : k = reading.list[i]
        BY <3>1
      <3>3. k \in 1 .. deployed /\ k <= deployed /\ Placed(k, i)
        BY <1>0, <2>1, <3>2, RelayNumbers DEF ReadingInv
      <3>4. Placed(k, i)'
        BY <3>1, <3>3, PlacedStays
      <3>5. k \in 1 .. deployed'
        BY <3>3, RelayNumbers DEF Steady
      <3> QED BY <1>0, <3>2, <3>4, <3>5
    <2>2. ASSUME reading.stage = "officers", clearedAt' < reading.since, NEW i \in DOMAIN reading.list
          PROVE  i \in DOMAIN registry' /\ registry'[i] = reading.list[i]
      <3>1. clearedAt' = clearedAt /\ \A j \in DOMAIN registry : j \in DOMAIN registry' /\ registry'[j] = registry[j]
        BY <1>0, <2>2, RelayNumbers DEF Steady, Grow, ReadingInv
      <3> QED BY <1>0, <2>2, <3>1 DEF ReadingInv
    <2>3. ASSUME reading.stage = "officers", ready' # 0, ready' < reading.since
          PROVE  cookie' \in DOMAIN reading.list /\ reading.list[cookie'] = registry'[cookie']
      <3>1. ready' = ready /\ SameOfficer
        BY <1>0, <2>3, RelayNumbers DEF Steady, ReadingInv
      <3> QED BY <1>0, <2>3, <3>1 DEF ReadingInv, SameOfficer
    <2>4. reading.stage # "none" => reading.since <= moment'
      <3>1. moment' \in Nat /\ moment' >= moment
        BY DEF Steady
      <3>2. reading.stage # "none" => reading.since <= moment
        BY <1>0 DEF ReadingInv
      <3> QED BY <3>1, <3>2, RelayNumbers
    <2>6. \A i \in DOMAIN reading'.list : reading'.stage = "officers" =>
             reading'.list[i] \in 1 .. deployed' /\ Placed(reading.list[i], i)'
      BY <1>0, <2>1
    <2> QED BY <1>0, <2>2, <2>3, <2>4, <2>6 DEF ReadingInv
  <1> QED BY <1>1, <1>2

\* What is known of a request.
LEMMA CallTypes ==
    ASSUME NEW q \in RelayCall
    PROVE  /\ q.list \in Seq(Item) /\ q.division \in Nat /\ q.target \in Nat /\ q.key \in Nat /\ q.usable \in BOOLEAN
           /\ q.kind \in {"none", "officer", "create"} /\ q.pc \in {"idle"} \cup OfficerPcs \cup CreatePcs
  BY DEF RelayCall

\* A request stays as true as its list.
LEMMA CallStays ==
    ASSUME RelayIInv, Steady, UNCHANGED moment, NEW q \in RelayCall, CallInv(q), Calm \/ q.usable
    PROVE  CallInv(q)'
  <1>1. ListInv(q.list)'
    BY ListStays, CallTypes DEF CallInv
  <1>2. ASSUME q.pc \in {"check", "store", "send"} PROVE Kept(q.list, moment - TTL - MaxRead + 1)'
    <2> PICK b \in Int : b = moment - TTL - MaxRead + 1
      BY RelayParts
    <2>1. Kept(q.list, b) /\ b <= moment
      BY <1>2, RelayNumbers DEF CallInv
    <2>2. Kept(q.list, b)'
      BY <2>1, KeptStays, CallTypes
    <2> QED BY <2>2
  <1>3. SignedInv(q)'
    <2>1. ASSUME q.kind = "officer", q.pc = "check", ~q.usable
          PROVE  ~Usable' \/ \A i \in DOMAIN q.list : account'.key \notin q.list[i].officers
      <3>1. ASSUME account'.key > generated, NEW i \in DOMAIN q.list PROVE account'.key \notin q.list[i].officers
        <4>1. \A key \in q.list[i].officers : key \in Nat /\ key <= generated
          BY CallTypes, ItemsType DEF CallInv, ListInv
        <4> QED BY <3>1, <4>1, RelayParts
      <3>2. CASE account' = account
        BY <2>1, <3>2 DEF CallInv, SignedInv, Usable
      <3> QED BY <2>1, <3>1, <3>2 DEF Calm
    <2> QED BY <2>1 DEF CallInv, SignedInv
  <1>4. AssignInv(q)'
    <2> SUFFICES ASSUME q.kind = "create" PROVE AssignInv(q)'
      BY DEF AssignInv
    <2>1. /\ q.pc \in CreatePcs /\ q.key <= generated
          /\ q.pc \in {"loadAgain", "waitAgain", "send"} => q.target <= deployed /\ Placed(q.target, q.division)
      BY DEF CallInv, AssignInv
    <2>2. q.pc \in {"loadAgain", "waitAgain", "send"} => Placed(q.target, q.division)'
      BY <2>1, PlacedStays, CallTypes
    <2>3. q.key <= generated' /\ (q.target <= deployed => q.target <= deployed')
      <3>1. /\ deployed' >= deployed /\ deployed' \in Nat /\ generated' >= generated /\ generated' \in Nat
            /\ q.key \in Nat /\ q.target \in Nat
        BY CallTypes DEF Steady
      <3> QED BY <2>1, <3>1, RelayNumbers
    <2> QED BY <2>1, <2>2, <2>3 DEF AssignInv
  <1> QED BY <1>1, <1>2, <1>3, <1>4 DEF CallInv

\* Steps that leave the chain, the account and the session alone.
Quiet == UNCHANGED <<moment, chainVars, serverVars, ready>>

\* Such a step changes nothing lists are about.
LEMMA QuietSteady == ASSUME RelayIInv, Quiet PROVE Steady /\ Calm /\ ChainInv'
  <1>1. ready # 0 => cookie \in DOMAIN registry
    BY DEF RelayIInv, ChainInv, MayWrite
  <1>2. /\ UNCHANGED <<moment, registry, deployed, gnOfficers, clearedAt, account, generated, cookie, ready>>
    BY DEF Quiet, chainVars, serverVars
  <1>3. Steady
    <2>1. Grow
      BY <1>2 DEF Grow
    <2>2. ready' = 0 \/ (ready' = ready /\ SameOfficer)
      BY <1>1, <1>2 DEF SameOfficer
    <2>3. \A i \in DOMAIN registry' : i \in DOMAIN registry /\ registry'[i] = registry[i]
      BY <1>2
    <2>4. /\ moment' \in Nat /\ moment' >= moment /\ deployed' \in Nat /\ deployed' >= deployed
          /\ generated' \in Nat /\ generated' >= generated /\ clearedAt' \in Nat /\ ready' \in Nat
      BY <1>2, RelayNumbers
    <2> QED BY <2>1, <2>2, <2>3, <2>4 DEF Steady
  <1> QED BY <1>2, <1>3 DEF Calm, RelayIInv, ChainInv, MayWrite, Usable

\* Such a step may change the lists and the requests.
LEMMA QuietStep ==
    ASSUME RelayIInv, Quiet, cache' \in [list : Seq(Item), expiresAt : Nat],
           reading' \in [stage : {"none", "list", "officers"}, list : Seq(Nat), since : Nat],
           call' \in [RelayCalls -> RelayCall], CacheInv', ReadingInv', \A c \in RelayCalls : CallInv(call[c])'
    PROVE  RelayIInv'
  <1>1. RelayTypeOK'
    BY DEF RelayIInv, RelayTypeOK, Quiet, chainVars, serverVars
  <1> QED BY <1>1, QuietSteady DEF RelayIInv

\* Such a step may move one request.
LEMMA CallMoves ==
    ASSUME RelayIInv, Quiet, NEW c \in RelayCalls, NEW q \in RelayCall, CallInv(q), call' = [call EXCEPT ![c] = q],
           UNCHANGED listVars
    PROVE  RelayIInv'
  <1>1. /\ call' \in [RelayCalls -> RelayCall] /\ call'[c] = q /\ \A d \in RelayCalls : d # c => call'[d] = call[d]
    BY DEF RelayIInv, RelayTypeOK
  <1>2. \A d \in RelayCalls : CallInv(call[d])'
    <2> SUFFICES ASSUME NEW d \in RelayCalls PROVE CallInv(call[d])'
      OBVIOUS
    <2>1. PICK p \in RelayCall : p = call'[d] /\ CallInv(p)
      BY <1>1, RelayParts
    <2>2. UNCHANGED moment
      BY DEF Quiet
    <2> QED BY <2>1, <2>2, CallStays, QuietSteady
  <1>3. CacheInv' /\ ReadingInv'
    <2>1. reading.stage # "none" => moment' <= reading.since + MaxRead
      BY DEF RelayIInv, ReadingInv, Quiet
    <2> QED BY <2>1, QuietSteady, ListsStay
  <1> QED BY <1>1, <1>2, <1>3, QuietStep DEF RelayIInv, RelayTypeOK, listVars

-----------------------------------------------------------------------------
(* Reading the list, and what a request does with it.                      *)

\* A request that is answered has no list any more.
LEMMA AnsweredInv ==
    ASSUME RelayIInv, NEW q \in RelayCall, NEW outcome \in {"ok", "reverted", "refused", "unavailable", "unassigned"},
           q.kind = "officer" => outcome # "unassigned" /\ (outcome \in {"ok", "reverted"} => q.usable),
           q.kind = "create" => outcome # "reverted"
    PROVE  RelayAnswered(q, outcome) \in RelayCall /\ CallInv(RelayAnswered(q, outcome))
  <1> DEFINE a == RelayAnswered(q, outcome)
  <1>1. /\ a.kind = q.kind /\ a.pc = outcome /\ a.list = <<>> /\ a.usable = q.usable /\ a.key = 0
        /\ a.division = 0 /\ a.target = 0
    BY DEF RelayAnswered, NoCall, None
  <1>2. a \in RelayCall
    <2>1. <<>> \in Seq(Item)
      OBVIOUS
    <2>2. /\ q.kind \in {"none", "officer", "create"} /\ q.usable \in BOOLEAN
          /\ outcome \in {"idle"} \cup OfficerPcs \cup CreatePcs
      BY CallTypes DEF OfficerPcs, CreatePcs
    <2>3. NoCall \in RelayCall
      BY <2>1 DEF NoCall, None, RelayCall
    <2> QED BY <2>2, <2>3 DEF RelayAnswered, RelayCall
  <1> HIDE DEF a
  <1>3. CallInv(a)
    BY <1>1, RelayNumbers DEF CallInv, ListInv, SignedInv, AssignInv, OfficerPcs, CreatePcs
  <1> QED BY <1>2, <1>3 DEF a

\* A request that is given a list that is fresh enough.
LEMMA GivenInv ==
    ASSUME RelayIInv, NEW q \in RelayCall, CallInv(q), q.pc \in {"load", "loadAgain", "wait", "waitAgain"},
           NEW L \in Seq(Item), ListInv(L), Kept(L, moment - TTL - MaxRead + 1)
    PROVE  Given(q, L) \in RelayCall /\ CallInv(Given(q, L))
  <1> DEFINE g == Given(q, L)
  <1>1. /\ g.kind = q.kind /\ g.list = L /\ g.usable = Usable /\ g.key = q.key /\ g.division = q.division
        /\ g.target = q.target /\ g.pc = AfterList(q.pc, q.kind)
    BY DEF Given, RelayCall
  <1>2. AfterList(q.pc, q.kind) \in {"send", "check", "store"}
    BY DEF AfterList
  <1>3. Usable \in BOOLEAN
    BY RelayParts DEF Usable, None
  <1>4. g \in RelayCall
    BY <1>2, <1>3, CallTypes DEF Given, RelayCall, OfficerPcs, CreatePcs
  <1> HIDE DEF g
  <1>5. SignedInv(g)
    BY <1>1 DEF CallInv, SignedInv, OfficerPcs, AfterList
  <1>6. AssignInv(g)
    BY <1>1 DEF CallInv, AssignInv, CreatePcs, AfterList
  <1>7. CallInv(g)
    BY <1>1, <1>5, <1>6 DEF CallInv
  <1> QED BY <1>4, <1>7 DEF g

\* The states of a request a list has nothing to do with.
LEMMA WaitInv ==
    ASSUME RelayIInv, NEW q \in RelayCall, CallInv(q), NEW state \in {"wait", "waitAgain"},
           q.pc = IF state = "wait" THEN "load" ELSE "loadAgain"
    PROVE  [q EXCEPT !.pc = state] \in RelayCall /\ CallInv([q EXCEPT !.pc = state])
  <1> DEFINE w == [q EXCEPT !.pc = state]
  <1>1. /\ w.kind = q.kind /\ w.list = q.list /\ w.key = q.key /\ w.division = q.division
        /\ w.target = q.target /\ w.pc = state
    BY DEF RelayCall
  <1>2. w \in RelayCall
    BY DEF RelayCall, OfficerPcs, CreatePcs
  <1> HIDE DEF w
  <1>3. SignedInv(w) /\ AssignInv(w)
    BY <1>1 DEF CallInv, SignedInv, AssignInv, OfficerPcs, CreatePcs
  <1>4. CallInv(w)
    BY <1>1, <1>3 DEF CallInv
  <1> QED BY <1>2, <1>4 DEF w

\* A request takes the list kept, or waits for one.
LEMMA LoadDivisionsInv == ASSUME RelayIInv, NEW c \in RelayCalls, LoadDivisions(c) PROVE RelayIInv'
  <1> PICK q \in RelayCall : q = call[c]
    BY RelayParts
  <1>0. /\ CallInv(q) /\ q.pc \in {"load", "loadAgain"} /\ CacheInv /\ ReadingInv
        /\ UNCHANGED <<moment, chainVars, serverVars, cache, ready>> /\ Quiet
    BY RelayParts DEF LoadDivisions, RelayIInv, Quiet
  <1>1. CASE cache.expiresAt > moment
    <2> PICK L \in Seq(Item) : L = cache.list
      BY RelayParts
    <2>1. call' = [call EXCEPT ![c] = Given(q, L)] /\ reading' = reading
      BY <1>1 DEF LoadDivisions, RelayIInv, RelayTypeOK
    <2>2. ListInv(L) /\ Kept(L, moment - TTL - MaxRead + 1)
      <3> PICK b \in Int : b = cache.expiresAt - TTL - MaxRead
        BY RelayNumbers
      <3> PICK a \in Int : a = moment - TTL - MaxRead + 1
        BY RelayNumbers
      <3>1. a <= b
        BY <1>1, RelayNumbers
      <3>2. Kept(L, b) /\ ListInv(L)
        BY <1>0 DEF CacheInv
      <3> QED BY <3>1, <3>2, KeptEarlier
    <2>3. Given(q, L) \in RelayCall /\ CallInv(Given(q, L))
      BY <1>0, <2>2, GivenInv
    <2> QED BY <1>0, <2>1, <2>3, CallMoves DEF listVars
  <1>2. CASE ~(cache.expiresAt > moment)
    <2> DEFINE state == IF q.pc = "load" THEN "wait" ELSE "waitAgain"
    <2>1. /\ call' = [call EXCEPT ![c] = [q EXCEPT !.pc = state]]
          /\ reading' = IF reading = NoReading THEN [stage |-> "list", list |-> <<>>, since |-> moment] ELSE reading
      BY <1>2 DEF LoadDivisions, RelayIInv, RelayTypeOK
    <2>2. [q EXCEPT !.pc = state] \in RelayCall /\ CallInv([q EXCEPT !.pc = state])
      BY <1>0, WaitInv
    <2> HIDE DEF state
    <2>3. CASE reading' = reading
      BY <1>0, <2>1, <2>2, <2>3, CallMoves DEF listVars
    <2>4. CASE reading' = [stage |-> "list", list |-> <<>>, since |-> moment]
      <3> PICK w \in RelayCall : w = [q EXCEPT !.pc = state]
        BY <2>2
      <3>1. RelayTypeOK
        BY DEF RelayIInv
      <3>2. /\ call' \in [RelayCalls -> RelayCall] /\ call'[c] = w /\ \A d \in RelayCalls : d # c => call'[d] = call[d]
        BY <2>1, <3>1 DEF RelayTypeOK
      <3>3. \A d \in RelayCalls : CallInv(call[d])'
        <4> SUFFICES ASSUME NEW d \in RelayCalls PROVE CallInv(call[d])'
          OBVIOUS
        <4>1. PICK p \in RelayCall : p = call'[d] /\ CallInv(p)
          BY <2>2, <3>2, RelayParts
        <4>2. UNCHANGED moment
          BY <1>0
        <4> QED BY <1>0, <4>1, <4>2, CallStays, QuietSteady
      <3>4. CacheInv'
        BY <1>0 DEF CacheInv, ListInv, Kept, Placed, chainVars, serverVars
      <3>5. ReadingInv' /\ reading' \in [stage : {"none", "list", "officers"}, list : Seq(Nat), since : Nat]
        BY <1>0, <2>4, RelayNumbers DEF ReadingInv
      <3>6. cache' \in [list : Seq(Item), expiresAt : Nat]
        BY <1>0, <3>1 DEF RelayTypeOK
      <3> QED BY <1>0, <3>2, <3>3, <3>4, <3>5, <3>6, QuietStep
    <2> QED BY <2>1, <2>3, <2>4
  <1> QED BY <1>1, <1>2

\* The divisions of a list are those of the registry.
LEMMA ReadListInv == ASSUME RelayIInv, ReadList PROVE RelayIInv'
  <1>0. /\ RelayTypeOK /\ ChainInv /\ CacheInv /\ ReadingInv /\ reading.stage = "list"
        /\ UNCHANGED <<moment, chainVars, serverVars, cache, call, ready>> /\ Quiet
    BY DEF ReadList, RelayIInv, Quiet
  <1>1. /\ reading'.stage = "officers" /\ reading'.list = registry /\ reading'.since = reading.since
        /\ reading' \in [stage : {"none", "list", "officers"}, list : Seq(Nat), since : Nat]
    BY <1>0 DEF ReadList, RelayTypeOK
  <1>2. ReadingInv'
    <2>1. \A i \in DOMAIN registry : registry[i] \in 1 .. deployed /\ Placed(registry[i], i)
      BY <1>0 DEF ChainInv, Placed
    <2>2. ready # 0 => cookie \in DOMAIN registry
      BY <1>0 DEF ChainInv, MayWrite
    <2>3. reading.since <= moment /\ moment <= reading.since + MaxRead
      BY <1>0 DEF ReadingInv
    <2>4. UNCHANGED <<moment, registry, deployed, clearedAt, cookie, account, ready>>
      BY <1>0 DEF chainVars, serverVars
    <2>5. \A i \in DOMAIN registry : Placed(registry[i], i)'
      BY <2>1, <2>4 DEF Placed
    <2>6. \A i \in DOMAIN reading'.list : reading'.list[i] \in 1 .. deployed' /\ Placed(reading.list[i], i)'
      BY <1>1, <2>1, <2>4, <2>5
    <2> QED BY <1>1, <2>2, <2>3, <2>4, <2>6 DEF ReadingInv
  <1>3. CacheInv' /\ \A c \in RelayCalls : CallInv(call[c])'
    <2>1. CacheInv'
      BY <1>0 DEF CacheInv, ListInv, Kept, Placed, chainVars, serverVars
    <2>2. ASSUME NEW d \in RelayCalls PROVE CallInv(call[d])'
      <3>1. PICK p \in RelayCall : p = call'[d] /\ CallInv(p)
        BY <1>0, RelayParts
      <3>2. UNCHANGED moment
        BY <1>0
      <3> QED BY <1>0, <3>1, <3>2, CallStays, QuietSteady
    <2> QED BY <2>1, <2>2
  <1> QED BY <1>0, <1>1, <1>2, <1>3, QuietStep DEF RelayTypeOK

\* Whoever waits is given the list when its officers are read.
LEMMA ReadOfficersInv == ASSUME RelayIInv, ReadOfficers PROVE RelayIInv'
  <1>0. /\ RelayTypeOK /\ ChainInv /\ ReadingInv /\ reading.stage = "officers"
        /\ UNCHANGED <<moment, chainVars, serverVars, ready>> /\ Quiet
    BY DEF ReadOfficers, RelayIInv, Quiet
  <1>1. PICK silent \in SUBSET {reading.list[i] : i \in DOMAIN reading.list} :
          LET list == [i \in DOMAIN reading.list |->
                          [contract |-> reading.list[i],
                           answered |-> reading.list[i] \notin silent,
                           officers |-> IF reading.list[i] \in silent THEN {}
                                        ELSE gnOfficers[reading.list[i]]]]
          IN  /\ cache' = [list |-> list, expiresAt |-> moment + TTL]
              /\ reading' = NoReading
              /\ call' = [c \in RelayCalls |-> IF Waiting(call[c]) THEN Given(call[c], list) ELSE call[c]]
    BY DEF ReadOfficers
  <1> DEFINE item(i) == [contract |-> reading.list[i],
                         answered |-> reading.list[i] \notin silent,
                         officers |-> IF reading.list[i] \in silent THEN {} ELSE gnOfficers[reading.list[i]]]
             list == [i \in DOMAIN reading.list |-> item(i)]
  <1>2. reading.list \in Seq(Nat)
    BY RelayParts
  <1>3. ASSUME NEW i \in DOMAIN reading.list
        PROVE  /\ i \in Nat /\ reading.list[i] \in 1 .. deployed /\ reading.list[i] \in Nat /\ reading.list[i] <= deployed
               /\ Placed(reading.list[i], i)
               /\ gnOfficers[reading.list[i]] \in SUBSET Nat /\ \A key \in gnOfficers[reading.list[i]] : key <= generated
    <2>1. i \in Nat /\ reading.list[i] \in 1 .. deployed /\ Placed(reading.list[i], i)
      BY <1>0, <1>2 DEF ReadingInv
    <2>2. reading.list[i] \in Contracts
      BY <1>0, <2>1, RelayAssumption DEF RelayTypeOK, Contracts
    <2> QED BY <1>0, <2>1, <2>2, RelayNumbers DEF RelayTypeOK, ChainInv
  <1>4. ASSUME NEW i \in DOMAIN reading.list
        PROVE  /\ item(i) \in Item /\ item(i).contract = reading.list[i]
               /\ \A key \in item(i).officers : key <= generated
               /\ item(i).answered => item(i).officers = gnOfficers[reading.list[i]]
    BY <1>3 DEF Item
  <1>5. DOMAIN list = DOMAIN reading.list /\ \A i \in DOMAIN reading.list : list[i] = item(i)
    OBVIOUS
  <1> HIDE DEF item
  <1>6. list \in Seq(Item)
    <2>1. Len(reading.list) \in Nat /\ DOMAIN reading.list = 1 .. Len(reading.list)
      BY <1>2
    <2>2. list \in [1 .. Len(reading.list) -> Item]
      BY <1>4, <2>1
    <2> HIDE DEF list
    <2> QED BY <2>1, <2>2
  <1> HIDE DEF list
  <1> PICK L \in Seq(Item) : L = list
    BY <1>6
  <1>7. ListInv(L)
    BY <1>3, <1>4, <1>5 DEF ListInv
  <1>8. Kept(L, reading.since)
    <2>1. ready # 0 => account.key \in gnOfficers[registry[cookie]]
      BY <1>0 DEF ChainInv, MayWrite
    <2> QED BY <1>0, <1>3, <1>4, <1>5, <2>1 DEF Kept, ReadingInv
  <1>9. reading.since <= moment /\ moment <= reading.since + MaxRead
    BY <1>0 DEF ReadingInv
  <1>10. Kept(L, moment - TTL - MaxRead + 1) /\ Kept(L, (moment + TTL) - TTL - MaxRead)
    <2> PICK a \in Int : a = moment - TTL - MaxRead + 1
      BY RelayNumbers
    <2> PICK b \in Int : b = (moment + TTL) - TTL - MaxRead
      BY RelayNumbers
    <2> PICK e \in Int : e = reading.since
      BY RelayNumbers
    <2>1. a <= e /\ b <= e
      <3>1. \A m, s, t, r \in Nat : t # 0 /\ m <= s + r => m - t - r + 1 <= s /\ (m + t) - t - r <= s
        OBVIOUS
      <3> QED BY <1>9, <3>1, RelayNumbers
    <2> QED BY <1>8, <2>1, KeptEarlier
  <1>11. /\ cache' = [list |-> L, expiresAt |-> moment + TTL] /\ reading' = NoReading
         /\ call' = [c \in RelayCalls |-> IF Waiting(call[c]) THEN Given(call[c], L) ELSE call[c]]
    BY <1>1 DEF list, item
  <1>12. \A c \in RelayCalls : call'[c] \in RelayCall /\ CallInv(call'[c])
    <2> SUFFICES ASSUME NEW c \in RelayCalls PROVE call'[c] \in RelayCall /\ CallInv(call'[c])
      OBVIOUS
    <2> PICK q \in RelayCall : q = call[c] /\ CallInv(q)
      BY RelayParts
    <2>1. CASE Waiting(q)
      <3>1. call'[c] = Given(q, L)
        BY <1>11, <2>1
      <3>2. q.pc \in {"wait", "waitAgain"}
        BY <2>1 DEF Waiting
      <3> QED BY <1>6, <1>7, <1>10, <3>1, <3>2, GivenInv
    <2>2. CASE ~Waiting(q)
      BY <1>11, <2>2
    <2> QED BY <2>1, <2>2
  <1>13. \A c \in RelayCalls : CallInv(call[c])'
    <2> SUFFICES ASSUME NEW d \in RelayCalls PROVE CallInv(call[d])'
      OBVIOUS
    <2>1. PICK p \in RelayCall : p = call'[d] /\ CallInv(p)
      BY <1>12
    <2>2. UNCHANGED moment
      BY <1>0
    <2> QED BY <1>0, <2>1, <2>2, CallStays, QuietSteady
  <1>14. call' \in [RelayCalls -> RelayCall]
    BY <1>11, <1>12
  <1>15. CacheInv'
    <2>1. cache'.list = L /\ cache'.expiresAt = moment + TTL
      BY <1>11
    <2>2. UNCHANGED <<moment, registry, deployed, gnOfficers, clearedAt, account, generated, cookie, ready>>
      BY <1>0 DEF chainVars, serverVars
    <2>3. ListInv(L)' /\ Kept(L, (moment + TTL) - TTL - MaxRead)'
      BY <1>7, <1>10, <2>2, RelayAssumption DEF ListInv, Kept, Placed
    <2>4. moment + TTL <= moment + TTL
      BY RelayNumbers
    <2> QED BY <2>1, <2>2, <2>3, <2>4 DEF CacheInv
  <1>16. ReadingInv' /\ reading' \in [stage : {"none", "list", "officers"}, list : Seq(Nat), since : Nat]
    BY <1>11 DEF ReadingInv, NoReading
  <1>17. cache' \in [list : Seq(Item), expiresAt : Nat]
    BY <1>6, <1>11, RelayNumbers
  <1> QED BY <1>0, <1>13, <1>14, <1>15, <1>16, <1>17, QuietStep

\* Whoever waits is turned away when the reading fails.
LEMMA ListReadFailsInv == ASSUME RelayIInv, ListReadFails PROVE RelayIInv'
  <1>0. /\ RelayTypeOK /\ UNCHANGED <<moment, chainVars, serverVars, cache, ready>> /\ Quiet /\ CacheInv
        /\ reading' = NoReading
        /\ call' = [c \in RelayCalls |-> IF Waiting(call[c]) THEN RelayAnswered(call[c], "unavailable") ELSE call[c]]
    BY DEF ListReadFails, RelayIInv, Quiet
  <1>1. \A c \in RelayCalls : call'[c] \in RelayCall /\ CallInv(call'[c])
    <2> SUFFICES ASSUME NEW c \in RelayCalls PROVE call'[c] \in RelayCall /\ CallInv(call'[c])
      OBVIOUS
    <2> PICK q \in RelayCall : q = call[c] /\ CallInv(q)
      BY RelayParts
    <2>1. call'[c] = IF Waiting(q) THEN RelayAnswered(q, "unavailable") ELSE q
      BY <1>0
    <2> QED BY <2>1, AnsweredInv
  <1>2. \A c \in RelayCalls : CallInv(call[c])'
    <2> SUFFICES ASSUME NEW d \in RelayCalls PROVE CallInv(call[d])'
      OBVIOUS
    <2>1. PICK p \in RelayCall : p = call'[d] /\ CallInv(p)
      BY <1>1
    <2>2. UNCHANGED moment
      BY <1>0
    <2> QED BY <1>0, <2>1, <2>2, CallStays, QuietSteady
  <1>3. CacheInv'
    BY <1>0 DEF CacheInv, ListInv, Kept, Placed, chainVars, serverVars
  <1>4. ReadingInv' /\ reading' \in [stage : {"none", "list", "officers"}, list : Seq(Nat), since : Nat]
    BY <1>0 DEF ReadingInv, NoReading
  <1>5. call' \in [RelayCalls -> RelayCall] /\ cache' \in [list : Seq(Item), expiresAt : Nat]
    BY <1>0, <1>1 DEF RelayTypeOK
  <1> QED BY <1>0, <1>2, <1>3, <1>4, <1>5, QuietStep

\* A request that begins has no list.
LEMMA StartCall ==
    ASSUME RelayIInv, Quiet, UNCHANGED listVars, NEW c \in RelayCalls, NEW kind \in {"officer", "create"},
           NEW division \in Nat, NEW target \in Nat,
           call' = [call EXCEPT ![c] = [NoCall EXCEPT !.kind = kind, !.pc = "load", !.division = division,
                                                      !.target = target]]
    PROVE  RelayIInv'
  <1> DEFINE q == [NoCall EXCEPT !.kind = kind, !.pc = "load", !.division = division, !.target = target]
  <1>1. NoCall \in RelayCall /\ q.kind = kind /\ q.pc = "load" /\ q.list = <<>> /\ q.key = 0
    BY DEF NoCall, None, RelayCall
  <1>2. q \in RelayCall
    BY <1>1 DEF RelayCall, OfficerPcs
  <1> HIDE DEF q
  <1>3. CallInv(q)
    BY <1>1, RelayNumbers DEF CallInv, ListInv, SignedInv, AssignInv, OfficerPcs, CreatePcs
  <1>4. call' = [call EXCEPT ![c] = q]
    BY DEF q
  <1> QED BY <1>2, <1>3, <1>4, CallMoves

\* An officer asks to have a device signed for.
LEMMA BeginInv == ASSUME RelayIInv, NEW c \in RelayCalls, NEW target \in 1 .. deployed, Begin(c, target) PROVE RelayIInv'
  <1>1. /\ call' = [call EXCEPT ![c] = [NoCall EXCEPT !.kind = "officer", !.pc = "load", !.division = cookie,
                                                      !.target = target]]
        /\ Quiet /\ UNCHANGED listVars
    BY DEF Begin, Quiet
  <1>2. cookie \in Nat /\ target \in Nat
    BY DEF RelayIInv, RelayTypeOK
  <1> QED BY <1>1, <1>2, StartCall

\* The administrator asks for an account.
LEMMA BeginCreateInv == ASSUME RelayIInv, NEW c \in RelayCalls, BeginCreate(c) PROVE RelayIInv'
  <1>1. PICK d \in Contracts :
          call' = [call EXCEPT ![c] = [NoCall EXCEPT !.kind = "create", !.pc = "load", !.division = d]]
    BY DEF BeginCreate
  <1>2. NoCall \in RelayCall /\ NoCall.target = 0
    BY DEF NoCall, None, RelayCall
  <1>3. [NoCall EXCEPT !.kind = "create", !.pc = "load", !.division = d]
          = [NoCall EXCEPT !.kind = "create", !.pc = "load", !.division = d, !.target = 0]
    BY <1>2 DEF RelayCall
  <1>4. d \in Nat /\ Quiet /\ UNCHANGED listVars
    BY DEF Contracts, BeginCreate, Quiet
  <1> QED BY <1>1, <1>3, <1>4, StartCall

\* A request is sent only for an account that can be used.
LEMMA CheckInv == ASSUME RelayIInv, NEW c \in RelayCalls, Check(c) PROVE RelayIInv'
  <1> PICK q \in RelayCall : q = call[c] /\ CallInv(q)
    BY RelayParts
  <1>0. /\ q.pc = "check" /\ Quiet /\ UNCHANGED listVars
        /\ call' = [call EXCEPT ![c] = IF Usable /\ Authorised(q) THEN [q EXCEPT !.pc = "send", !.key = account.key]
                                       ELSE RelayAnswered(q, "refused")]
    BY DEF Check, Quiet, RelayIInv, RelayTypeOK
  <1>1. CASE Usable /\ Authorised(q)
    <2> DEFINE s == [q EXCEPT !.pc = "send", !.key = account.key]
    <2>1. /\ s.kind = q.kind /\ s.pc = "send" /\ s.list = q.list /\ s.usable = q.usable
      BY DEF RelayCall
    <2>2. s \in RelayCall
      BY RelayNumbers DEF RelayCall, OfficerPcs
    <2> HIDE DEF s
    <2>3. q.kind # "create"
      BY <1>0 DEF CallInv, AssignInv, CreatePcs
    <2>4. q.kind = "officer" => q.usable
      <3>1. q.division \in DOMAIN q.list /\ account.key \in q.list[q.division].officers
        BY <1>1 DEF Authorised
      <3> QED BY <1>0, <1>1, <3>1 DEF CallInv, SignedInv
    <2>5. CallInv(s)
      BY <1>0, <2>1, <2>3, <2>4 DEF CallInv, SignedInv, AssignInv, OfficerPcs
    <2> QED BY <1>0, <1>1, <2>2, <2>5, CallMoves DEF s
  <1>2. CASE ~(Usable /\ Authorised(q))
    <2>1. RelayAnswered(q, "refused") \in RelayCall /\ CallInv(RelayAnswered(q, "refused"))
      BY AnsweredInv
    <2> QED BY <1>0, <1>2, <2>1, CallMoves
  <1> QED BY <1>1, <1>2

\* What the contract answers ends the request.
LEMMA SendAddVotersInv == ASSUME RelayIInv, NEW c \in RelayCalls, SendAddVoters(c) PROVE RelayIInv'
  <1> PICK q \in RelayCall : q = call[c] /\ CallInv(q)
    BY RelayParts
  <1>0. /\ q.pc = "send" /\ q.kind = "officer" /\ Quiet /\ UNCHANGED listVars
        /\ call' = [call EXCEPT ![c] = RelayAnswered(q, IF q.key \in gnOfficers[q.target] THEN "ok" ELSE "reverted")]
    BY DEF SendAddVoters, Quiet, RelayIInv, RelayTypeOK
  <1> PICK outcome \in {"ok", "reverted"} : outcome = IF q.key \in gnOfficers[q.target] THEN "ok" ELSE "reverted"
    OBVIOUS
  <1>1. q.usable
    BY <1>0 DEF CallInv, SignedInv
  <1>2. RelayAnswered(q, outcome) \in RelayCall /\ CallInv(RelayAnswered(q, outcome))
    BY <1>0, <1>1, AnsweredInv
  <1> QED BY <1>0, <1>2, CallMoves

\* An account under a name that is taken is refused.
LEMMA CreateRefusedInv == ASSUME RelayIInv, NEW c \in RelayCalls, CreateRefused(c) PROVE RelayIInv'
  <1> PICK q \in RelayCall : q = call[c] /\ CallInv(q)
    BY RelayParts
  <1>0. /\ Quiet /\ UNCHANGED listVars /\ call' = [call EXCEPT ![c] = RelayAnswered(q, "refused")]
    BY DEF CreateRefused, Quiet, RelayIInv, RelayTypeOK
  <1>1. RelayAnswered(q, "refused") \in RelayCall /\ CallInv(RelayAnswered(q, "refused"))
    BY AnsweredInv
  <1> QED BY <1>0, <1>1, CallMoves

-----------------------------------------------------------------------------
(* What the administrator and the officer do, and time.                    *)

\* Since when the officer may write.
LEMMA SinceInv ==
    ASSUME RelayIInv, Since, UNCHANGED moment, MayWrite /\ MayWrite' => SameOfficer
    PROVE  /\ ready' \in Nat /\ ready' \in 0 .. moment' /\ (ready' # 0 => MayWrite')
           /\ ready' = 0 \/ ready' = moment \/ (ready' = ready /\ SameOfficer)
  <1>1. CASE ~MayWrite'
    <2>1. ready' = 0
      BY <1>1 DEF Since
    <2> QED BY <1>1, <2>1, RelayNumbers
  <1>2. CASE MayWrite' /\ ready = 0
    <2>1. ready' = moment
      BY <1>2 DEF Since
    <2> QED BY <1>2, <2>1, RelayNumbers
  <1>3. CASE MayWrite' /\ ready # 0
    <2>1. ready' = ready
      BY <1>3 DEF Since
    <2>2. MayWrite
      BY <1>3 DEF RelayIInv, ChainInv
    <2> QED BY <1>3, <2>1, <2>2, RelayNumbers
  <1> QED BY <1>1, <1>2, <1>3

\* A step on the chain or the account leaves the lists alone.
LEMMA LoudCall ==
    ASSUME RelayIInv, Steady, UNCHANGED moment, UNCHANGED listVars, RelayTypeOK', ChainInv',
           \A c \in RelayCalls : CallInv(call[c])'
    PROVE  RelayIInv'
  <1>1. reading.stage # "none" => moment' <= reading.since + MaxRead
    BY DEF RelayIInv, ReadingInv
  <1> QED BY <1>1, ListsStay DEF RelayIInv

\* If it is calm it leaves the requests alone too.
LEMMA LoudStep ==
    ASSUME RelayIInv, Steady, Calm, UNCHANGED moment, UNCHANGED listVars, UNCHANGED call, RelayTypeOK', ChainInv'
    PROVE  RelayIInv'
  <1>1. \A c \in RelayCalls : CallInv(call[c])'
    <2> SUFFICES ASSUME NEW d \in RelayCalls PROVE CallInv(call[d])'
      OBVIOUS
    <2>1. PICK p \in RelayCall : p = call'[d] /\ CallInv(p)
      BY RelayParts
    <2> QED BY <2>1, CallStays
  <1> QED BY <1>1, LoudCall

\* The divisions are as they were.
SameDivisions == UNCHANGED <<moment, registry, deployed, clearedAt>>

\* A step on the account or the officers is steady.
LEMMA SameDivisionsSteady ==
    ASSUME RelayIInv, SameDivisions, generated' \in Nat, generated' >= generated, ready' \in Nat,
           ready' = 0 \/ ready' = moment \/ (ready' = ready /\ SameOfficer)
    PROVE  Steady
  <1>1. Grow /\ \A i \in DOMAIN registry' : i \in DOMAIN registry /\ registry'[i] = registry[i]
    BY DEF SameDivisions, Grow
  <1>2. /\ moment' \in Nat /\ moment' >= moment /\ deployed' \in Nat /\ deployed' >= deployed /\ clearedAt' \in Nat
    BY RelayNumbers DEF SameDivisions
  <1> QED BY <1>1, <1>2 DEF Steady

\* An account is stored with a key nobody knows.
LEMMA StoreAccountInv == ASSUME RelayIInv, NEW c \in RelayCalls, StoreAccount(c) PROVE RelayIInv'
  <1> PICK q \in RelayCall : q = call[c] /\ CallInv(q)
    BY RelayParts
  <1>0. /\ q.pc = "store" /\ q.division \in DOMAIN q.list /\ account = NoAccount
        /\ generated' = generated + 1
        /\ account' = [key |-> generated', division |-> q.division, disabled |-> FALSE]
        /\ UNCHANGED <<moment, chainVars, cookie, listVars>> /\ Since
        /\ SameDivisions /\ gnOfficers' = gnOfficers
    BY DEF StoreAccount, SameDivisions, chainVars
  <1> DEFINE s == [q EXCEPT !.pc = "loadAgain", !.key = generated', !.target = q.list[q.division].contract]
  <1>1. call' = [call EXCEPT ![c] = s]
    BY DEF StoreAccount, RelayIInv, RelayTypeOK
  <1>2. generated' \in Nat /\ generated' > generated /\ account'.key = generated'
    BY <1>0, RelayNumbers
  <1>3. ~MayWrite
    BY <1>0 DEF MayWrite, Usable, NoAccount, None
  <1>4. /\ ready' \in Nat /\ ready' \in 0 .. moment' /\ (ready' # 0 => MayWrite')
        /\ ready' = 0 \/ ready' = moment \/ (ready' = ready /\ SameOfficer)
    BY <1>0, <1>3, SinceInv
  <1>5. Steady
    <2>1. generated' >= generated
      BY <1>2, RelayNumbers
    <2> QED BY <1>0, <1>2, <1>4, <2>1, SameDivisionsSteady
  <1>6. Calm
    BY <1>2 DEF Calm
  <1>7. q.list \in Seq(Item) /\ q.division \in Nat /\ q.list[q.division] \in Item /\ q.list[q.division].contract \in Nat
    BY <1>0, CallTypes, ItemsType
  <1>8. /\ s.pc = "loadAgain" /\ s.kind = q.kind /\ s.key = generated' /\ s.target = q.list[q.division].contract
        /\ s.division = q.division /\ s.list = q.list
    BY DEF RelayCall
  <1>9. s \in RelayCall
    BY <1>2, <1>7 DEF RelayCall, CreatePcs
  <1>10. q.kind # "officer"
    BY <1>0 DEF CallInv, SignedInv, OfficerPcs
  <1> PICK w \in RelayCall : w = s
    BY <1>9
  <1> HIDE DEF s
  <1>11. CallInv(w)'
    <2>1. ListInv(w.list)'
      BY <1>5, <1>7, <1>8, ListStays DEF CallInv
    <2>2. PICK k \in Nat : k = w.target
      BY <1>7, <1>8
    <2>3. k <= deployed /\ Placed(k, q.division)
      BY <1>0, <1>8, <2>2 DEF CallInv, ListInv
    <2>4. Placed(k, q.division)' /\ k <= deployed'
      BY <1>0, <1>5, <1>7, <2>3, PlacedStays DEF SameDivisions
    <2>5. AssignInv(w)'
      BY <1>2, <1>8, <2>2, <2>4 DEF AssignInv, CreatePcs
    <2>6. SignedInv(w)'
      BY <1>8, <1>10 DEF SignedInv
    <2> QED BY <1>8, <2>1, <2>5, <2>6 DEF CallInv
  <1>12. /\ call' \in [RelayCalls -> RelayCall] /\ call'[c] = w /\ \A d \in RelayCalls : d # c => call'[d] = call[d]
    BY <1>1, <1>9 DEF RelayIInv, RelayTypeOK
  <1>13. \A d \in RelayCalls : CallInv(call[d])'
    <2> SUFFICES ASSUME NEW d \in RelayCalls PROVE CallInv(call[d])'
      OBVIOUS
    <2>1. CASE d = c
      BY <1>11, <1>12, <2>1
    <2>2. CASE d # c
      <3>1. PICK p \in RelayCall : p = call'[d] /\ CallInv(p)
        BY <1>12, <2>2, RelayParts
      <3> QED BY <1>0, <1>5, <1>6, <3>1, CallStays
    <2> QED BY <2>1, <2>2
  <1>14. RelayTypeOK'
    <2>1. account' \in [key : Nat, division : Nat, disabled : BOOLEAN]
      BY <1>0, <1>2, <1>7
    <2> QED BY <1>0, <1>2, <1>4, <1>12, <2>1 DEF RelayIInv, RelayTypeOK, chainVars, listVars
  <1>15. ChainInv'
    <2>1. \A k \in Contracts : \A key \in gnOfficers'[k] : key <= generated'
      <3>1. \A k \in Contracts : \A key \in gnOfficers[k] : key <= generated /\ key \in Nat
        BY DEF RelayIInv, RelayTypeOK, ChainInv
      <3> QED BY <1>0, <1>2, <3>1, RelayNumbers
    <2>2. account'.key <= generated'
      BY <1>2
    <2> QED BY <1>0, <1>4, <2>1, <2>2 DEF RelayIInv, ChainInv, SameDivisions
  <1> QED BY <1>0, <1>5, <1>13, <1>14, <1>15, LoudCall

\* The officers of a contract change by a key there is, or for the account's.
LEMMA OfficersChange ==
    ASSUME RelayIInv, gnOfficers' \in [Contracts -> SUBSET Nat],
           \A k \in Contracts : \A key \in gnOfficers'[k] : key <= generated, UNCHANGED <<account, generated, cookie>>,
           SameDivisions, UNCHANGED listVars, Since
    PROVE  Steady /\ Calm /\ ChainInv' /\ ready' \in 0 .. moment'
  <1>1. MayWrite => SameOfficer
    BY DEF MayWrite, SameOfficer, SameDivisions
  <1>2. /\ ready' \in Nat /\ ready' \in 0 .. moment' /\ (ready' # 0 => MayWrite')
        /\ ready' = 0 \/ ready' = moment \/ (ready' = ready /\ SameOfficer)
    BY <1>1, SinceInv DEF SameDivisions
  <1>3. Steady
    BY <1>2, RelayNumbers, SameDivisionsSteady
  <1>4. ChainInv'
    BY <1>2 DEF RelayIInv, ChainInv, SameDivisions
  <1> QED BY <1>2, <1>3, <1>4 DEF Calm

\* The assignment makes the key an officer of the division.
LEMMA SendAssignInv == ASSUME RelayIInv, NEW c \in RelayCalls, SendAssign(c) PROVE RelayIInv'
  <1> PICK q \in RelayCall : q = call[c] /\ CallInv(q)
    BY RelayParts
  <1> DEFINE known == \E i \in DOMAIN q.list : q.list[i].contract = q.target
             outcome == IF known THEN "ok" ELSE "unassigned"
  <1>0. /\ q.pc = "send" /\ q.kind = "create" /\ Since /\ SameDivisions /\ UNCHANGED <<account, generated, cookie>>
        /\ UNCHANGED listVars /\ UNCHANGED moment
    BY DEF SendAssign, SameDivisions, serverVars
  <1>1. /\ gnOfficers' = IF known THEN [gnOfficers EXCEPT ![q.target] = gnOfficers[q.target] \cup {q.key}] ELSE gnOfficers
        /\ call' = [call EXCEPT ![c] = RelayAnswered(q, outcome)]
    <2>1. CASE known
      BY <2>1 DEF SendAssign, RelayIInv, RelayTypeOK
    <2>2. CASE ~known
      BY <2>2 DEF SendAssign, RelayIInv, RelayTypeOK
    <2> QED BY <2>1, <2>2
  <1>2. q.target \in Nat /\ q.key \in Nat /\ q.key <= generated
    BY <1>0, CallTypes DEF CallInv, AssignInv
  <1>3. /\ gnOfficers' \in [Contracts -> SUBSET Nat]
        /\ \A k \in Contracts : \A key \in gnOfficers'[k] : key <= generated
    <2>1. /\ gnOfficers \in [Contracts -> SUBSET Nat]
          /\ \A k \in Contracts : \A key \in gnOfficers[k] : key <= generated
      BY DEF RelayIInv, RelayTypeOK, ChainInv
    <2>2. CASE known
      <3>1. gnOfficers' = [gnOfficers EXCEPT ![q.target] = gnOfficers[q.target] \cup {q.key}]
        BY <1>1, <2>2
      <3>2. \A k \in Contracts : gnOfficers'[k] \in {gnOfficers[k], gnOfficers[k] \cup {q.key}}
        BY <2>1, <3>1
      <3>3. gnOfficers' \in [Contracts -> SUBSET Nat]
        BY <1>2, <2>1, <3>1
      <3> QED BY <1>2, <2>1, <3>2, <3>3
    <2>3. CASE ~known
      BY <1>1, <2>1, <2>3
    <2> QED BY <2>2, <2>3
  <1>3a. Steady /\ Calm /\ ChainInv' /\ ready' \in 0 .. moment'
    BY <1>0, <1>3, OfficersChange
  <1> PICK w \in RelayCall : w = RelayAnswered(q, outcome) /\ CallInv(w)
    BY <1>0, AnsweredInv
  <1> HIDE DEF outcome
  <1>4. /\ call' \in [RelayCalls -> RelayCall] /\ \A d \in RelayCalls : call'[d] \in {w, call[d]}
    BY <1>1 DEF RelayIInv, RelayTypeOK
  <1>5. \A d \in RelayCalls : CallInv(call[d])'
    <2> SUFFICES ASSUME NEW d \in RelayCalls PROVE CallInv(call[d])'
      OBVIOUS
    <2>1. PICK p \in RelayCall : p = call'[d] /\ CallInv(p)
      BY <1>4, RelayParts
    <2> QED BY <1>0, <1>3a, <2>1, CallStays
  <1>6. RelayTypeOK'
    BY <1>0, <1>3, <1>3a, <1>4 DEF RelayIInv, RelayTypeOK, SameDivisions, listVars
  <1> QED BY <1>0, <1>3a, <1>5, <1>6, LoudCall

\* The owner makes the key an officer, or no longer one.
LEMMA SetOfficerInv ==
    ASSUME RelayIInv, NEW k \in Contracts, NEW b \in BOOLEAN, SetOfficer(k, b)
    PROVE  RelayIInv'
  <1> DEFINE keys == IF b THEN gnOfficers[k] \cup {account.key} ELSE gnOfficers[k] \ {account.key}
  <1>1. /\ gnOfficers' = [gnOfficers EXCEPT ![k] = keys] /\ SameDivisions /\ UNCHANGED <<account, generated, cookie>>
        /\ UNCHANGED listVars /\ UNCHANGED call /\ UNCHANGED moment /\ Since
    BY DEF SetOfficer, SameDivisions, serverVars
  <1>2. /\ gnOfficers \in [Contracts -> SUBSET Nat]
        /\ \A j \in Contracts : \A key \in gnOfficers[j] : key <= generated
        /\ account.key \in Nat /\ account.key <= generated
    BY DEF RelayIInv, RelayTypeOK, ChainInv
  <1>3. keys \in SUBSET Nat /\ \A key \in keys : key <= generated
    BY <1>2
  <1> HIDE DEF keys
  <1>4. /\ gnOfficers' \in [Contracts -> SUBSET Nat]
        /\ \A j \in Contracts : \A key \in gnOfficers'[j] : key <= generated
    BY <1>1, <1>2, <1>3
  <1>5. Steady /\ Calm /\ ChainInv' /\ ready' \in 0 .. moment'
    BY <1>1, <1>4, OfficersChange
  <1>6. RelayTypeOK'
    BY <1>1, <1>4, <1>5 DEF RelayIInv, RelayTypeOK, SameDivisions, listVars
  <1> QED BY <1>1, <1>5, <1>6, LoudStep

\* The account is disabled, enabled or removed.
LEMMA AccountChange ==
    ASSUME RelayIInv, NEW a \in [key : Nat, division : Nat, disabled : BOOLEAN], account' = a, a.key <= generated,
           MayWrite /\ MayWrite' => a.key = account.key, cookie' \in Nat, MayWrite => cookie' = cookie,
           UNCHANGED generated, UNCHANGED moment, UNCHANGED chainVars, UNCHANGED listVars, Since
    PROVE  /\ Steady /\ ChainInv' /\ ready' \in 0 .. moment'
  <1>1. MayWrite /\ MayWrite' => SameOfficer
    BY DEF MayWrite, SameOfficer, chainVars
  <1>2. /\ ready' \in Nat /\ ready' \in 0 .. moment' /\ (ready' # 0 => MayWrite')
        /\ ready' = 0 \/ ready' = moment \/ (ready' = ready /\ SameOfficer)
    BY <1>1, SinceInv
  <1>3. SameDivisions
    BY DEF SameDivisions, chainVars
  <1>4. Steady
    BY <1>2, <1>3, RelayNumbers, SameDivisionsSteady
  <1>5. ChainInv'
    BY <1>2, <1>3 DEF RelayIInv, ChainInv, SameDivisions, chainVars
  <1> QED BY <1>2, <1>4, <1>5

\* An account that is enabled again was usable to all who wait.
LEMMA SetDisabledInv == ASSUME RelayIInv, NEW b \in BOOLEAN, SetDisabled(b) PROVE RelayIInv'
  <1> DEFINE a == [account EXCEPT !.disabled = b]
  <1>1. /\ account' = a /\ UNCHANGED <<generated, cookie>> /\ UNCHANGED chainVars /\ UNCHANGED listVars
        /\ UNCHANGED moment /\ Since
        /\ call' = [c \in RelayCalls |-> [call[c] EXCEPT !.usable = call[c].usable \/ ~b]]
    BY DEF SetDisabled
  <1>2. a \in [key : Nat, division : Nat, disabled : BOOLEAN] /\ a.key = account.key /\ a.disabled = b /\ a.key <= generated
    BY DEF RelayIInv, RelayTypeOK, ChainInv
  <1> PICK a0 \in [key : Nat, division : Nat, disabled : BOOLEAN] : a0 = a
    BY <1>2
  <1> HIDE DEF a
  <1>3. cookie' \in Nat
    BY <1>1 DEF RelayIInv, RelayTypeOK
  <1>4. Steady /\ ChainInv' /\ ready' \in 0 .. moment'
    BY <1>1, <1>2, <1>3, AccountChange
  <1>5. b => Calm
    BY <1>1, <1>2 DEF Calm, Usable
  <1>6. ASSUME NEW d \in RelayCalls PROVE call'[d] \in RelayCall /\ CallInv(call[d])'
    <2> PICK q \in RelayCall : q = call[d] /\ CallInv(q)
      BY RelayParts
    <2> DEFINE s == [q EXCEPT !.usable = q.usable \/ ~b]
    <2>1. /\ s \in RelayCall /\ s.kind = q.kind /\ s.pc = q.pc /\ s.list = q.list /\ s.key = q.key
          /\ s.division = q.division /\ s.target = q.target /\ s.usable = (q.usable \/ ~b)
      BY CallTypes DEF RelayCall
    <2>2. call'[d] = s
      BY <1>1
    <2> PICK w \in RelayCall : w = s
      BY <2>1
    <2> HIDE DEF s
    <2>3. CallInv(w)
      BY <2>1 DEF CallInv, SignedInv, AssignInv
    <2>4. Calm \/ w.usable
      BY <1>5, <2>1
    <2>5. CallInv(w)'
      BY <1>1, <1>4, <2>3, <2>4, CallStays
    <2> QED BY <2>2, <2>5
  <1>7. call' \in [RelayCalls -> RelayCall]
    BY <1>1, <1>6
  <1>8. RelayTypeOK'
    BY <1>1, <1>2, <1>4, <1>7 DEF RelayIInv, RelayTypeOK, chainVars, listVars
  <1> QED BY <1>1, <1>4, <1>6, <1>8, LoudCall

\* An account that is removed is none.
LEMMA RemoveAccountInv == ASSUME RelayIInv, RemoveAccount PROVE RelayIInv'
  <1> PICK a \in [key : Nat, division : Nat, disabled : BOOLEAN] : a = NoAccount
    BY DEF NoAccount, None
  <1>1. /\ account' = a /\ UNCHANGED <<generated, cookie>> /\ UNCHANGED chainVars /\ UNCHANGED listVars
        /\ UNCHANGED moment /\ Since /\ UNCHANGED call
    BY DEF RemoveAccount
  <1>2. a.key = 0 /\ ~Usable' /\ ~MayWrite'
    BY <1>1 DEF NoAccount, None, Usable, MayWrite
  <1>3. cookie' \in Nat /\ a.key <= generated
    BY <1>1, <1>2, RelayNumbers DEF RelayIInv, RelayTypeOK
  <1>4. Steady /\ ChainInv' /\ ready' \in 0 .. moment' /\ Calm
    BY <1>1, <1>2, <1>3, AccountChange DEF Calm
  <1>5. RelayTypeOK'
    BY <1>1, <1>4 DEF RelayIInv, RelayTypeOK, chainVars, listVars
  <1> QED BY <1>1, <1>4, <1>5, LoudStep

\* The session is of the division of the account.
LEMMA SignInInv == ASSUME RelayIInv, SignIn PROVE RelayIInv'
  <1> PICK a \in [key : Nat, division : Nat, disabled : BOOLEAN] : a = account
    BY RelayParts
  <1>1. /\ account' = a /\ cookie' = account.division /\ UNCHANGED generated /\ UNCHANGED chainVars /\ UNCHANGED listVars
        /\ UNCHANGED moment /\ Since /\ UNCHANGED call
    BY DEF SignIn
  <1>2. cookie' \in Nat /\ a.key <= generated /\ (MayWrite => cookie' = cookie)
    BY <1>1 DEF MayWrite, RelayIInv, ChainInv
  <1>3. Steady /\ ChainInv' /\ ready' \in 0 .. moment' /\ Calm
    BY <1>1, <1>2, AccountChange DEF Calm
  <1>4. RelayTypeOK'
    BY <1>1, <1>2, <1>3 DEF RelayIInv, RelayTypeOK, chainVars, listVars
  <1> QED BY <1>1, <1>3, <1>4, LoudStep

\* A division created is the last of the registry.
LEMMA CreateDivisionInv == ASSUME RelayIInv, CreateDivision PROVE RelayIInv'
  <1>1. /\ deployed < MaxContracts /\ deployed' = deployed + 1 /\ registry' = Append(registry, deployed + 1)
        /\ UNCHANGED <<moment, gnOfficers, clearedAt, serverVars, listVars, call>> /\ Since
        /\ UNCHANGED <<account, generated, cookie>> /\ UNCHANGED listVars /\ UNCHANGED moment /\ UNCHANGED call
    BY DEF CreateDivision, serverVars
  <1>2. deployed \in Nat /\ deployed + 1 \in Nat /\ registry \in Seq(Nat) /\ MaxContracts \in Nat
    BY RelayNumbers, RelayAssumption DEF RelayIInv, RelayTypeOK
  <1>3. /\ registry' \in Seq(Nat) /\ Len(registry) \in Nat /\ DOMAIN registry = 1 .. Len(registry)
        /\ DOMAIN registry' = 1 .. Len(registry) + 1 /\ registry'[Len(registry) + 1] = deployed + 1
        /\ \A i \in DOMAIN registry : i \in DOMAIN registry' /\ registry'[i] = registry[i] /\ i # Len(registry) + 1
        /\ \A i \in DOMAIN registry' : i \in DOMAIN registry \/ i = Len(registry) + 1
    BY <1>1, <1>2
  <1>4. MayWrite => SameOfficer
    BY <1>1, <1>3 DEF MayWrite, SameOfficer
  <1>5. /\ ready' \in Nat /\ ready' \in 0 .. moment' /\ (ready' # 0 => MayWrite')
        /\ ready' = 0 \/ ready' = moment \/ (ready' = ready /\ SameOfficer)
    BY <1>1, <1>4, SinceInv
  <1>6. Grow
    BY <1>1, <1>3 DEF Grow
  <1>7. \A i \in DOMAIN registry' : registry'[i] > deployed \/ (i \in DOMAIN registry /\ registry'[i] = registry[i])
    BY <1>2, <1>3
  <1>8. Steady
    <2>1. /\ moment' \in Nat /\ moment' >= moment /\ deployed' \in Nat /\ deployed' >= deployed /\ clearedAt' \in Nat
          /\ generated' \in Nat /\ generated' >= generated
      BY <1>1, RelayNumbers
    <2> QED BY <1>5, <1>6, <1>7, <2>1 DEF Steady
  <1>9. ChainInv'
    <2>1. \A i \in DOMAIN registry : registry[i] \in 1 .. deployed /\ registry[i] # deployed + 1
      BY <1>2 DEF RelayIInv, ChainInv
    <2>2. \A i \in DOMAIN registry' : registry'[i] \in 1 .. deployed'
      BY <1>1, <1>2, <1>3, <2>1
    <2>3. \A i, j \in DOMAIN registry' : registry'[i] = registry'[j] => i = j
      <3>1. \A i, j \in DOMAIN registry : registry[i] = registry[j] => i = j
        BY DEF RelayIInv, ChainInv
      <3> QED BY <1>3, <2>1, <3>1
    <2> QED BY <1>1, <1>5, <2>2, <2>3 DEF RelayIInv, ChainInv
  <1>10. RelayTypeOK'
    <2>1. deployed' \in 0 .. MaxContracts
      BY <1>1, <1>2
    <2> QED BY <1>1, <1>3, <1>5, <2>1 DEF RelayIInv, RelayTypeOK, listVars
  <1>11. Calm
    BY <1>1 DEF Calm
  <1> QED BY <1>1, <1>8, <1>9, <1>10, <1>11, LoudStep

\* The divisions are cleared now.
LEMMA ClearDivisionsInv == ASSUME RelayIInv, ClearDivisions PROVE RelayIInv'
  <1>1. /\ registry' = <<>> /\ clearedAt' = moment /\ UNCHANGED <<deployed, gnOfficers>> /\ Since
        /\ UNCHANGED <<account, generated, cookie>> /\ UNCHANGED listVars /\ UNCHANGED moment /\ UNCHANGED call
    BY DEF ClearDivisions, serverVars
  <1>2. registry' \in Seq(Nat) /\ DOMAIN registry' = {}
    BY <1>1
  <1>3. ~MayWrite'
    BY <1>2 DEF MayWrite
  <1>4. /\ ready' \in Nat /\ ready' \in 0 .. moment' /\ (ready' # 0 => MayWrite')
        /\ ready' = 0 \/ ready' = moment \/ (ready' = ready /\ SameOfficer)
    BY <1>1, <1>3, SinceInv
  <1>5. Steady
    <2>1. /\ moment' \in Nat /\ moment' >= moment /\ deployed' \in Nat /\ deployed' >= deployed /\ clearedAt' \in Nat
          /\ generated' \in Nat /\ generated' >= generated
      BY <1>1, RelayNumbers
    <2> QED BY <1>1, <1>2, <1>4, <2>1 DEF Steady, Grow
  <1>6. ChainInv'
    BY <1>1, <1>2, <1>4 DEF RelayIInv, ChainInv
  <1>7. RelayTypeOK'
    BY <1>1, <1>2, <1>4, RelayNumbers DEF RelayIInv, RelayTypeOK, listVars
  <1> QED BY <1>1, <1>5, <1>6, <1>7, LoudStep DEF Calm

\* Time passes while nothing that has its list waits to be done.
LEMMA PassInv == ASSUME RelayIInv, Pass PROVE RelayIInv'
  <1>1. /\ moment' = moment + 1 /\ UNCHANGED <<chainVars, serverVars, listVars, call, ready>>
        /\ UNCHANGED <<registry, deployed, gnOfficers, clearedAt, account, generated, cookie, ready, call>>
        /\ UNCHANGED listVars
        /\ \A c \in RelayCalls : call[c].pc \notin {"load", "check", "store", "loadAgain", "send"}
        /\ reading # NoReading => moment < reading.since + MaxRead
    BY DEF Pass, chainVars, serverVars
  <1>2. ready # 0 => SameOfficer
    BY <1>1 DEF RelayIInv, ChainInv, MayWrite, SameOfficer
  <1>3. Steady
    <2>1. /\ moment' \in Nat /\ moment' >= moment /\ deployed' \in Nat /\ deployed' >= deployed /\ clearedAt' \in Nat
          /\ generated' \in Nat /\ generated' >= generated /\ ready' \in Nat
      BY <1>1, RelayNumbers
    <2>2. Grow /\ \A i \in DOMAIN registry' : i \in DOMAIN registry /\ registry'[i] = registry[i]
      BY <1>1 DEF Grow
    <2>3. ready' = 0 \/ (ready' = ready /\ SameOfficer)
      BY <1>1, <1>2
    <2> QED BY <2>1, <2>2, <2>3 DEF Steady
  <1>4. CacheInv' /\ ReadingInv'
    <2>1. reading.stage # "none" => moment' <= reading.since + MaxRead
      <3>1. reading.stage # "none" => reading # NoReading
        BY DEF NoReading
      <3> QED BY <1>1, <3>1, RelayNumbers
    <2> QED BY <1>1, <1>3, <2>1, ListsStay
  <1>5. ASSUME NEW d \in RelayCalls PROVE CallInv(call[d])'
    <2> PICK q \in RelayCall : q = call[d] /\ CallInv(q)
      BY RelayParts
    <2>1. q.pc \notin {"check", "store", "send"}
      BY <1>1
    <2>2. ListInv(q.list)'
      BY <1>3, CallTypes, ListStays DEF CallInv
    <2>3. SignedInv(q)' /\ AssignInv(q)'
      BY <1>1 DEF CallInv, SignedInv, AssignInv, Usable, Placed
    <2>4. CallInv(q)'
      BY <2>1, <2>2, <2>3 DEF CallInv
    <2> QED BY <1>1, <2>4
  <1>6. RelayTypeOK'
    <2>1. moment' \in Nat \ {0} /\ ready' \in 0 .. moment' /\ clearedAt' \in 0 .. moment'
      BY <1>1, RelayNumbers
    <2> QED BY <1>1, <2>1 DEF RelayIInv, RelayTypeOK, listVars
  <1>7. ChainInv'
    BY <1>1 DEF RelayIInv, ChainInv, MayWrite, Usable
  <1> QED BY <1>4, <1>5, <1>6, <1>7 DEF RelayIInv

\* There are no divisions and no accounts.
LEMMA RelayStarts == RelayInit => RelayIInv
  <1> SUFFICES ASSUME RelayInit PROVE RelayIInv
    OBVIOUS
  <1>1. NoCall \in RelayCall /\ NoCall.kind = "none" /\ NoCall.pc = "idle" /\ NoCall.list = <<>>
    BY DEF NoCall, None, RelayCall
  <1>2. call \in [RelayCalls -> RelayCall] /\ \A c \in RelayCalls : call[c] = NoCall
    BY <1>1 DEF RelayInit
  <1>3. \A c \in RelayCalls : CallInv(call[c])
    <2>1. CallInv(NoCall)
      BY <1>1 DEF CallInv, ListInv, SignedInv, AssignInv
    <2> QED BY <1>2, <2>1
  <1>4. CacheInv
    BY RelayAssumption DEF RelayInit, NoCache, CacheInv, ListInv, Kept
  <1>5. ReadingInv /\ ChainInv
    BY DEF RelayInit, ReadingInv, NoReading, ChainInv, NoAccount, None
  <1>6. RelayTypeOK
    BY <1>2, RelayAssumption DEF RelayInit, RelayTypeOK, NoCache, NoReading, NoAccount, None
  <1> QED BY <1>3, <1>4, <1>5, <1>6 DEF RelayIInv

\* Every step of the relay.
LEMMA RelayStep == RelayIInv /\ [RelayNext]_relayVars => RelayIInv'
  <1> SUFFICES ASSUME RelayIInv, [RelayNext]_relayVars PROVE RelayIInv'
    OBVIOUS
  <1>1. CASE UNCHANGED relayVars
    <2>1. Quiet /\ UNCHANGED listVars /\ UNCHANGED call /\ UNCHANGED moment
      BY <1>1 DEF relayVars, Quiet
    <2>2. RelayTypeOK'
      BY <2>1 DEF RelayIInv, RelayTypeOK, Quiet, chainVars, serverVars, listVars
    <2> QED BY <2>1, <2>2, QuietSteady, LoudStep
  <1>2. CASE RelayNext
    BY <1>2, LoadDivisionsInv, BeginInv, CheckInv, SendAddVotersInv, BeginCreateInv, CreateRefusedInv, StoreAccountInv,
       SendAssignInv, ReadListInv, ReadOfficersInv, ListReadFailsInv, SetDisabledInv, RemoveAccountInv, SignInInv,
       CreateDivisionInv, ClearDivisionsInv, SetOfficerInv, PassInv DEF RelayNext
  <1> QED BY <1>1, <1>2

\* relayPolicy.ts: the relay signs for an officer only with an account that was
\* usable since the list was read: an account that was not comes back enabled
\* again, which is such a moment, or with a new key, unknown to that list.
THEOREM SignedWhenUsableAlways == RelaySpec => []SignedWhenUsable
  <1>1. RelayIInv => SignedWhenUsable
    BY DEF RelayIInv, CallInv, SignedInv, SignedWhenUsable
  <1> QED BY <1>1, RelayStarts, RelayStep, PTL DEF RelaySpec

\* Only the request's own steps take it from the check, and from sending.
LEMMA CallsOwnSteps ==
    ASSUME RelayIInv, [RelayNext]_relayVars, NEW c \in RelayCalls, call'[c].pc # call[c].pc
    PROVE  /\ call[c].pc = "check" => Check(c)
           /\ call[c].pc = "send" /\ call[c].kind = "create" => SendAssign(c)
  <1>0. call \in [RelayCalls -> RelayCall]
    BY DEF RelayIInv, RelayTypeOK
  <1>1. ASSUME NEW d \in RelayCalls, d # c,
               \/ LoadDivisions(d) \/ (\E target \in 1 .. deployed : Begin(d, target))
               \/ Check(d) \/ SendAddVoters(d) \/ BeginCreate(d) \/ CreateRefused(d) \/ StoreAccount(d) \/ SendAssign(d)
        PROVE  call'[c] = call[c]
    BY <1>0, <1>1 DEF LoadDivisions, Begin, Check, SendAddVoters, BeginCreate, CreateRefused, StoreAccount, SendAssign
  <1>2. CASE LoadDivisions(c) \/ (\E target \in 1 .. deployed : Begin(c, target)) \/ BeginCreate(c) \/ CreateRefused(c)
             \/ StoreAccount(c)
    BY <1>2 DEF LoadDivisions, Begin, BeginCreate, CreateRefused, StoreAccount
  <1>3. CASE Check(c) \/ SendAddVoters(c) \/ SendAssign(c)
    BY <1>3 DEF Check, SendAddVoters, SendAssign
  <1>4. CASE ReadOfficers \/ ListReadFails
    BY <1>0, <1>4 DEF ReadOfficers, ListReadFails, Waiting
  <1>5. ASSUME NEW b \in BOOLEAN, SetDisabled(b) PROVE call'[c].pc = call[c].pc
    BY <1>0, <1>5 DEF SetDisabled, RelayCall
  <1>6. CASE ReadList \/ RemoveAccount \/ SignIn \/ CreateDivision \/ ClearDivisions
             \/ (\E k \in Contracts, b \in BOOLEAN : SetOfficer(k, b)) \/ Pass \/ UNCHANGED relayVars
    BY <1>6 DEF ReadList, RemoveAccount, SignIn, CreateDivision, ClearDivisions, SetOfficer, Pass, relayVars
  <1> QED BY <1>1, <1>2, <1>3, <1>4, <1>5, <1>6 DEF RelayNext

\* relayContracts.ts: an officer is turned away for not being on the cached list
\* only for as long as the list may be old: the time it is kept and the time it
\* takes to read.
THEOREM RefusedWhenNewAlways == RelaySpec => RefusedWhenNew
  <1> DEFINE Step == \A c \in RelayCalls :
          /\ call[c].pc = "check" /\ call'[c].pc = "refused"
          /\ ready # 0 /\ call[c].division = cookie /\ call[c].target = registry[cookie]
          /\ \A i \in DOMAIN call[c].list : call[c].list[i].answered
          => moment - ready < TTL + MaxRead
  <1>1. RelayIInv /\ [RelayNext]_relayVars => Step
    <2> SUFFICES ASSUME RelayIInv, [RelayNext]_relayVars, NEW c \in RelayCalls,
                        call[c].pc = "check", call'[c].pc = "refused",
                        ready # 0, call[c].division = cookie, call[c].target = registry[cookie],
                        \A i \in DOMAIN call[c].list : call[c].list[i].answered,
                        ~(moment - ready < TTL + MaxRead)
                 PROVE  FALSE
      OBVIOUS
    <2> PICK q \in RelayCall : q = call[c] /\ CallInv(q)
      BY RelayParts
    <2>1. Check(c)
      BY CallsOwnSteps
    <2>2. Kept(q.list, moment - TTL - MaxRead + 1)
      BY DEF CallInv
    <2>3. ready < moment - TTL - MaxRead + 1
      BY RelayNumbers
    <2>4. cookie \in DOMAIN q.list /\ q.list[cookie].contract = registry[cookie] /\ account.key \in q.list[cookie].officers
      BY <2>2, <2>3 DEF Kept
    <2>5. Usable /\ Authorised(q)
      BY <2>4 DEF RelayIInv, ChainInv, MayWrite, Authorised
    <2>6. call'[c] = [q EXCEPT !.pc = "send", !.key = account.key]
      BY <2>1, <2>5 DEF Check, RelayIInv, RelayTypeOK
    <2>7. call'[c].pc = "send"
      BY <2>6 DEF RelayCall
    <2> QED BY <2>7
  <1> QED BY <1>1, RelayStarts, RelayStep, PTL DEF RelaySpec, RefusedWhenNew

\* api/gn-accounts: an assignment reported as made names the division it was made
\* for and has made the key its officer, once the divisions have not been cleared
\* for as long as a list may be old.
THEOREM AssignedIsOfficerAlways == RelaySpec => AssignedIsOfficer
  <1> DEFINE Step == \A c \in RelayCalls :
          /\ call[c].kind = "create" /\ call[c].pc = "send" /\ call'[c].pc = "ok"
          /\ moment - clearedAt >= TTL + MaxRead
          => /\ call[c].division \in DOMAIN registry
             /\ call[c].key \in gnOfficers'[registry[call[c].division]]
  <1>1. RelayIInv /\ [RelayNext]_relayVars => Step
    <2> SUFFICES ASSUME RelayIInv, [RelayNext]_relayVars, NEW c \in RelayCalls,
                        call[c].kind = "create", call[c].pc = "send", call'[c].pc = "ok",
                        moment - clearedAt >= TTL + MaxRead
                 PROVE  /\ call[c].division \in DOMAIN registry
                        /\ call[c].key \in gnOfficers'[registry[call[c].division]]
      OBVIOUS
    <2> PICK q \in RelayCall : q = call[c] /\ CallInv(q)
      BY RelayParts
    <2>1. SendAssign(c)
      BY CallsOwnSteps
    <2>2. Kept(q.list, moment - TTL - MaxRead + 1) /\ Placed(q.target, q.division)
      BY DEF CallInv, AssignInv
    <2>3. clearedAt < moment - TTL - MaxRead + 1
      BY RelayNumbers
    <2>4. \A i \in DOMAIN q.list : i \in DOMAIN registry /\ registry[i] = q.list[i].contract
      BY <2>2, <2>3 DEF Kept
    <2>5. PICK i \in DOMAIN q.list : q.list[i].contract = q.target
      <3>1. CASE \E i \in DOMAIN q.list : q.list[i].contract = q.target
        BY <3>1
      <3>2. CASE ~\E i \in DOMAIN q.list : q.list[i].contract = q.target
        <4>1. call'[c] = RelayAnswered(q, "unassigned")
          BY <2>1, <3>2 DEF SendAssign, RelayIInv, RelayTypeOK
        <4>2. RelayAnswered(q, "unassigned").pc = "unassigned"
          BY DEF RelayAnswered, NoCall
        <4> QED BY <4>1, <4>2
      <3> QED BY <3>1, <3>2
    <2>6. gnOfficers' = [gnOfficers EXCEPT ![q.target] = gnOfficers[q.target] \cup {q.key}]
      BY <2>1, <2>5 DEF SendAssign, RelayIInv, RelayTypeOK
    <2>7. q.division \in DOMAIN registry /\ registry[q.division] = q.target
      BY <2>2, <2>4, <2>5 DEF Placed
    <2>8. q.target \in Contracts
      <3>1. registry[q.division] \in 1 .. deployed /\ deployed \in 0 .. MaxContracts
        BY <2>7 DEF RelayIInv, ChainInv, RelayTypeOK
      <3> QED BY <2>7, <3>1, RelayAssumption DEF Contracts
    <2>9. q.key \in gnOfficers'[q.target]
      BY <2>6, <2>8 DEF RelayIInv, RelayTypeOK
    <2> QED BY <2>7, <2>9
  <1> QED BY <1>1, RelayStarts, RelayStep, PTL DEF RelaySpec, AssignedIsOfficer

\* Both: a refusal and an assignment say what is so.
THEOREM RelayTruthfulAlways == RelaySpec => RelayTruthful
  <1> QED BY RefusedWhenNewAlways, AssignedIsOfficerAlways DEF RelayTruthful

-----------------------------------------------------------------------------
(* The results: what the log yields, and the totals.                       *)

LEMMA DividersRange ==
    ASSUME NEW E, NEW s \in Seq(E), NEW kind
    PROVE  /\ Dividers(s, kind) \in Seq(Nat)
           /\ \A k \in 1 .. Len(Dividers(s, kind)) : Dividers(s, kind)[k] \in 1 .. Len(s)
<1> DEFINE at == [i \in 1 .. Len(s) |-> i]
           S == {i \in 1 .. Len(s) : s[i].kind = kind}
<1>1. Len(s) \in Nat /\ at \in Seq(Nat)
  OBVIOUS
<1>2. Dividers(s, kind) = Those(at, S)
  BY DEF Dividers
<1>3. S \subseteq 1 .. Len(s)
  OBVIOUS
<1> HIDE DEF at, S
<1>4. Those(at, S) \in Seq(Nat) /\ Elements(Those(at, S)) = Elements(at) \cap S
  BY <1>1, ThoseElements
<1>5. \A k \in 1 .. Len(Those(at, S)) : Those(at, S)[k] \in S
  BY <1>4 DEF Elements
<1> QED BY <1>2, <1>3, <1>4, <1>5

LEMMA DividersAppend ==
    ASSUME NEW E, NEW s \in Seq(E), NEW x \in E, NEW kind
    PROVE  Dividers(Append(s, x), kind) = IF x.kind = kind THEN Append(Dividers(s, kind), Len(s) + 1)
                                          ELSE Dividers(s, kind)
<1> DEFINE t == Append(s, x)
           at == [i \in 1 .. Len(s) |-> i]
           wide == [i \in 1 .. Len(t) |-> i]
           S == {i \in 1 .. Len(s) : s[i].kind = kind}
           T == {i \in 1 .. Len(t) : t[i].kind = kind}
<1>1. /\ t \in Seq(E) /\ Len(t) = Len(s) + 1 /\ Len(s) \in Nat /\ t[Len(s) + 1] = x
      /\ \A i \in 1 .. Len(s) : t[i] = s[i]
  OBVIOUS
<1> HIDE DEF t
<1>2. at \in Seq(Nat) /\ Len(at) = Len(s) /\ \A i \in 1 .. Len(at) : at[i] = i
  BY <1>1
<1>3. wide = Append(at, Len(s) + 1)
  BY <1>1
<1>4. \A i \in 1 .. Len(at) : at[i] \in S <=> at[i] \in T
  BY <1>1, <1>2
<1>5. Len(s) + 1 \in T <=> x.kind = kind
  BY <1>1
<1>6. Dividers(s, kind) = Those(at, S) /\ Dividers(t, kind) = Those(wide, T)
  BY DEF Dividers
<1> HIDE DEF at, wide, S, T
<1>7. Those(Append(at, Len(s) + 1), T) = IF Len(s) + 1 \in T THEN Append(Those(at, S), Len(s) + 1) ELSE Those(at, S)
  <2>1. PICK last \in Nat : last = Len(s) + 1
    BY <1>1
  <2>2. Those(Append(at, last), T) = IF last \in T THEN Append(Those(at, S), last) ELSE Those(at, S)
    BY <1>2, <1>4, ThoseAppend
  <2> QED BY <2>1, <2>2
<1>8. Dividers(t, kind) = IF x.kind = kind THEN Append(Dividers(s, kind), Len(s) + 1) ELSE Dividers(s, kind)
  BY <1>3, <1>5, <1>6, <1>7
<1> QED BY <1>8 DEF t

LEMMA PrefixSame ==
    ASSUME NEW E, NEW s \in Seq(E), NEW x \in E, NEW lo \in Nat \ {0}, NEW hi \in 0 .. Len(s)
    PROVE  /\ SubSeq(s, lo, hi) \in Seq(E)
           /\ SubSeq(Append(s, x), lo, hi) = SubSeq(s, lo, hi)
OBVIOUS

LEMMA PrefixGrows ==
    ASSUME NEW E, NEW s \in Seq(E), NEW x \in E, NEW lo \in 1 .. Len(s) + 1
    PROVE  SubSeq(Append(s, x), lo, Len(s) + 1) = Append(SubSeq(s, lo, Len(s)), x)
OBVIOUS

\* How many parts are over.
Over(events, kind) == Len(Dividers(events, kind))

LEMMA PartType ==
    ASSUME NEW E, NEW s \in Seq(E), NEW kind
    PROVE  Over(s, kind) \in Nat /\ \A k \in 1 .. Over(s, kind) + 1 : Part(s, kind, k) \in Seq(E)
<1> DEFINE cuts == Dividers(s, kind)
<1>1. /\ cuts \in Seq(Nat) /\ Len(s) \in Nat /\ Len(cuts) \in Nat
      /\ \A k \in 1 .. Len(cuts) : cuts[k] \in 1 .. Len(s)
  BY DividersRange
<1> SUFFICES ASSUME NEW k \in 1 .. Len(cuts) + 1 PROVE Part(s, kind, k) \in Seq(E)
  BY <1>1 DEF Over
<1> DEFINE lo == IF k = 1 THEN 1 ELSE cuts[k - 1] + 1
           hi == IF k = Len(cuts) + 1 THEN Len(s) ELSE cuts[k] - 1
<1>2. lo \in Nat \ {0} /\ hi \in 0 .. Len(s)
  <2> HIDE DEF cuts
  <2>1. k = 1 \/ k - 1 \in 1 .. Len(cuts)
    BY <1>1
  <2>2. k = Len(cuts) + 1 \/ k \in 1 .. Len(cuts)
    BY <1>1
  <2> QED BY <1>1, <2>1, <2>2
<1>3. Part(s, kind, k) = SubSeq(s, lo, hi)
  BY DEF Part
<1> HIDE DEF lo, hi
<1>4. \A i \in lo .. hi : s[i] \in E
  BY <1>2
<1> QED BY <1>2, <1>3, <1>4
\* What a part becomes of when the log grows by x.
Divided(s, t, x, kind, n) ==
    /\ \A k \in 1 .. n : Part(t, kind, k) = Part(s, kind, k)
    /\ x.kind # kind => /\ Over(t, kind) = n
                        /\ Part(t, kind, n + 1) = Append(Part(s, kind, n + 1), x)
    /\ x.kind = kind => /\ Over(t, kind) = n + 1
                        /\ Part(t, kind, n + 1) = Part(s, kind, n + 1)
                        /\ Part(t, kind, n + 2) = <<>>

LEMMA PartAppend ==
    ASSUME NEW E, NEW s \in Seq(E), NEW x \in E, NEW kind
    PROVE  Divided(s, Append(s, x), x, kind, Over(s, kind))
<1> DEFINE t == Append(s, x)
           cuts == Dividers(s, kind)
           more == Dividers(t, kind)
           n == Len(cuts)
<1>1. /\ cuts \in Seq(Nat) /\ Len(s) \in Nat /\ n \in Nat
      /\ \A k \in 1 .. n : cuts[k] \in 1 .. Len(s)
  BY DividersRange
<1>2. more = IF x.kind = kind THEN Append(cuts, Len(s) + 1) ELSE cuts
  BY DividersAppend
<1>3. t \in Seq(E) /\ Len(t) = Len(s) + 1
  OBVIOUS
<1>4. /\ Len(more) = (IF x.kind = kind THEN n + 1 ELSE n)
      /\ \A k \in 1 .. n : more[k] = cuts[k]
      /\ x.kind = kind => more[n + 1] = Len(s) + 1
  <2> HIDE DEF cuts, more, t
  <2>1. CASE x.kind = kind
    <3>1. PICK m \in Nat : m = Len(s) + 1
      BY <1>1
    <3>2. more = Append(cuts, m)
      BY <1>2, <2>1, <3>1
    <3> QED BY <1>1, <2>1, <3>1, <3>2
  <2>2. CASE x.kind # kind
    BY <1>1, <1>2, <2>2
  <2> QED BY <2>1, <2>2
<1>5. \A k : /\ Part(s, kind, k) = SubSeq(s, IF k = 1 THEN 1 ELSE cuts[k - 1] + 1,
                                          IF k = n + 1 THEN Len(s) ELSE cuts[k] - 1)
             /\ Part(t, kind, k) = SubSeq(t, IF k = 1 THEN 1 ELSE more[k - 1] + 1,
                                          IF k = Len(more) + 1 THEN Len(t) ELSE more[k] - 1)
  BY DEF Part
<1> HIDE DEF t, cuts, more
<1>6. ASSUME NEW k \in 1 .. n PROVE Part(t, kind, k) = Part(s, kind, k)
  <2>1. k = 1 \/ (k # 1 /\ k - 1 \in 1 .. n)
    BY <1>1
  <2>2. k # n + 1 /\ k # Len(more) + 1
    BY <1>1, <1>4
  <2>3. PICK hi \in 0 .. Len(s) : hi = cuts[k] - 1
    BY <1>1
  <2>4. PICK lo \in Nat \ {0} : lo = IF k = 1 THEN 1 ELSE cuts[k - 1] + 1
    BY <1>1, <2>1
  <2>5. Part(s, kind, k) = SubSeq(s, lo, hi)
    BY <1>5, <2>2, <2>3, <2>4
  <2>6. Part(t, kind, k) = SubSeq(t, lo, hi)
    <3>1. lo = IF k = 1 THEN 1 ELSE more[k - 1] + 1
      BY <1>4, <2>1, <2>4
    <3>2. hi = more[k] - 1
      BY <1>4, <2>3
    <3> QED BY <1>5, <2>2, <3>1, <3>2
  <2>7. SubSeq(t, lo, hi) = SubSeq(s, lo, hi)
    BY PrefixSame DEF t
  <2> QED BY <2>5, <2>6, <2>7
<1>7. PICK lo \in 1 .. Len(s) + 1 : lo = IF n + 1 = 1 THEN 1 ELSE cuts[n] + 1
  <2>1. n = 0 \/ n \in 1 .. n
    BY <1>1
  <2> QED BY <1>1, <2>1
<1>8. Part(s, kind, n + 1) = SubSeq(s, lo, Len(s))
  <2>1. (n + 1) - 1 = n
    BY <1>1
  <2> QED BY <1>5, <1>7, <2>1
<1>9. lo = IF n + 1 = 1 THEN 1 ELSE more[(n + 1) - 1] + 1
  <2>1. (n + 1) - 1 = n /\ (n + 1 = 1 <=> n = 0) /\ (n = 0 \/ n \in 1 .. n)
    BY <1>1
  <2> QED BY <1>4, <1>7, <2>1
<1>10. ASSUME x.kind # kind
       PROVE  Over(t, kind) = n /\ Part(t, kind, n + 1) = Append(Part(s, kind, n + 1), x)
  <2>1. Len(more) = n
    BY <1>4, <1>10
  <2>2. Part(t, kind, n + 1) = SubSeq(t, lo, Len(s) + 1)
    BY <1>3, <1>5, <1>9, <2>1
  <2>3. SubSeq(t, lo, Len(s) + 1) = Append(SubSeq(s, lo, Len(s)), x)
    BY PrefixGrows DEF t
  <2> QED BY <1>8, <2>1, <2>2, <2>3 DEF Over, more
<1>11. ASSUME x.kind = kind
       PROVE  /\ Over(t, kind) = n + 1
              /\ Part(t, kind, n + 1) = Part(s, kind, n + 1)
              /\ Part(t, kind, n + 2) = <<>>
  <2>1. Len(more) = n + 1 /\ more[n + 1] = Len(s) + 1
    BY <1>4, <1>11
  <2>2. n + 1 # Len(more) + 1 /\ n + 2 = Len(more) + 1 /\ n + 2 # 1 /\ (n + 2) - 1 = n + 1
        /\ (Len(s) + 1) - 1 = Len(s)
    BY <1>1, <2>1
  <2>3. Part(t, kind, n + 1) = SubSeq(t, lo, Len(s))
    BY <1>5, <1>9, <2>1, <2>2
  <2>4. SubSeq(t, lo, Len(s)) = SubSeq(s, lo, Len(s))
    <3>1. lo \in Nat \ {0} /\ Len(s) \in 0 .. Len(s)
      BY <1>1
    <3> QED BY <3>1, PrefixSame DEF t
  <2>5. Part(t, kind, n + 2) = SubSeq(t, (Len(s) + 1) + 1, Len(t))
    BY <1>5, <2>1, <2>2
  <2>6. SubSeq(t, (Len(s) + 1) + 1, Len(t)) = <<>>
    BY <1>1, <1>3
  <2> QED BY <1>8, <2>1, <2>3, <2>4, <2>5, <2>6 DEF Over, more
<1> QED BY <1>6, <1>10, <1>11 DEF Divided, Over, t, cuts

\* The segments that are over, and the one that goes on.
Finished(events) == [k \in 1 .. Over(events, "ElectionReset") |-> Part(events, "ElectionReset", k)]
Going(events) == Part(events, "ElectionReset", Over(events, "ElectionReset") + 1)

LEMMA SegmentsSplit ==
    ASSUME NEW E, NEW s \in Seq(E)
    PROVE  /\ Finished(s) \in Seq(Seq(E)) /\ Going(s) \in Seq(E)
           /\ Segments(s) = Append(Finished(s), Going(s))
<1> DEFINE n == Over(s, "ElectionReset")
           P(k) == Part(s, "ElectionReset", k)
<1>1. n \in Nat /\ \A k \in 1 .. n + 1 : P(k) \in Seq(E)
  BY PartType
<1>2. /\ Finished(s) = [k \in 1 .. n |-> P(k)] /\ Going(s) = P(n + 1)
      /\ Segments(s) = [k \in 1 .. n + 1 |-> P(k)]
  BY DEF Finished, Going, Segments, Over
<1> HIDE DEF n, P
<1>3. [k \in 1 .. n |-> P(k)] \in Seq(Seq(E)) /\ P(n + 1) \in Seq(E)
  BY <1>1
<1>4. [k \in 1 .. n + 1 |-> P(k)] = Append([k \in 1 .. n |-> P(k)], P(n + 1))
  BY <1>1
<1> QED BY <1>2, <1>3, <1>4

LEMMA SegmentsAppend ==
    ASSUME NEW E, NEW s \in Seq(E), NEW e \in E
    PROVE  /\ e.kind # "ElectionReset" => /\ Finished(Append(s, e)) = Finished(s)
                                          /\ Going(Append(s, e)) = Append(Going(s), e)
           /\ e.kind = "ElectionReset" => /\ Finished(Append(s, e)) = Append(Finished(s), Going(s))
                                          /\ Going(Append(s, e)) = <<>>
<1> DEFINE t == Append(s, e)
           n == Over(s, "ElectionReset")
           P(k) == Part(s, "ElectionReset", k)
           Q(k) == Part(t, "ElectionReset", k)
<1>1. n \in Nat /\ \A k \in 1 .. n + 1 : P(k) \in Seq(E)
  BY PartType
<1>2. /\ \A k \in 1 .. n : Q(k) = P(k)
      /\ e.kind # "ElectionReset" => Over(t, "ElectionReset") = n /\ Q(n + 1) = Append(P(n + 1), e)
      /\ e.kind = "ElectionReset" => /\ Over(t, "ElectionReset") = n + 1
                                     /\ Q(n + 1) = P(n + 1) /\ Q(n + 2) = <<>>
  BY PartAppend DEF Divided
<1>3. /\ Finished(s) = [k \in 1 .. n |-> P(k)] /\ Going(s) = P(n + 1)
      /\ Finished(t) = [k \in 1 .. Over(t, "ElectionReset") |-> Q(k)]
      /\ Going(t) = Q(Over(t, "ElectionReset") + 1)
  BY DEF Finished, Going
<1>4. CASE e.kind # "ElectionReset"
  <2> HIDE DEF n, P, Q, t
  <2>1. Over(t, "ElectionReset") = n /\ Q(n + 1) = Append(P(n + 1), e)
    BY <1>2, <1>4
  <2>2. [k \in 1 .. n |-> Q(k)] = [k \in 1 .. n |-> P(k)]
    BY <1>2
  <2>3. Finished(t) = Finished(s) /\ Going(t) = Append(Going(s), e)
    BY <1>3, <2>1, <2>2
  <2> QED BY <1>4, <2>3 DEF t
<1>5. CASE e.kind = "ElectionReset"
  <2> HIDE DEF n, P, Q, t
  <2>1. Over(t, "ElectionReset") = n + 1 /\ Q(n + 1) = P(n + 1) /\ Q(n + 2) = <<>>
    BY <1>2, <1>5
  <2>2. [k \in 1 .. n + 1 |-> Q(k)] = [k \in 1 .. n + 1 |-> P(k)]
    <3>1. \A k \in 1 .. n + 1 : k \in 1 .. n \/ k = n + 1
      BY <1>1
    <3>2. \A k \in 1 .. n + 1 : Q(k) = P(k)
      BY <1>2, <2>1, <3>1
    <3> QED BY <3>2
  <2>3. [k \in 1 .. n + 1 |-> P(k)] = Append([k \in 1 .. n |-> P(k)], P(n + 1))
    BY <1>1
  <2>4. (n + 1) + 1 = n + 2
    BY <1>1
  <2>5. Finished(t) = Append(Finished(s), Going(s)) /\ Going(t) = <<>>
    BY <1>3, <2>1, <2>2, <2>3, <2>4
  <2> QED BY <1>5, <2>5 DEF t
<1> QED BY <1>4, <1>5

\* An election more is told when there was a list.
LEMMA ToldAppend ==
    ASSUME NEW E, NEW ss \in Seq(E), NEW s \in E
    PROVE  Told(Append(ss, s)) = IF Lists(s) # <<>> THEN Append(Told(ss), Rebuilt(s)) ELSE Told(ss)
<1> DEFINE tt == Append(ss, s)
           S == {q \in Elements(ss) : Lists(q) # <<>>}
           T == {q \in Elements(tt) : Lists(q) # <<>>}
           old == Those(ss, S)
           new == Those(tt, T)
<1>1. /\ tt \in Seq(E) /\ Len(tt) = Len(ss) + 1 /\ Len(ss) \in Nat
      /\ tt[Len(ss) + 1] = s /\ \A i \in 1 .. Len(ss) : tt[i] = ss[i]
  OBVIOUS
<1>2. s \in Elements(tt) /\ \A i \in 1 .. Len(ss) : ss[i] \in Elements(ss) /\ ss[i] \in Elements(tt)
  <2> HIDE DEF tt
  <2> QED BY <1>1 DEF Elements
<1>3. \A i \in 1 .. Len(ss) : ss[i] \in S <=> ss[i] \in T
  <2> HIDE DEF tt
  <2> QED BY <1>2
<1>4. s \in T <=> Lists(s) # <<>>
  <2> HIDE DEF tt
  <2> QED BY <1>2
<1>5. /\ Told(ss) = [i \in 1 .. Len(old) |-> Rebuilt(old[i])]
      /\ Told(tt) = [i \in 1 .. Len(new) |-> Rebuilt(new[i])]
  BY DEF Told
<1> HIDE DEF S, T
<1>6. new = IF s \in T THEN Append(old, s) ELSE old
  BY <1>3, ThoseAppend
<1>7. old \in Seq(E)
  BY ThoseElements
<1> HIDE DEF old, new, tt
<1>8. CASE Lists(s) # <<>>
  <2>1. new = Append(old, s)
    BY <1>4, <1>6, <1>8
  <2>2. /\ Len(old) \in Nat /\ Len(new) = Len(old) + 1 /\ new[Len(old) + 1] = s
        /\ \A i \in 1 .. Len(old) : new[i] = old[i]
    BY <1>7, <2>1
  <2> DEFINE P(i) == Rebuilt(old[i])
             Q(i) == Rebuilt(new[i])
             n == Len(old)
  <2>3. \A i \in 1 .. n : Q(i) = P(i)
    BY <2>2
  <2>4. Q(n + 1) = Rebuilt(s)
    BY <2>2
  <2> HIDE DEF P, Q, n
  <2>5. n \in Nat
    BY <2>2 DEF n
  <2>6. [i \in 1 .. n + 1 |-> Q(i)] = Append([i \in 1 .. n |-> Q(i)], Q(n + 1))
    BY <2>5
  <2>7. [i \in 1 .. n |-> Q(i)] = [i \in 1 .. n |-> P(i)]
    BY <2>3
  <2>8. Told(ss) = [i \in 1 .. n |-> P(i)] /\ Told(tt) = [i \in 1 .. n + 1 |-> Q(i)]
    BY <1>5, <2>2 DEF n, P, Q
  <2>9. Told(tt) = Append(Told(ss), Rebuilt(s))
    BY <2>4, <2>6, <2>7, <2>8
  <2> QED BY <1>8, <2>9 DEF tt
<1>9. CASE Lists(s) = <<>>
  <2>1. new = old
    BY <1>4, <1>6, <1>9
  <2>2. Told(tt) = Told(ss)
    BY <1>5, <2>1
  <2> QED BY <1>9, <2>2 DEF tt
<1> QED BY <1>8, <1>9

LEMMA OfWardAppend ==
    ASSUME NEW E, NEW s \in Seq(E), NEW e \in E, NEW d
    PROVE  /\ OfWard(s, d) \in Seq(E)
           /\ OfWard(Append(s, e), d) = IF e.of = d /\ e.kind # "DivisionAdded"
                                        THEN Append(OfWard(s, d), e) ELSE OfWard(s, d)
<1> DEFINE t == Append(s, e)
           S == {x \in Elements(s) : x.of = d /\ x.kind # "DivisionAdded"}
           T == {x \in Elements(t) : x.of = d /\ x.kind # "DivisionAdded"}
<1>1. /\ t \in Seq(E) /\ Len(t) = Len(s) + 1 /\ Len(s) \in Nat /\ t[Len(s) + 1] = e
      /\ \A i \in 1 .. Len(s) : t[i] = s[i]
  OBVIOUS
<1>2. e \in Elements(t) /\ \A i \in 1 .. Len(s) : s[i] \in Elements(s) /\ s[i] \in Elements(t)
  <2> HIDE DEF t
  <2> QED BY <1>1 DEF Elements
<1>3. OfWard(s, d) = Those(s, S) /\ OfWard(t, d) = Those(t, T)
  BY DEF OfWard
<1>4. \A i \in 1 .. Len(s) : s[i] \in S <=> s[i] \in T
  <2> HIDE DEF t
  <2> QED BY <1>2
<1>5. e \in T <=> e.of = d /\ e.kind # "DivisionAdded"
  <2> HIDE DEF t
  <2> QED BY <1>2
<1> HIDE DEF S, T
<1>6. Those(t, T) = IF e \in T THEN Append(Those(s, S), e) ELSE Those(s, S)
  BY <1>4, ThoseAppend
<1>7. Those(s, S) \in Seq(E)
  BY ThoseElements
<1>8. OfWard(t, d) = IF e.of = d /\ e.kind # "DivisionAdded" THEN Append(OfWard(s, d), e) ELSE OfWard(s, d)
  BY <1>3, <1>5, <1>6
<1> QED BY <1>3, <1>7, <1>8 DEF t

LEMMA VotesForAppend ==
    ASSUME NEW E, NEW s \in Seq(E), NEW e \in E, NEW i
    PROVE  /\ Len(VotesFor(s, i)) \in Nat
           /\ Len(VotesFor(Append(s, e), i)) =
                 IF e.kind = "VoteCast" /\ e.what = i THEN Len(VotesFor(s, i)) + 1 ELSE Len(VotesFor(s, i))
<1> DEFINE t == Append(s, e)
           S == {x \in Elements(s) : x.kind = "VoteCast" /\ x.what = i}
           T == {x \in Elements(t) : x.kind = "VoteCast" /\ x.what = i}
<1>1. /\ t \in Seq(E) /\ Len(t) = Len(s) + 1 /\ Len(s) \in Nat /\ t[Len(s) + 1] = e
      /\ \A k \in 1 .. Len(s) : t[k] = s[k]
  OBVIOUS
<1>2. e \in Elements(t) /\ \A k \in 1 .. Len(s) : s[k] \in Elements(s) /\ s[k] \in Elements(t)
  <2> HIDE DEF t
  <2> QED BY <1>1 DEF Elements
<1>3. VotesFor(s, i) = Those(s, S) /\ VotesFor(t, i) = Those(t, T)
  BY DEF VotesFor
<1>4. \A k \in 1 .. Len(s) : s[k] \in S <=> s[k] \in T
  <2> HIDE DEF t
  <2> QED BY <1>2
<1>5. e \in T <=> e.kind = "VoteCast" /\ e.what = i
  <2> HIDE DEF t
  <2> QED BY <1>2
<1> HIDE DEF S, T
<1>6. Those(t, T) = IF e \in T THEN Append(Those(s, S), e) ELSE Those(s, S)
  BY <1>4, ThoseAppend
<1>7. Those(s, S) \in Seq(E)
  BY ThoseElements
<1> DEFINE q == Those(s, S)
<1> HIDE DEF q
<1>8. q \in Seq(E) /\ Len(q) \in Nat /\ Len(Append(q, e)) = Len(q) + 1
  BY <1>7 DEF q
<1>9. Len(VotesFor(t, i)) = IF e.kind = "VoteCast" /\ e.what = i THEN Len(q) + 1 ELSE Len(q)
  BY <1>3, <1>5, <1>6, <1>8 DEF q
<1> QED BY <1>3, <1>8, <1>9 DEF t, q

LEMMA NothingDivided ==
    ASSUME NEW kind
    PROVE  Over(<<>>, kind) = 0 /\ Part(<<>>, kind, 1) = <<>>
<1>1. <<>> \in Seq({}) /\ Len(<<>>) = 0
  OBVIOUS
<1>2. Dividers(<<>>, kind) \in Seq(Nat)
      /\ \A k \in 1 .. Len(Dividers(<<>>, kind)) : Dividers(<<>>, kind)[k] \in 1 .. Len(<<>>)
  BY <1>1, DividersRange
<1>3. Len(Dividers(<<>>, kind)) = 0
  <2> DEFINE q == Dividers(<<>>, kind)
  <2> HIDE DEF q
  <2>1. q \in Seq(Nat) /\ \A k \in 1 .. Len(q) : q[k] \in 1 .. 0
    BY <1>1, <1>2 DEF q
  <2>2. Len(q) = 0
    <3>1. Len(q) # 0 => 1 \in 1 .. Len(q)
      BY <2>1
    <3> QED BY <2>1, <3>1
  <2> QED BY <2>2 DEF q
<1>4. Part(<<>>, kind, 1) = SubSeq(<<>>, 1, 0)
  BY <1>1, <1>3 DEF Part
<1>5. SubSeq(<<>>, 1, 0) = <<>>
  OBVIOUS
<1> QED BY <1>3, <1>4, <1>5 DEF Over

LEMMA NothingTold ==
    /\ Finished(<<>>) = <<>> /\ Going(<<>>) = <<>> /\ Told(<<>>) = <<>>
    /\ Lists(<<>>) = <<>> /\ \A i : VotesFor(<<>>, i) = <<>>
    /\ \A d : OfWard(<<>>, d) = <<>>
<1>1. Over(<<>>, "ElectionReset") = 0 /\ Part(<<>>, "ElectionReset", 1) = <<>>
  BY NothingDivided
<1>2. Finished(<<>>) = <<>>
  <2>1. Finished(<<>>) = [k \in 1 .. 0 |-> Part(<<>>, "ElectionReset", k)]
    BY <1>1 DEF Finished
  <2> QED BY <2>1
<1>3. Going(<<>>) = <<>>
  <2>1. 0 + 1 = 1
    OBVIOUS
  <2> QED BY <1>1, <2>1 DEF Going
<1>4. Told(<<>>) = <<>>
  <2>1. Told(<<>>) = [i \in 1 .. Len(<<>>) |-> Rebuilt(<<>>[i])]
    <3> DEFINE S == {s \in Elements(<<>>) : Lists(s) # <<>>}
    <3>1. Told(<<>>) = [i \in 1 .. Len(Those(<<>>, S)) |-> Rebuilt(Those(<<>>, S)[i])]
      BY DEF Told
    <3> HIDE DEF S
    <3>2. Those(<<>>, S) = <<>>
      BY NothingFiltered
    <3> QED BY <3>1, <3>2
  <2> QED BY <2>1
<1>5. Lists(<<>>) = <<>>
  BY NothingFiltered DEF Lists, OfKind
<1> QED BY <1>2, <1>3, <1>4, <1>5, NothingFiltered DEF VotesFor, OfWard

-----------------------------------------------------------------------------
\* What a segment says is what the contract holds.
SaysOf(segment, ballot, row) ==
    /\ Lists(segment) = <<>> <=> ballot = <<>>
    /\ ballot # <<>> => Lists(segment)[Len(Lists(segment))].what = ballot
    /\ \A i \in Places : Len(VotesFor(segment, i)) = row[i]

\* The events of a contract tell the elections that ended in it, and the one that has not.
TellsOf(events, ended, ballot, row) ==
    Told(Finished(events)) = ended /\ SaysOf(Going(events), ballot, row)

\* With what an election on the list ballot would end.
EndedWith(ended, ballot, row) ==
    IF ballot = <<>> THEN ended
    ELSE Append(ended, [candidates |-> ballot, votes |-> [i \in DOMAIN ballot |-> row[i]]])

LEMMA TellsNothing == TellsOf(<<>>, <<>>, <<>>, NoCounts)
<1>1. Len(<<>>) = 0 /\ \A i \in Places : NoCounts[i] = 0
  BY DEF NoCounts
<1> QED BY <1>1, NothingTold DEF TellsOf, SaysOf

\* The segment that goes on, closed now, would be told as the contract has it.
LEMMA RebuiltSays ==
    ASSUME NEW s, NEW ballot, NEW row, SaysOf(s, ballot, row), ballot # <<>>, DOMAIN ballot \subseteq Places
    PROVE  Rebuilt(s) = [candidates |-> ballot, votes |-> [i \in DOMAIN ballot |-> row[i]]]
<1>1. Lists(s)[Len(Lists(s))].what = ballot /\ \A i \in DOMAIN ballot : Len(VotesFor(s, i)) = row[i]
  BY DEF SaysOf
<1>2. Rebuilt(s) = [candidates |-> ballot, votes |-> [i \in DOMAIN ballot |-> Len(VotesFor(s, i))]]
  BY <1>1 DEF Rebuilt
<1>3. [i \in DOMAIN ballot |-> Len(VotesFor(s, i))] = [i \in DOMAIN ballot |-> row[i]]
  BY <1>1
<1> QED BY <1>2, <1>3

LEMMA ToldMore ==
    ASSUME NEW E, NEW s \in Seq(E), NEW ended, NEW ballot, NEW row,
           TellsOf(s, ended, ballot, row), DOMAIN ballot \subseteq Places
    PROVE  Told(Append(Finished(s), Going(s))) = EndedWith(ended, ballot, row)
<1>1. PICK F : F = Seq(E)
  OBVIOUS
<1>2. PICK ss \in Seq(F) : ss = Finished(s)
  BY <1>1, SegmentsSplit
<1>3. PICK q \in F : q = Going(s)
  BY <1>1, SegmentsSplit
<1>4. Told(Append(ss, q)) = IF Lists(q) # <<>> THEN Append(Told(ss), Rebuilt(q)) ELSE Told(ss)
  BY ToldAppend
<1>5. Told(ss) = ended /\ SaysOf(q, ballot, row)
  BY <1>2, <1>3 DEF TellsOf
<1>6. Lists(q) = <<>> <=> ballot = <<>>
  BY <1>5 DEF SaysOf
<1>7. ballot # <<>> => Rebuilt(q) = [candidates |-> ballot, votes |-> [i \in DOMAIN ballot |-> row[i]]]
  BY <1>5, RebuiltSays
<1> QED BY <1>2, <1>3, <1>4, <1>5, <1>6, <1>7 DEF EndedWith

LEMMA TellsEnds ==
    ASSUME NEW E, NEW s \in Seq(E), NEW ended, NEW ballot, NEW row,
           TellsOf(s, ended, ballot, row), DOMAIN ballot \subseteq Places
    PROVE  Told(Segments(s)) = EndedWith(ended, ballot, row)
<1>1. Segments(s) = Append(Finished(s), Going(s))
  BY SegmentsSplit
<1>2. Told(Append(Finished(s), Going(s))) = EndedWith(ended, ballot, row)
  BY ToldMore
<1> QED BY <1>1, <1>2

\* A reset ends the election: it is told from then on.
LEMMA TellsReset ==
    ASSUME NEW E, NEW s \in Seq(E), NEW ended, NEW ballot, NEW row,
           TellsOf(s, ended, ballot, row), DOMAIN ballot \subseteq Places,
           NEW e \in E, e.kind = "ElectionReset"
    PROVE  TellsOf(Append(s, e), EndedWith(ended, ballot, row), <<>>, NoCounts)
<1>1. Finished(Append(s, e)) = Append(Finished(s), Going(s)) /\ Going(Append(s, e)) = <<>>
  BY SegmentsAppend
<1>2. Told(Append(Finished(s), Going(s))) = EndedWith(ended, ballot, row)
  BY ToldMore
<1>3. SaysOf(<<>>, <<>>, NoCounts)
  BY TellsNothing, NothingTold DEF TellsOf
<1> QED BY <1>1, <1>2, <1>3 DEF TellsOf

\* A list that is set is the last one.
LEMMA TellsBallot ==
    ASSUME NEW E, NEW s \in Seq(E), NEW ended, NEW ballot, NEW row,
           TellsOf(s, ended, ballot, row),
           NEW e \in E, e.kind = "CandidatesUpdated", e.what # <<>>
    PROVE  TellsOf(Append(s, e), ended, e.what, row)
<1>1. Finished(Append(s, e)) = Finished(s) /\ Going(Append(s, e)) = Append(Going(s), e)
  BY SegmentsAppend
<1>2. PICK q \in Seq(E) : q = Going(s)
  BY SegmentsSplit
<1>3. SaysOf(q, ballot, row)
  BY <1>2 DEF TellsOf
<1>4. PICK lists \in Seq(E) : lists = Lists(q)
  BY OfKindElements DEF Lists
<1>5. Lists(Append(q, e)) = Append(lists, e)
  BY <1>4, OfKindAppend DEF Lists
<1>6. Append(lists, e) # <<>> /\ Append(lists, e)[Len(Append(lists, e))] = e
  OBVIOUS
<1>7. \A i \in Places : Len(VotesFor(Append(q, e), i)) = row[i]
  BY <1>3, VotesForAppend DEF SaysOf
<1>8. SaysOf(Append(q, e), e.what, row)
  BY <1>5, <1>6, <1>7 DEF SaysOf
<1> QED BY <1>1, <1>2, <1>8 DEF TellsOf

\* A vote in the log is one more in the contract.
LEMMA TellsVote ==
    ASSUME NEW E, NEW s \in Seq(E), NEW ended, NEW ballot, NEW row \in [Places -> Nat],
           TellsOf(s, ended, ballot, row),
           NEW e \in E, e.kind = "VoteCast", e.what \in Places
    PROVE  TellsOf(Append(s, e), ended, ballot, [row EXCEPT ![e.what] = @ + 1])
<1>1. Finished(Append(s, e)) = Finished(s) /\ Going(Append(s, e)) = Append(Going(s), e)
  BY SegmentsAppend
<1>2. PICK q \in Seq(E) : q = Going(s)
  BY SegmentsSplit
<1>3. SaysOf(q, ballot, row)
  BY <1>2 DEF TellsOf
<1>4. Lists(Append(q, e)) = Lists(q)
  BY OfKindAppend DEF Lists
<1>5. ASSUME NEW i \in Places
      PROVE  Len(VotesFor(Append(q, e), i)) = [row EXCEPT ![e.what] = @ + 1][i]
  <2>1. Len(VotesFor(q, i)) = row[i]
    BY <1>3 DEF SaysOf
  <2>2. Len(VotesFor(Append(q, e), i)) = IF e.what = i THEN row[i] + 1 ELSE row[i]
    BY <2>1, VotesForAppend
  <2>3. [row EXCEPT ![e.what] = @ + 1][i] = IF e.what = i THEN row[i] + 1 ELSE row[i]
    OBVIOUS
  <2> QED BY <2>2, <2>3
<1>6. SaysOf(Append(q, e), ballot, [row EXCEPT ![e.what] = @ + 1])
  BY <1>3, <1>4, <1>5 DEF SaysOf
<1> QED BY <1>1, <1>2, <1>6 DEF TellsOf

\* What a candidate has beside the k-th name.
Has(list, row, c, k) == IF list[k] = c THEN row[k] ELSE 0

\* What the recursive definition of Beside says.
AddsUp(f, list, row, c) ==
    /\ f[0] = 0
    /\ \A k \in 0 .. Len(list) - 1 : f[k + 1] = f[k] + Has(list, row, c, k + 1)

LEMMA BesideDef ==
    ASSUME NEW C, NEW list \in Seq(C), NEW row \in [Places -> Nat], NEW c, 1 .. Len(list) \subseteq Places
    PROVE  \E u \in [0 .. Len(list) -> Nat] : AddsUp(u, list, row, c) /\ Beside(list, row, c) = u[Len(list)]
<1> DEFINE M == Len(list)
           Sums(f, n) == /\ f[0] = 0
                         /\ \A k \in 0 .. n - 1 : f[k + 1] = f[k] + Has(list, row, c, k + 1)
           T == {n \in 0 .. M : \E f \in [0 .. n -> Nat] : Sums(f, n)}
<1>0. M \in Nat /\ \A k \in 0 .. M - 1 : Has(list, row, c, k + 1) \in Nat
  <2>1. M \in Nat
    OBVIOUS
  <2>2. ASSUME NEW k \in 0 .. M - 1 PROVE Has(list, row, c, k + 1) \in Nat
    <3>1. k + 1 \in 1 .. M
      BY <2>1
    <3>2. row[k + 1] \in Nat
      BY <3>1
    <3> QED BY <3>2 DEF Has
  <2> QED BY <2>1, <2>2
<1>1. 0 \in T
  <2>1. [k \in 0 .. 0 |-> 0] \in [0 .. 0 -> Nat] /\ Sums([k \in 0 .. 0 |-> 0], 0)
    OBVIOUS
  <2>2. \E f \in [0 .. 0 -> Nat] : Sums(f, 0)
    <3> HIDE DEF Sums
    <3> QED BY <2>1
  <2> QED BY <1>0, <2>2
<1>2. ASSUME NEW n \in 0 .. M - 1, n \in T PROVE n + 1 \in T
  <2>1. PICK f \in [0 .. n -> Nat] : Sums(f, n)
    BY <1>2
  <2>2. PICK new \in Nat : new = f[n] + Has(list, row, c, n + 1)
    <3>1. n \in 0 .. n /\ f[n] \in Nat
      BY <1>0
    <3> QED BY <1>0, <3>1
  <2> DEFINE g == [k \in 0 .. n + 1 |-> IF k = n + 1 THEN new ELSE f[k]]
  <2>3. g \in [0 .. n + 1 -> Nat] /\ g[n + 1] = new /\ \A k \in 0 .. n : g[k] = f[k]
    BY <1>0, <2>2
  <2> HIDE DEF g
  <2>4. Sums(g, n + 1)
    <3>1. g[0] = 0
      BY <1>0, <2>1, <2>3
    <3>2. ASSUME NEW k \in 0 .. n PROVE g[k + 1] = g[k] + Has(list, row, c, k + 1)
      <4>1. CASE k = n
        BY <2>2, <2>3, <4>1
      <4>2. CASE k # n
        <5>1. k \in 0 .. n - 1 /\ k + 1 \in 0 .. n /\ k \in 0 .. n
          BY <1>0, <4>2
        <5> QED BY <2>1, <2>3, <5>1
      <4> QED BY <4>1, <4>2
    <3>3. (n + 1) - 1 = n
      BY <1>0
    <3> QED BY <3>1, <3>2, <3>3
  <2>5. n + 1 \in 0 .. M
    BY <1>0
  <2>6. \E h \in [0 .. n + 1 -> Nat] : Sums(h, n + 1)
    <3> HIDE DEF Sums
    <3> QED BY <2>3, <2>4
  <2> QED BY <2>5, <2>6
<1>3. M \in T
  <2> HIDE DEF T
  <2>1. \A k \in 0 .. M : k \in T
    BY <1>0, <1>1, <1>2, UpTo
  <2> QED BY <1>0, <2>1
<1>4. PICK f \in [0 .. M -> Nat] : Sums(f, M)
  BY <1>3
<1> DEFINE Body(b) == [i \in 0 .. Len(list) |->
                IF i = 0 THEN 0 ELSE b[i - 1] + (IF list[i] = c THEN row[i] ELSE 0)]
           u == CHOOSE b : b = Body(b)
<1>5. f = Body(f)
  <2>1. ASSUME NEW i \in 0 .. M
        PROVE  f[i] = IF i = 0 THEN 0 ELSE f[i - 1] + (IF list[i] = c THEN row[i] ELSE 0)
    <3>1. CASE i = 0
      BY <1>4, <3>1
    <3>2. CASE i # 0
      <4>1. i - 1 \in 0 .. M - 1 /\ (i - 1) + 1 = i
        BY <1>0, <3>2
      <4>2. f[(i - 1) + 1] = f[i - 1] + Has(list, row, c, (i - 1) + 1)
        BY <1>4, <4>1
      <4> QED BY <3>2, <4>1, <4>2 DEF Has
    <3> QED BY <3>1, <3>2
  <2> QED BY <2>1
<1>6. u = Body(u)
  BY <1>5
<1>7. u[0] = 0 /\ \A k \in 0 .. M - 1 : u[k + 1] = u[k] + Has(list, row, c, k + 1)
  <2> HIDE DEF u
  <2>1. ASSUME NEW i \in 0 .. M
        PROVE  u[i] = IF i = 0 THEN 0 ELSE u[i - 1] + Has(list, row, c, i)
    BY <1>6 DEF Has
  <2>2. u[0] = 0
    BY <1>0, <2>1
  <2>3. ASSUME NEW k \in 0 .. M - 1 PROVE u[k + 1] = u[k] + Has(list, row, c, k + 1)
    <3>1. k + 1 \in 0 .. M /\ k + 1 # 0 /\ (k + 1) - 1 = k
      BY <1>0
    <3>2. u[k + 1] = IF k + 1 = 0 THEN 0 ELSE u[(k + 1) - 1] + Has(list, row, c, k + 1)
      BY <2>1, <3>1
    <3> QED BY <3>1, <3>2
  <2> QED BY <2>2, <2>3
<1>8. \A k \in 0 .. M : u[k] = f[k]
  <2> DEFINE S2 == {k \in 0 .. M : u[k] = f[k]}
  <2> HIDE DEF u
  <2>1. 0 \in S2
    BY <1>0, <1>4, <1>7
  <2>2. ASSUME NEW k \in 0 .. M - 1, k \in S2 PROVE k + 1 \in S2
    <3>1. u[k + 1] = u[k] + Has(list, row, c, k + 1)
      BY <1>7
    <3>2. f[k + 1] = f[k] + Has(list, row, c, k + 1)
      BY <1>4
    <3>3. k + 1 \in 0 .. M /\ u[k] = f[k]
      BY <1>0, <2>2
    <3> QED BY <3>1, <3>2, <3>3
  <2>3. \A k \in 0 .. M : k \in S2
    <3> HIDE DEF S2
    <3> QED BY <1>0, <2>1, <2>2, UpTo
  <2> QED BY <2>3
<1>9. Beside(list, row, c) = u[M]
  BY DEF Beside
<1> HIDE DEF u
<1>10. Beside(list, row, c) = f[M]
  BY <1>0, <1>8, <1>9
<1> QED BY <1>4, <1>10 DEF AddsUp

\* Where nobody voted nobody has a vote.
LEMMA BesideNone ==
    ASSUME NEW C, NEW list \in Seq(C), NEW c, 1 .. Len(list) \subseteq Places
    PROVE  Beside(list, NoCounts, c) = 0
<1>1. NoCounts \in [Places -> Nat] /\ \A i \in Places : NoCounts[i] = 0
  BY DEF NoCounts
<1>2. PICK u \in [0 .. Len(list) -> Nat] : AddsUp(u, list, NoCounts, c) /\ Beside(list, NoCounts, c) = u[Len(list)]
  BY <1>1, BesideDef
<1>3. Len(list) \in Nat
  OBVIOUS
<1> DEFINE T == {k \in 0 .. Len(list) : u[k] = 0}
<1>4. 0 \in T
  BY <1>2, <1>3 DEF AddsUp
<1>5. ASSUME NEW k \in 0 .. Len(list) - 1, k \in T PROVE k + 1 \in T
  <2>1. k + 1 \in 1 .. Len(list) /\ k + 1 \in 0 .. Len(list)
    BY <1>3
  <2>2. Has(list, NoCounts, c, k + 1) = 0
    BY <1>1, <2>1 DEF Has
  <2> QED BY <1>2, <1>5, <2>1, <2>2 DEF AddsUp
<1>6. \A k \in 0 .. Len(list) : k \in T
  <2> HIDE DEF T
  <2> QED BY <1>3, <1>4, <1>5, UpTo
<1> QED BY <1>2, <1>3, <1>6

\* A vote more counts for the candidate it is for, and for no other.
LEMMA BesideOneMore ==
    ASSUME NEW C, NEW list \in Seq(C), NEW row \in [Places -> Nat], NEW c, 1 .. Len(list) \subseteq Places,
           NEW i \in 1 .. Len(list)
    PROVE  /\ Beside(list, row, c) \in Nat
           /\ Beside(list, [row EXCEPT ![i] = @ + 1], c) = Beside(list, row, c) + (IF list[i] = c THEN 1 ELSE 0)
<1> DEFINE more == [row EXCEPT ![i] = @ + 1]
           one == IF list[i] = c THEN 1 ELSE 0
<1>1. more \in [Places -> Nat] /\ more[i] = row[i] + 1 /\ \A k \in Places : k # i => more[k] = row[k]
  OBVIOUS
<1>2. PICK u \in [0 .. Len(list) -> Nat] : AddsUp(u, list, row, c) /\ Beside(list, row, c) = u[Len(list)]
  BY BesideDef
<1> HIDE DEF more
<1>3. PICK w \in [0 .. Len(list) -> Nat] : AddsUp(w, list, more, c) /\ Beside(list, more, c) = w[Len(list)]
  BY <1>1, BesideDef
<1>4. Len(list) \in Nat /\ i \in Nat /\ one \in Nat
  OBVIOUS
<1> DEFINE T == {k \in 0 .. Len(list) : w[k] = u[k] + (IF k < i THEN 0 ELSE one)}
<1>5. 0 \in T
  BY <1>2, <1>3, <1>4 DEF AddsUp
<1>6. ASSUME NEW k \in 0 .. Len(list) - 1, k \in T PROVE k + 1 \in T
  <2>1. k + 1 \in 1 .. Len(list) /\ k + 1 \in 0 .. Len(list) /\ k + 1 \in Places /\ k \in 0 .. Len(list)
    BY <1>4
  <2>2. /\ w[k + 1] = w[k] + Has(list, more, c, k + 1) /\ u[k + 1] = u[k] + Has(list, row, c, k + 1)
        /\ w[k] = u[k] + (IF k < i THEN 0 ELSE one)
    BY <1>2, <1>3, <1>6 DEF AddsUp
  <2>3. u[k] \in Nat /\ row[k + 1] \in Nat
    BY <2>1
  <2>4. CASE k + 1 = i
    <3>1. Has(list, more, c, k + 1) = Has(list, row, c, k + 1) + one
      BY <1>1, <2>3, <2>4 DEF Has
    <3>2. Has(list, row, c, k + 1) \in Nat
      BY <2>3 DEF Has
    <3>3. k < i /\ ~(k + 1 < i)
      BY <1>4, <2>1, <2>4
    <3> HIDE DEF one
    <3> QED BY <1>4, <2>1, <2>2, <2>3, <3>1, <3>2, <3>3
  <2>5. CASE k + 1 # i
    <3>1. Has(list, more, c, k + 1) = Has(list, row, c, k + 1)
      BY <1>1, <2>1, <2>5 DEF Has
    <3>2. Has(list, row, c, k + 1) \in Nat
      BY <2>3 DEF Has
    <3>3. k < i <=> k + 1 < i
      BY <1>4, <2>1, <2>5
    <3> HIDE DEF one
    <3> QED BY <1>4, <2>1, <2>2, <2>3, <3>1, <3>2, <3>3
  <2> QED BY <2>4, <2>5
<1>7. \A k \in 0 .. Len(list) : k \in T
  <2> HIDE DEF T
  <2> QED BY <1>4, <1>5, <1>6, UpTo
<1>8. w[Len(list)] = u[Len(list)] + one
  <2>1. Len(list) \in T /\ ~(Len(list) < i)
    BY <1>4, <1>7
  <2> QED BY <2>1
<1>9. u[Len(list)] \in Nat
  <2>1. Len(list) \in 0 .. Len(list)
    BY <1>4
  <2> QED BY <2>1
<1> QED BY <1>2, <1>3, <1>8, <1>9 DEF more

\* The events of the election that is running, who they list, and what
\* the log yields of the past.
RunningOf(s) == Part(s, "DivisionsCleared", Over(s, "DivisionsCleared") + 1)
AddedIn(s) == {e.of : e \in Elements(OfKind(RunningOf(s), "DivisionAdded"))}
HistoryOf(s) ==
    [k \in 1 .. Over(s, "DivisionsCleared") |-> Concluded(Part(s, "DivisionsCleared", k))]

\* Nothing was ever said of a contract.
Unheard(s, d) == \A i \in 1 .. Len(s) : s[i].of # d

Emitted ==
    [kind : {"CandidatesUpdated", "VoteCast", "ElectionReset", "DivisionAdded", "DivisionsCleared"},
     of : Wards \cup {0}, what : Ballots \cup Places \cup {0}]

\* The log grows by an event of the election that is running.
GrowsBy(s, t, e) ==
    /\ t \in Seq(Emitted) /\ RunningOf(t) \in Seq(Emitted)
    /\ HistoryOf(t) = HistoryOf(s)
    /\ AddedIn(t) = AddedIn(s) \cup (IF e.kind = "DivisionAdded" THEN {e.of} ELSE {})
    /\ \A d : OfWard(RunningOf(t), d) = IF e.of = d /\ e.kind # "DivisionAdded"
                                        THEN Append(OfWard(RunningOf(s), d), e)
                                        ELSE OfWard(RunningOf(s), d)
    /\ \A d : Unheard(t, d) <=> Unheard(s, d) /\ e.of # d

LEMMA HistoryIs == History = HistoryOf(log)
BY DEF History, HistoryOf, Cycle, Over

LEMMA RunningType ==
    ASSUME NEW s \in Seq(Emitted)
    PROVE  RunningOf(s) \in Seq(Emitted) /\ Over(s, "DivisionsCleared") \in Nat
           /\ \A d : OfWard(RunningOf(s), d) \in Seq(Emitted)
<1>1. Over(s, "DivisionsCleared") \in Nat
      /\ \A k \in 1 .. Over(s, "DivisionsCleared") + 1 : Part(s, "DivisionsCleared", k) \in Seq(Emitted)
  BY PartType
<1>2. Over(s, "DivisionsCleared") + 1 \in 1 .. Over(s, "DivisionsCleared") + 1
  BY <1>1
<1>3. RunningOf(s) \in Seq(Emitted)
  BY <1>1, <1>2 DEF RunningOf
<1>4. ASSUME NEW d PROVE OfWard(RunningOf(s), d) \in Seq(Emitted)
  <2>1. PICK r \in Seq(Emitted) : r = RunningOf(s)
    BY <1>3
  <2>2. OfWard(r, d) \in Seq(Emitted)
    BY ThoseElements DEF OfWard
  <2> QED BY <2>1, <2>2
<1> QED BY <1>1, <1>3, <1>4

LEMMA RunningGrows ==
    ASSUME NEW s \in Seq(Emitted), NEW e \in Emitted, e.kind # "DivisionsCleared"
    PROVE  /\ RunningOf(Append(s, e)) = Append(RunningOf(s), e)
           /\ HistoryOf(Append(s, e)) = HistoryOf(s)
<1> DEFINE t == Append(s, e)
           n == Over(s, "DivisionsCleared")
<1>1. /\ \A k \in 1 .. n : Part(t, "DivisionsCleared", k) = Part(s, "DivisionsCleared", k)
      /\ Over(t, "DivisionsCleared") = n
      /\ Part(t, "DivisionsCleared", n + 1) = Append(Part(s, "DivisionsCleared", n + 1), e)
  BY PartAppend DEF Divided
<1> HIDE DEF t, n
<1>2. [k \in 1 .. n |-> Concluded(Part(t, "DivisionsCleared", k))]
    = [k \in 1 .. n |-> Concluded(Part(s, "DivisionsCleared", k))]
  BY <1>1
<1>3. HistoryOf(t) = HistoryOf(s)
  BY <1>1, <1>2 DEF HistoryOf, n
<1>4. RunningOf(t) = Append(RunningOf(s), e)
  BY <1>1 DEF RunningOf, n
<1> QED BY <1>3, <1>4 DEF t

LEMMA LogGrows ==
    ASSUME NEW s \in Seq(Emitted), NEW e \in Emitted, e.kind # "DivisionsCleared"
    PROVE  GrowsBy(s, Append(s, e), e)
<1>1. PICK r \in Seq(Emitted) : r = RunningOf(s)
  BY RunningType
<1>2. PICK t \in Seq(Emitted) : t = Append(s, e)
  <2>1. Append(s, e) \in Seq(Emitted)
    OBVIOUS
  <2> QED BY <2>1
<1>3. RunningOf(t) = Append(r, e) /\ HistoryOf(t) = HistoryOf(s)
  BY <1>1, <1>2, RunningGrows
<1>4. RunningOf(t) \in Seq(Emitted)
  BY <1>2, RunningType
<1>5. AddedIn(t) = AddedIn(s) \cup (IF e.kind = "DivisionAdded" THEN {e.of} ELSE {})
  <2>1. PICK q \in Seq(Emitted) : q = OfKind(r, "DivisionAdded")
    BY OfKindElements
  <2>2. OfKind(Append(r, e), "DivisionAdded") = IF e.kind = "DivisionAdded" THEN Append(q, e) ELSE q
    BY <2>1, OfKindAppend
  <2>3. AddedIn(s) = {x.of : x \in Elements(q)}
    BY <1>1, <2>1 DEF AddedIn
  <2>4. AddedIn(t) = {x.of : x \in Elements(OfKind(Append(r, e), "DivisionAdded"))}
    BY <1>3 DEF AddedIn
  <2>5. Elements(Append(q, e)) = Elements(q) \cup {e}
    BY AppendElements
  <2>6. CASE e.kind = "DivisionAdded"
    <3>1. AddedIn(t) = {x.of : x \in Elements(q) \cup {e}}
      BY <2>2, <2>4, <2>5, <2>6
    <3>2. {x.of : x \in Elements(q) \cup {e}} = {x.of : x \in Elements(q)} \cup {e.of}
      OBVIOUS
    <3> QED BY <2>3, <2>6, <3>1, <3>2
  <2>7. CASE e.kind # "DivisionAdded"
    BY <2>2, <2>3, <2>4, <2>7
  <2> QED BY <2>6, <2>7
<1>6. ASSUME NEW d
      PROVE  OfWard(RunningOf(t), d) = IF e.of = d /\ e.kind # "DivisionAdded"
                                       THEN Append(OfWard(r, d), e) ELSE OfWard(r, d)
  BY <1>3, OfWardAppend
<1>7. ASSUME NEW d PROVE Unheard(t, d) <=> Unheard(s, d) /\ e.of # d
  <2>1. Len(t) = Len(s) + 1 /\ Len(s) \in Nat /\ t[Len(s) + 1] = e /\ \A i \in 1 .. Len(s) : t[i] = s[i]
    BY <1>2
  <2>2. \A i : i \in 1 .. Len(t) <=> i \in 1 .. Len(s) \/ i = Len(s) + 1
    BY <2>1
  <2> QED BY <2>1, <2>2 DEF Unheard
<1> QED BY <1>1, <1>2, <1>3, <1>4, <1>5, <1>6, <1>7 DEF GrowsBy

\* A clear makes the running election one of the past.
LEMMA LogCloses ==
    ASSUME NEW s \in Seq(Emitted), NEW e \in Emitted, e.kind = "DivisionsCleared"
    PROVE  /\ RunningOf(Append(s, e)) = <<>>
           /\ HistoryOf(Append(s, e)) = Append(HistoryOf(s), Concluded(RunningOf(s)))
<1> DEFINE t == Append(s, e)
           n == Over(s, "DivisionsCleared")
           P(k) == Concluded(Part(s, "DivisionsCleared", k))
           Q(k) == Concluded(Part(t, "DivisionsCleared", k))
<1>1. /\ \A k \in 1 .. n : Part(t, "DivisionsCleared", k) = Part(s, "DivisionsCleared", k)
      /\ Over(t, "DivisionsCleared") = n + 1
      /\ Part(t, "DivisionsCleared", n + 1) = Part(s, "DivisionsCleared", n + 1)
      /\ Part(t, "DivisionsCleared", n + 2) = <<>>
  BY PartAppend DEF Divided
<1>2. n \in Nat /\ (n + 1) + 1 = n + 2
  BY RunningType
<1>3. \A k \in 1 .. n + 1 : Q(k) = P(k)
  <2>1. \A k \in 1 .. n + 1 : k \in 1 .. n \/ k = n + 1
    BY <1>2
  <2> HIDE DEF n, t
  <2> QED BY <1>1, <2>1
<1>4. /\ HistoryOf(s) = [k \in 1 .. n |-> P(k)] /\ P(n + 1) = Concluded(RunningOf(s))
      /\ HistoryOf(t) = [k \in 1 .. Over(t, "DivisionsCleared") |-> Q(k)]
  BY DEF HistoryOf, RunningOf
<1>5. RunningOf(t) = <<>>
  BY <1>1, <1>2 DEF RunningOf
<1> HIDE DEF t, n, P, Q
<1>6. HistoryOf(t) = [k \in 1 .. n + 1 |-> Q(k)]
  BY <1>1, <1>4
<1>7. [k \in 1 .. n + 1 |-> Q(k)] = [k \in 1 .. n + 1 |-> P(k)]
  BY <1>3
<1>8. [k \in 1 .. n + 1 |-> P(k)] = Append([k \in 1 .. n |-> P(k)], P(n + 1))
  BY <1>2
<1>9. HistoryOf(t) = Append(HistoryOf(s), Concluded(RunningOf(s)))
  BY <1>4, <1>6, <1>7, <1>8
<1> QED BY <1>5, <1>9 DEF t

LEMMA LogEmpty ==
    /\ <<>> \in Seq(Emitted) /\ RunningOf(<<>>) = <<>> /\ HistoryOf(<<>>) = <<>> /\ AddedIn(<<>>) = {}
    /\ \A d : Unheard(<<>>, d)
<1>1. Over(<<>>, "DivisionsCleared") = 0 /\ Part(<<>>, "DivisionsCleared", 1) = <<>> /\ 0 + 1 = 1
  BY NothingDivided
<1>2. RunningOf(<<>>) = <<>>
  BY <1>1 DEF RunningOf
<1>3. HistoryOf(<<>>) = <<>>
  <2>1. HistoryOf(<<>>) = [k \in 1 .. 0 |-> Concluded(Part(<<>>, "DivisionsCleared", k))]
    BY <1>1 DEF HistoryOf
  <2> QED BY <2>1
<1>4. AddedIn(<<>>) = {}
  <2>1. OfKind(<<>>, "DivisionAdded") = <<>>
    BY NothingTold, NothingFiltered DEF OfKind
  <2>2. Elements(<<>>) = {}
    BY DEF Elements
  <2> QED BY <1>2, <2>1, <2>2 DEF AddedIn
<1> QED BY <1>2, <1>3, <1>4 DEF Unheard

ResultsType ==
    /\ log \in Seq(Emitted) /\ open \in Seq(Wards) /\ polling \subseteq Wards
    /\ ballotOf \in [Wards -> Ballots \cup {<<>>}]
    /\ counts \in [Wards -> [Places -> Nat]] /\ meant \in [Wards -> [Candidates -> Nat]]
    /\ past = [d \in Wards |-> past[d]]

\* The events of a listed contract tell its past and its present; of another
\* one there are none since the registry was cleared.
Tells(d) ==
    /\ d \in Elements(open) => TellsOf(OfWard(RunningOf(log), d), past[d], ballotOf[d], counts[d])
    /\ d \notin Elements(open) => OfWard(RunningOf(log), d) = <<>> /\ past[d] = <<>>

\* Nobody votes before the polls open, nobody opens them without a list,
\* what is beside a name are the votes meant for it, and lists and listing are
\* in the log.
Votes(d) ==
    /\ d \notin polling => counts[d] = NoCounts /\ meant[d] = NoVotesMeant
    /\ ballotOf[d] = <<>> => d \notin polling
    /\ \A c \in Candidates : Beside(ballotOf[d], counts[d], c) = meant[d][c]
    /\ Unheard(log, d) => ballotOf[d] = <<>> /\ d \notin Elements(open)

ResultsInductive ==
    /\ ResultsType
    /\ HistoryOf(log) = archive
    /\ AddedIn(log) = Elements(open)
    /\ \A d \in Wards : Tells(d) /\ Votes(d)

LEMMA ListPlaces ==
    ASSUME NEW b \in Ballots \cup {<<>>}
    PROVE  b \in Seq(Candidates) /\ DOMAIN b = 1 .. Len(b) /\ DOMAIN b \subseteq Places
<1>1. b \in Seq(Candidates) /\ (b \in Ballots \/ b = <<>>)
  <2>1. <<>> \in Seq(Candidates)
    OBVIOUS
  <2>2. Ballots \subseteq Seq(Candidates)
    BY ResultsAssumption
  <2> QED BY <2>1, <2>2
<1>2. DOMAIN b = 1 .. Len(b)
  BY <1>1
<1>3. DOMAIN b \subseteq Places
  <2>1. CASE b \in Ballots
    BY <2>1 DEF Places
  <2>2. CASE b = <<>>
    BY <2>2
  <2> QED BY <1>1, <2>1, <2>2
<1> QED BY <1>1, <1>2, <1>3

LEMMA ElementsHere ==
    /\ Elements(<<>>) = {}
    /\ open \in Seq(Wards) => Elements(open) \subseteq Wards
BY DEF Elements

LEMMA ResultsBegin == ResultsInit => ResultsInductive
<1> SUFFICES ASSUME ResultsInit PROVE ResultsInductive
  OBVIOUS
<1> USE DEF ResultsInit
<1>1. NoCounts \in [Places -> Nat] /\ NoVotesMeant \in [Candidates -> Nat] /\ <<>> \in Seq(Wards)
  BY DEF NoCounts, NoVotesMeant
<1>2. ResultsType
  BY <1>1, LogEmpty DEF ResultsType
<1>3. HistoryOf(log) = archive /\ AddedIn(log) = Elements(open)
  BY LogEmpty, ElementsHere
<1>4. ASSUME NEW d \in Wards PROVE Tells(d) /\ Votes(d)
  <2>1. Tells(d)
    BY LogEmpty, NothingTold, ElementsHere DEF Tells
  <2>2. ASSUME NEW c \in Candidates PROVE Beside(<<>>, NoCounts, c) = 0
    <3>1. <<>> \in Seq(Candidates) /\ 1 .. Len(<<>>) \subseteq Places
      OBVIOUS
    <3> QED BY <3>1, BesideNone
  <2>3. Votes(d)
    BY <2>2, ElementsHere DEF Votes, NoVotesMeant
  <2> QED BY <2>1, <2>3
<1> QED BY <1>2, <1>3, <1>4 DEF ResultsInductive

-----------------------------------------------------------------------------
LEMMA SetBallotKeeps ==
    ASSUME ResultsInductive, NEW d \in Wards, NEW b \in Ballots, SetBallot(d, b)
    PROVE  ResultsInductive'
<1>1. PICK e : e = Event("CandidatesUpdated", d, b)
  OBVIOUS
<1>2. e \in Emitted /\ e.kind = "CandidatesUpdated" /\ e.of = d /\ e.what = b
  BY <1>1 DEF Event, Emitted
<1>3. log' = Append(log, e) /\ d \in Elements(open) /\ d \notin polling
      /\ ballotOf' = [ballotOf EXCEPT ![d] = b]
      /\ UNCHANGED <<open, polling, counts, meant, past, archive>>
  BY <1>1 DEF SetBallot, Emit
<1>4. ResultsType
  BY DEF ResultsInductive
<1>5. GrowsBy(log, log', e)
  BY <1>2, <1>3, <1>4, LogGrows DEF ResultsType
<1>6. b # <<>>
  BY ResultsAssumption
<1>7. ResultsType'
  BY <1>3, <1>4, <1>5 DEF ResultsType, GrowsBy
<1>8. (HistoryOf(log) = archive /\ AddedIn(log) = Elements(open))'
  BY <1>2, <1>3, <1>5 DEF GrowsBy, ResultsInductive
<1>9. ASSUME NEW x \in Wards PROVE Tells(x)'
  <2>1. Tells(x)
    BY DEF ResultsInductive
  <2>2. CASE x = d
    <3>1. PICK s \in Seq(Emitted) : s = OfWard(RunningOf(log), d)
      BY <1>4, RunningType DEF ResultsType
    <3>2. OfWard(RunningOf(log'), d) = Append(s, e)
      BY <1>2, <1>5, <3>1 DEF GrowsBy
    <3>3. TellsOf(s, past[d], ballotOf[d], counts[d])
      BY <1>3, <2>1, <2>2, <3>1 DEF Tells
    <3>4. TellsOf(Append(s, e), past[d], b, counts[d])
      BY <1>2, <1>6, <3>3, TellsBallot
    <3>5. ballotOf'[d] = b
      BY <1>3, <1>4 DEF ResultsType
    <3> QED BY <1>3, <2>2, <3>2, <3>4, <3>5 DEF Tells
  <2>3. CASE x # d
    <3>1. OfWard(RunningOf(log'), x) = OfWard(RunningOf(log), x)
      BY <1>2, <1>5, <2>3 DEF GrowsBy
    <3>2. ballotOf'[x] = ballotOf[x]
      BY <1>3, <1>4, <2>3 DEF ResultsType
    <3> QED BY <1>3, <2>1, <3>1, <3>2 DEF Tells
  <2> QED BY <2>2, <2>3
<1>10. ASSUME NEW x \in Wards PROVE Votes(x)'
  <2>1. Votes(x)
    BY DEF ResultsInductive
  <2>2. Unheard(log', x) <=> Unheard(log, x) /\ d # x
    BY <1>2, <1>5 DEF GrowsBy
  <2>3. CASE x = d
    <3>1. counts[d] = NoCounts /\ meant[d] = NoVotesMeant
      BY <1>3, <2>1, <2>3 DEF Votes
    <3>2. ASSUME NEW c \in Candidates PROVE Beside(b, NoCounts, c) = NoVotesMeant[c]
      <4>1. b \in Seq(Candidates) /\ 1 .. Len(b) \subseteq Places
        BY ListPlaces
      <4> QED BY <4>1, BesideNone DEF NoVotesMeant
    <3>3. ballotOf'[d] = b
      BY <1>3, <1>4 DEF ResultsType
    <3> QED BY <1>3, <2>2, <2>3, <3>1, <3>2, <3>3 DEF Votes
  <2>4. CASE x # d
    <3>1. ballotOf'[x] = ballotOf[x]
      BY <1>3, <1>4, <2>4 DEF ResultsType
    <3> QED BY <1>3, <2>1, <2>2, <3>1 DEF Votes
  <2> QED BY <2>3, <2>4
<1> QED BY <1>7, <1>8, <1>9, <1>10 DEF ResultsInductive

LEMMA OpenPollsKeeps ==
    ASSUME ResultsInductive, NEW d \in Wards, OpenPolls(d)
    PROVE  ResultsInductive'
<1>1. ballotOf[d] # <<>> /\ polling' = polling \cup {d}
      /\ UNCHANGED <<log, open, ballotOf, counts, meant, past, archive>>
  BY DEF OpenPolls
<1>2. ResultsType'
  BY <1>1 DEF ResultsType, ResultsInductive
<1>3. (HistoryOf(log) = archive /\ AddedIn(log) = Elements(open))'
  BY <1>1 DEF ResultsInductive
<1>4. ASSUME NEW x \in Wards PROVE Tells(x)' /\ Votes(x)'
  <2>1. Tells(x) /\ Votes(x)
    BY DEF ResultsInductive
  <2> QED BY <1>1, <2>1 DEF Tells, Votes
<1> QED BY <1>2, <1>3, <1>4 DEF ResultsInductive

LEMMA CastVoteKeeps ==
    ASSUME ResultsInductive, NEW d \in Wards, NEW i \in Places, CastVote(d, i)
    PROVE  ResultsInductive'
<1>1. PICK e : e = Event("VoteCast", d, i)
  OBVIOUS
<1>2. e \in Emitted /\ e.kind = "VoteCast" /\ e.of = d /\ e.what = i
  BY <1>1 DEF Event, Emitted
<1>3. log' = Append(log, e) /\ d \in Elements(open) /\ d \in polling /\ i \in DOMAIN ballotOf[d]
      /\ counts' = [counts EXCEPT ![d][i] = @ + 1]
      /\ meant' = [meant EXCEPT ![d][ballotOf[d][i]] = @ + 1]
      /\ UNCHANGED <<open, ballotOf, polling, past, archive>>
  BY <1>1 DEF CastVote, Emit
<1>4. ResultsType
  BY DEF ResultsInductive
<1>5. GrowsBy(log, log', e)
  BY <1>2, <1>3, <1>4, LogGrows DEF ResultsType
<1>6. PICK b \in Ballots \cup {<<>>} : b = ballotOf[d]
  BY <1>4 DEF ResultsType
<1>7. b \in Seq(Candidates) /\ i \in 1 .. Len(b) /\ 1 .. Len(b) \subseteq Places /\ b[i] \in Candidates
  BY <1>3, <1>6, ListPlaces
<1>8. PICK row \in [Places -> Nat] : row = counts[d]
  BY <1>4 DEF ResultsType
<1>9. PICK m \in [Candidates -> Nat] : m = meant[d]
  BY <1>4 DEF ResultsType
<1>10. /\ counts' \in [Wards -> [Places -> Nat]] /\ counts'[d] = [row EXCEPT ![i] = @ + 1]
       /\ \A x \in Wards : x # d => counts'[x] = counts[x]
  BY <1>3, <1>4, <1>8 DEF ResultsType
<1>11. /\ meant' \in [Wards -> [Candidates -> Nat]] /\ meant'[d] = [m EXCEPT ![b[i]] = @ + 1]
       /\ \A x \in Wards : x # d => meant'[x] = meant[x]
  BY <1>3, <1>4, <1>6, <1>7, <1>9 DEF ResultsType
<1>12. ResultsType'
  BY <1>3, <1>4, <1>5, <1>10, <1>11 DEF ResultsType, GrowsBy
<1>13. (HistoryOf(log) = archive /\ AddedIn(log) = Elements(open))'
  BY <1>2, <1>3, <1>5 DEF GrowsBy, ResultsInductive
<1>14. ASSUME NEW x \in Wards PROVE Tells(x)'
  <2>1. Tells(x)
    BY DEF ResultsInductive
  <2>2. CASE x = d
    <3>1. PICK s \in Seq(Emitted) : s = OfWard(RunningOf(log), d)
      BY <1>4, RunningType DEF ResultsType
    <3>2. OfWard(RunningOf(log'), d) = Append(s, e)
      BY <1>2, <1>5, <3>1 DEF GrowsBy
    <3>3. TellsOf(s, past[d], b, row)
      BY <1>3, <1>6, <1>8, <2>1, <2>2, <3>1 DEF Tells
    <3>4. TellsOf(Append(s, e), past[d], b, [row EXCEPT ![i] = @ + 1])
      BY <1>2, <3>3, TellsVote
    <3> QED BY <1>3, <1>6, <1>10, <2>2, <3>2, <3>4 DEF Tells
  <2>3. CASE x # d
    <3>1. OfWard(RunningOf(log'), x) = OfWard(RunningOf(log), x)
      BY <1>2, <1>5, <2>3 DEF GrowsBy
    <3> QED BY <1>3, <1>10, <2>1, <2>3, <3>1 DEF Tells
  <2> QED BY <2>2, <2>3
<1>15. ASSUME NEW x \in Wards PROVE Votes(x)'
  <2>1. Votes(x)
    BY DEF ResultsInductive
  <2>2. Unheard(log', x) <=> Unheard(log, x) /\ d # x
    BY <1>2, <1>5 DEF GrowsBy
  <2>3. CASE x = d
    <3>1. ASSUME NEW c \in Candidates
          PROVE  Beside(b, [row EXCEPT ![i] = @ + 1], c) = [m EXCEPT ![b[i]] = @ + 1][c]
      <4>1. Beside(b, row, c) = m[c]
        BY <1>6, <1>8, <1>9, <2>1, <2>3 DEF Votes
      <4>2. Beside(b, [row EXCEPT ![i] = @ + 1], c) = Beside(b, row, c) + (IF b[i] = c THEN 1 ELSE 0)
        BY <1>7, BesideOneMore
      <4>3. [m EXCEPT ![b[i]] = @ + 1][c] = m[c] + (IF b[i] = c THEN 1 ELSE 0)
        BY <1>7
      <4> QED BY <4>1, <4>2, <4>3
    <3> QED BY <1>3, <1>6, <1>10, <1>11, <2>1, <2>2, <2>3, <3>1 DEF Votes
  <2>4. CASE x # d
    BY <1>3, <1>10, <1>11, <2>1, <2>2, <2>4 DEF Votes
  <2> QED BY <2>3, <2>4
<1> QED BY <1>12, <1>13, <1>14, <1>15 DEF ResultsInductive

LEMMA EndedIs == \A d : Ended(d) = EndedWith(past[d], ballotOf[d], counts[d])
BY DEF Ended, EndedWith, Outcome

LEMMA ResetBallotKeeps ==
    ASSUME ResultsInductive, NEW d \in Wards, ResetBallot(d)
    PROVE  ResultsInductive'
<1>1. PICK e : e = Event("ElectionReset", d, 0)
  OBVIOUS
<1>2. e \in Emitted /\ e.kind = "ElectionReset" /\ e.of = d
  BY <1>1 DEF Event, Emitted
<1>3. /\ log' = Append(log, e) /\ d \in Elements(open) /\ past' = [past EXCEPT ![d] = Ended(d)]
      /\ ballotOf' = [ballotOf EXCEPT ![d] = <<>>] /\ polling' = polling \ {d}
      /\ counts' = [counts EXCEPT ![d] = NoCounts] /\ meant' = [meant EXCEPT ![d] = NoVotesMeant]
      /\ UNCHANGED <<open, archive>>
  BY <1>1 DEF ResetBallot, Emit, Blank
<1>4. ResultsType
  BY DEF ResultsInductive
<1>5. GrowsBy(log, log', e)
  BY <1>2, <1>3, <1>4, LogGrows DEF ResultsType
<1>6. NoCounts \in [Places -> Nat] /\ NoVotesMeant \in [Candidates -> Nat]
  BY DEF NoCounts, NoVotesMeant
<1>7. /\ ballotOf'[d] = <<>> /\ counts'[d] = NoCounts /\ meant'[d] = NoVotesMeant
      /\ past'[d] = EndedWith(past[d], ballotOf[d], counts[d])
      /\ \A x \in Wards : x # d => /\ ballotOf'[x] = ballotOf[x] /\ counts'[x] = counts[x]
                                   /\ meant'[x] = meant[x] /\ past'[x] = past[x]
  <2>1. past'[d] = Ended(d) /\ \A x \in Wards : x # d => past'[x] = past[x]
    BY <1>3, <1>4 DEF ResultsType
  <2> QED BY <1>3, <1>4, <2>1, EndedIs DEF ResultsType
<1>8. ResultsType'
  BY <1>3, <1>4, <1>5, <1>6 DEF ResultsType, GrowsBy
<1>9. (HistoryOf(log) = archive /\ AddedIn(log) = Elements(open))'
  BY <1>2, <1>3, <1>5 DEF GrowsBy, ResultsInductive
<1>10. ASSUME NEW x \in Wards PROVE Tells(x)'
  <2>1. Tells(x)
    BY DEF ResultsInductive
  <2>2. CASE x = d
    <3>1. PICK s \in Seq(Emitted) : s = OfWard(RunningOf(log), d)
      BY <1>4, RunningType DEF ResultsType
    <3>2. OfWard(RunningOf(log'), d) = Append(s, e)
      BY <1>2, <1>5, <3>1 DEF GrowsBy
    <3>3. TellsOf(s, past[d], ballotOf[d], counts[d])
      BY <1>3, <2>1, <2>2, <3>1 DEF Tells
    <3>4. DOMAIN ballotOf[d] \subseteq Places
      BY <1>4, ListPlaces DEF ResultsType
    <3>5. TellsOf(Append(s, e), EndedWith(past[d], ballotOf[d], counts[d]), <<>>, NoCounts)
      BY <1>2, <3>3, <3>4, TellsReset
    <3> QED BY <1>3, <1>7, <2>2, <3>2, <3>5 DEF Tells
  <2>3. CASE x # d
    <3>1. OfWard(RunningOf(log'), x) = OfWard(RunningOf(log), x)
      BY <1>2, <1>5, <2>3 DEF GrowsBy
    <3> QED BY <1>3, <1>7, <2>1, <2>3, <3>1 DEF Tells
  <2> QED BY <2>2, <2>3
<1>11. ASSUME NEW x \in Wards PROVE Votes(x)'
  <2>1. Votes(x)
    BY DEF ResultsInductive
  <2>2. Unheard(log', x) <=> Unheard(log, x) /\ d # x
    BY <1>2, <1>5 DEF GrowsBy
  <2>3. CASE x = d
    <3>1. ASSUME NEW c \in Candidates PROVE Beside(<<>>, NoCounts, c) = NoVotesMeant[c]
      <4>1. <<>> \in Seq(Candidates) /\ 1 .. Len(<<>>) \subseteq Places
        OBVIOUS
      <4> QED BY <4>1, BesideNone DEF NoVotesMeant
    <3> QED BY <1>3, <1>7, <2>2, <2>3, <3>1 DEF Votes
  <2>4. CASE x # d
    BY <1>3, <1>7, <2>1, <2>2, <2>4 DEF Votes
  <2> QED BY <2>3, <2>4
<1> QED BY <1>8, <1>9, <1>10, <1>11 DEF ResultsInductive

\* A contract without a list tells of nothing, before it is listed and after.
LEMMA ListedNow ==
    ASSUME ResultsInductive, NEW d \in Wards, d \notin Elements(open)
    PROVE  /\ Elements(Append(open, d)) = Elements(open) \cup {d} /\ Append(open, d) \in Seq(Wards)
           /\ OfWard(RunningOf(log), d) = <<>> /\ past[d] = <<>>
           /\ ballotOf[d] = <<>> => counts[d] = NoCounts /\ meant[d] = NoVotesMeant
           /\ TellsOf(<<>>, past[d], <<>>, NoCounts)
<1>1. open \in Seq(Wards) /\ Tells(d) /\ Votes(d)
  BY DEF ResultsInductive, ResultsType
<1>2. Elements(Append(open, d)) = Elements(open) \cup {d} /\ Append(open, d) \in Seq(Wards)
  BY <1>1, AppendElements
<1>3. OfWard(RunningOf(log), d) = <<>> /\ past[d] = <<>>
  BY <1>1 DEF Tells
<1>4. ballotOf[d] = <<>> => counts[d] = NoCounts /\ meant[d] = NoVotesMeant
  BY <1>1 DEF Votes
<1> QED BY <1>2, <1>3, <1>4, TellsNothing

LEMMA ListWardKeeps ==
    ASSUME ResultsInductive, NEW d \in Wards, ListWard(d)
    PROVE  ResultsInductive'
<1>1. PICK e : e = Event("DivisionAdded", d, 0)
  OBVIOUS
<1>2. e \in Emitted /\ e.kind = "DivisionAdded" /\ e.of = d
  BY <1>1 DEF Event, Emitted
<1>3. /\ log' = Append(log, e) /\ d \notin Elements(open) /\ ballotOf[d] = <<>> /\ open' = Append(open, d)
      /\ UNCHANGED <<ballotOf, polling, counts, meant, past, archive>>
  BY <1>1 DEF ListWard, Emit
<1>4. ResultsType
  BY DEF ResultsInductive
<1>5. GrowsBy(log, log', e)
  BY <1>2, <1>3, <1>4, LogGrows DEF ResultsType
<1>6. /\ Elements(open') = Elements(open) \cup {d} /\ open' \in Seq(Wards)
      /\ OfWard(RunningOf(log), d) = <<>> /\ counts[d] = NoCounts
      /\ TellsOf(<<>>, past[d], <<>>, NoCounts)
  BY <1>3, ListedNow
<1>7. ResultsType'
  BY <1>3, <1>4, <1>5, <1>6 DEF ResultsType, GrowsBy
<1>8. (HistoryOf(log) = archive /\ AddedIn(log) = Elements(open))'
  BY <1>2, <1>3, <1>5, <1>6 DEF GrowsBy, ResultsInductive
<1>9. ASSUME NEW x \in Wards PROVE Tells(x)' /\ Votes(x)'
  <2>1. Tells(x) /\ Votes(x)
    BY DEF ResultsInductive
  <2>2. OfWard(RunningOf(log'), x) = OfWard(RunningOf(log), x)
    BY <1>2, <1>5 DEF GrowsBy
  <2>3. Unheard(log', x) => Unheard(log, x) /\ x # d
    BY <1>2, <1>5 DEF GrowsBy
  <2>4. Votes(x)'
    BY <1>3, <1>6, <2>1, <2>3 DEF Votes
  <2>5. Tells(x)'
    BY <1>3, <1>6, <2>1, <2>2 DEF Tells
  <2> QED BY <2>4, <2>5
<1> QED BY <1>7, <1>8, <1>9 DEF ResultsInductive

LEMMA DeployWardKeeps ==
    ASSUME ResultsInductive, NEW d \in Wards, NEW b \in Ballots, DeployWard(d, b)
    PROVE  ResultsInductive'
<1>1. PICK e : e = Event("CandidatesUpdated", d, b)
  OBVIOUS
<1>2. PICK a : a = Event("DivisionAdded", d, 0)
  OBVIOUS
<1>3. /\ e \in Emitted /\ e.kind = "CandidatesUpdated" /\ e.of = d /\ e.what = b
      /\ a \in Emitted /\ a.kind = "DivisionAdded" /\ a.of = d
  BY <1>1, <1>2 DEF Event, Emitted
<1>4. /\ \A i \in DOMAIN log : log[i].of # d
      /\ log' = log \o <<e, a>> /\ open' = Append(open, d) /\ ballotOf' = [ballotOf EXCEPT ![d] = b]
      /\ UNCHANGED <<polling, counts, meant, past, archive>>
  BY <1>1, <1>2 DEF DeployWard
<1>5. ResultsType
  BY DEF ResultsInductive
<1>6. PICK mid \in Seq(Emitted) : mid = Append(log, e)
  <2>1. Append(log, e) \in Seq(Emitted)
    BY <1>3, <1>5 DEF ResultsType
  <2> QED BY <2>1
<1>7. log' = Append(mid, a)
  BY <1>3, <1>4, <1>5, <1>6 DEF ResultsType
<1>8. GrowsBy(log, mid, e)
  BY <1>3, <1>5, <1>6, LogGrows DEF ResultsType
<1>9. GrowsBy(mid, log', a)
  BY <1>3, <1>7, LogGrows
<1>10. Unheard(log, d)
  BY <1>4, <1>5 DEF ResultsType, Unheard
<1>11. ballotOf[d] = <<>>
  BY <1>10 DEF ResultsInductive, Votes
<1>12. d \notin Elements(open)
  BY <1>10 DEF ResultsInductive, Votes
<1>13. /\ Elements(open') = Elements(open) \cup {d} /\ open' \in Seq(Wards)
       /\ OfWard(RunningOf(log), d) = <<>> /\ counts[d] = NoCounts /\ meant[d] = NoVotesMeant
       /\ TellsOf(<<>>, past[d], <<>>, NoCounts)
  BY <1>4, <1>11, <1>12, ListedNow
<1>14. b # <<>> /\ ballotOf' \in [Wards -> Ballots \cup {<<>>}] /\ ballotOf'[d] = b
       /\ \A x \in Wards : x # d => ballotOf'[x] = ballotOf[x]
  BY <1>4, <1>5, ResultsAssumption DEF ResultsType
<1>15. ResultsType'
  BY <1>4, <1>5, <1>9, <1>13, <1>14 DEF ResultsType, GrowsBy
<1>16. (HistoryOf(log) = archive /\ AddedIn(log) = Elements(open))'
  <2>1. HistoryOf(log') = HistoryOf(log) /\ AddedIn(log') = AddedIn(log) \cup {d}
    BY <1>3, <1>8, <1>9 DEF GrowsBy
  <2> QED BY <1>4, <1>13, <2>1 DEF ResultsInductive
<1>17. ASSUME NEW x \in Wards PROVE Tells(x)' /\ Votes(x)'
  <2>1. Tells(x) /\ Votes(x)
    BY DEF ResultsInductive
  <2>2. OfWard(RunningOf(log'), x) = OfWard(RunningOf(mid), x)
    BY <1>3, <1>9 DEF GrowsBy
  <2>3. Unheard(log', x) => Unheard(log, x) /\ x # d
    BY <1>3, <1>8, <1>9 DEF GrowsBy
  <2>4. CASE x = d
    <3>1. OfWard(RunningOf(mid), d) = Append(<<>>, e)
      BY <1>3, <1>8, <1>13 DEF GrowsBy
    <3>2. PICK s \in Seq(Emitted) : s = <<>>
      <4>1. <<>> \in Seq(Emitted)
        OBVIOUS
      <4> QED BY <4>1
    <3>3. TellsOf(Append(<<>>, e), past[d], b, NoCounts)
      <4>1. TellsOf(s, past[d], <<>>, NoCounts)
        BY <1>13, <3>2
      <4>2. TellsOf(Append(s, e), past[d], b, NoCounts)
        BY <1>3, <1>14, <4>1, TellsBallot
      <4> QED BY <3>2, <4>2
    <3>4. Tells(x)'
      BY <1>4, <1>13, <1>14, <2>2, <2>4, <3>1, <3>3 DEF Tells
    <3>5. ASSUME NEW c \in Candidates PROVE Beside(b, NoCounts, c) = NoVotesMeant[c]
      <4>1. b \in Seq(Candidates) /\ 1 .. Len(b) \subseteq Places
        BY ListPlaces
      <4> QED BY <4>1, BesideNone DEF NoVotesMeant
    <3>6. Votes(x)'
      BY <1>4, <1>13, <1>14, <2>3, <2>4, <3>5 DEF Votes
    <3> QED BY <3>4, <3>6
  <2>5. CASE x # d
    <3>1. OfWard(RunningOf(mid), x) = OfWard(RunningOf(log), x)
      BY <1>3, <1>8, <2>5 DEF GrowsBy
    <3>2. Votes(x)'
      BY <1>4, <1>13, <1>14, <2>1, <2>3, <2>5 DEF Votes
    <3>3. Tells(x)'
      BY <1>4, <1>13, <1>14, <2>1, <2>2, <2>5, <3>1 DEF Tells
    <3> QED BY <3>2, <3>3
  <2> QED BY <2>4, <2>5
<1> QED BY <1>15, <1>16, <1>17 DEF ResultsInductive
LEMMA ClearWardsKeeps ==
    ASSUME ResultsInductive, ClearWards
    PROVE  ResultsInductive'
<1>1. PICK e : e = Event("DivisionsCleared", 0, 0)
  OBVIOUS
<1>2. e \in Emitted /\ e.kind = "DivisionsCleared"
  BY <1>1 DEF Event, Emitted
<1>3. /\ log' = Append(log, e) /\ archive' = Append(archive, [d \in Elements(open) |-> Ended(d)])
      /\ past' = [d \in Wards |-> <<>>] /\ open' = <<>>
      /\ UNCHANGED <<ballotOf, polling, counts, meant>>
  BY <1>1 DEF ClearWards, Emit
<1>4. ResultsType
  BY DEF ResultsInductive
<1>5. RunningOf(log') = <<>> /\ HistoryOf(log') = Append(HistoryOf(log), Concluded(RunningOf(log)))
  BY <1>2, <1>3, <1>4, LogCloses DEF ResultsType
<1>6. log' \in Seq(Emitted) /\ \A d : Unheard(log', d) => Unheard(log, d)
  <2>1. PICK s \in Seq(Emitted) : s = log
    BY <1>4 DEF ResultsType
  <2>2. /\ Append(s, e) \in Seq(Emitted) /\ Len(s) \in Nat /\ Len(Append(s, e)) = Len(s) + 1
        /\ \A i \in 1 .. Len(s) : Append(s, e)[i] = s[i]
    BY <1>2
  <2>3. 1 .. Len(s) \subseteq 1 .. Len(Append(s, e))
    BY <2>2
  <2>4. \A d : Unheard(Append(s, e), d) => Unheard(s, d)
    BY <2>2, <2>3 DEF Unheard
  <2> QED BY <1>3, <2>1, <2>2, <2>4
<1>7. Concluded(RunningOf(log)) = [d \in Elements(open) |-> Ended(d)]
  <2>1. Concluded(RunningOf(log)) = [d \in AddedIn(log) |-> Told(Segments(OfWard(RunningOf(log), d)))]
    BY DEF Concluded, AddedIn
  <2>2. AddedIn(log) = Elements(open)
    BY DEF ResultsInductive
  <2>3. ASSUME NEW d \in Elements(open) PROVE Told(Segments(OfWard(RunningOf(log), d))) = Ended(d)
    <3>1. d \in Wards
      BY <1>4, ElementsHere DEF ResultsType
    <3>2. PICK s \in Seq(Emitted) : s = OfWard(RunningOf(log), d)
      BY <1>4, RunningType DEF ResultsType
    <3>3. TellsOf(s, past[d], ballotOf[d], counts[d])
      BY <3>1, <3>2 DEF ResultsInductive, Tells
    <3>4. DOMAIN ballotOf[d] \subseteq Places
      BY <1>4, <3>1, ListPlaces DEF ResultsType
    <3>5. Told(Segments(s)) = EndedWith(past[d], ballotOf[d], counts[d])
      BY <3>3, <3>4, TellsEnds
    <3> QED BY <3>2, <3>5, EndedIs
  <2> QED BY <2>1, <2>2, <2>3
<1>8. HistoryOf(log') = archive'
  BY <1>3, <1>5, <1>7 DEF ResultsInductive
<1>9. AddedIn(log') = {} /\ Elements(open') = {}
  BY <1>3, <1>5, LogEmpty, ElementsHere DEF AddedIn
<1>10. ResultsType'
  <2>1. open' \in Seq(Wards)
    BY <1>3
  <2>2. past' = [d \in Wards |-> past'[d]]
    BY <1>3
  <2> QED BY <1>3, <1>4, <1>6, <2>1, <2>2 DEF ResultsType
<1>11. ASSUME NEW x \in Wards PROVE Tells(x)' /\ Votes(x)'
  <2>1. Votes(x)
    BY DEF ResultsInductive
  <2>2. Votes(x)'
    BY <1>3, <1>6, <1>9, <2>1 DEF Votes
  <2>3. OfWard(RunningOf(log'), x) = <<>> /\ past'[x] = <<>>
    BY <1>3, <1>5, NothingTold
  <2>4. Tells(x)'
    BY <1>9, <2>3 DEF Tells
  <2> QED BY <2>2, <2>4
<1> QED BY <1>8, <1>9, <1>10, <1>11 DEF ResultsInductive

-----------------------------------------------------------------------------
LEMMA ResultsStep == ResultsInductive /\ [ResultsNext]_resultVars => ResultsInductive'
<1> SUFFICES ASSUME ResultsInductive, [ResultsNext]_resultVars PROVE ResultsInductive'
  OBVIOUS
<1>1. ASSUME NEW d \in Wards, NEW b \in Ballots, SetBallot(d, b) PROVE ResultsInductive'
  BY <1>1, SetBallotKeeps
<1>2. ASSUME NEW d \in Wards, NEW b \in Ballots, DeployWard(d, b) PROVE ResultsInductive'
  BY <1>2, DeployWardKeeps
<1>3. ASSUME NEW d \in Wards, NEW i \in Places, CastVote(d, i) PROVE ResultsInductive'
  BY <1>3, CastVoteKeeps
<1>4. ASSUME NEW d \in Wards, OpenPolls(d) PROVE ResultsInductive'
  BY <1>4, OpenPollsKeeps
<1>5. ASSUME NEW d \in Wards, ResetBallot(d) PROVE ResultsInductive'
  BY <1>5, ResetBallotKeeps
<1>6. ASSUME NEW d \in Wards, ListWard(d) PROVE ResultsInductive'
  BY <1>6, ListWardKeeps
<1>7. CASE ClearWards
  BY <1>7, ClearWardsKeeps
<1>8. CASE UNCHANGED resultVars
  <2>1. UNCHANGED <<log, open, ballotOf, polling, counts, meant, past, archive>>
    BY <1>8 DEF resultVars
  <2>2. ResultsType' /\ (HistoryOf(log) = archive /\ AddedIn(log) = Elements(open))'
    BY <2>1 DEF ResultsInductive, ResultsType
  <2>3. ASSUME NEW d \in Wards PROVE Tells(d)' /\ Votes(d)'
    <3>1. Tells(d) /\ Votes(d)
      BY DEF ResultsInductive
    <3> QED BY <2>1, <3>1 DEF Tells, Votes
  <2> QED BY <2>2, <2>3 DEF ResultsInductive
<1> QED BY <1>1, <1>2, <1>3, <1>4, <1>5, <1>6, <1>7, <1>8 DEF ResultsNext

LEMMA ResultsInductiveSuffices == ResultsInductive => ResultsInv
<1> SUFFICES ASSUME ResultsInductive PROVE ResultsInv
  OBVIOUS
<1>1. HistoryFaithful
  BY HistoryIs DEF ResultsInductive, HistoryFaithful
<1>2. NationalFaithful
  <2> SUFFICES ASSUME NEW c \in Candidates
               PROVE  TotalByName(c) = Sum([d \in Elements(open) |-> meant[d][c]], Elements(open))
    BY DEF NationalFaithful
  <2>1. ASSUME NEW d \in Elements(open) PROVE Beside(ballotOf[d], counts[d], c) = meant[d][c]
    <3>1. d \in Wards
      BY ElementsHere DEF ResultsInductive, ResultsType
    <3> QED BY <3>1 DEF ResultsInductive, Votes
  <2>2. [d \in Elements(open) |-> Beside(ballotOf[d], counts[d], c)] = [d \in Elements(open) |-> meant[d][c]]
    BY <2>1
  <2> QED BY <2>2 DEF TotalByName
<1> QED BY <1>1, <1>2 DEF ResultsInv

\* However lists are revised, divisions reset, listed again and cleared, the
\* log yields every election that ended, as it was voted, and no other; and
\* the totals of the one that runs are the votes cast for each candidate
\* (api/election/history/route.ts, utils/nationalResults.ts).
THEOREM ResultsInvAlways == ResultsSpec => []ResultsInv
<1>1. ResultsInit => ResultsInductive
  BY ResultsBegin
<1>2. ResultsInductive /\ [ResultsNext]_resultVars => ResultsInductive'
  BY ResultsStep
<1>3. ResultsInductive => ResultsInv
  BY ResultsInductiveSuffices
<1> QED BY <1>1, <1>2, <1>3, PTL DEF ResultsSpec
=============================================================================
