------------------------------- MODULE Throttles -------------------------------
(***************************************************************************)
(* packages/nextjs/services/auth/rateLimit.ts and the login route that is  *)
(* built on it: a fixed-window limiter per address, and a lock per user    *)
(* name after repeated failures.  A password comparison is awaited, so     *)
(* that attempts overlap, and the counters move on in between.             *)
(***************************************************************************)
EXTENDS Naturals, Sequences, FiniteSets

CONSTANTS
    Attempts,     \* POSTs to /api/auth/login
    Addresses,    \* client addresses
    Limit,        \* requests per window
    WindowMs,     \* length of a window
    MaxFailures,  \* failures before the lock
    LockoutMs,    \* length of the lock
    MaxTime       \* the clock is not followed beyond

ASSUME ThrottlesAssumption ==
    /\ Limit \in Nat \ {0} /\ WindowMs \in Nat \ {0}
    /\ MaxFailures \in Nat \ {0} /\ LockoutMs \in Nat \ {0}
    /\ MaxTime \in Nat

VARIABLES
    now,
    windows,   \* per address: requests counted, and since when
    failures,  \* for one user name: failures counted, and the end of the lock
    attempt,   \* what each request is waiting for
    admitted,  \* when requests were let through, per address, since a reset
    wrong      \* wrong passwords answered since the last success or lock's end

throttleVars == <<now, windows, failures, attempt, admitted, wrong>>

NoWindow == [count |-> 0, startedAt |-> 0]
NoFailures == [count |-> 0, lockedUntil |-> 0]

-----------------------------------------------------------------------------
(* createRateLimiter.  An entry whose window is over, and one swept, is as *)
(* good as none.                                                           *)

\* Mutant: only the request that opens a window is counted.
ConsumeUncounted(w) ==
    IF w.startedAt = 0 \/ now - w.startedAt >= WindowMs
    THEN [count |-> 1, startedAt |-> now]
    ELSE w

Consume(w) ==
    IF w.startedAt = 0 \/ now - w.startedAt >= WindowMs
    THEN [count |-> 1, startedAt |-> now]
    ELSE [w EXCEPT !.count = @ + 1]

\* createLoginGuard.
Locked == failures.lockedUntil > now

\* Mutant: the failures outlive the lock.
StatusRemembers == [failures EXCEPT !.lockedUntil = IF Locked THEN @ ELSE 0]

\* statusFor: a lock that is over takes its failures with it.
Status == IF failures.lockedUntil > 0 /\ ~Locked THEN NoFailures ELSE failures

RecordFailure ==
    failures' = IF Locked THEN failures
                ELSE LET count == Status.count + 1
                     IN  [count |-> count,
                          lockedUntil |-> IF count >= MaxFailures THEN now + LockoutMs ELSE 0]

-----------------------------------------------------------------------------
(* POST /api/auth/login.                                                   *)

\* The limiter comes first; then the body is awaited.
Arrive(a) ==
    LET ip == attempt[a].ip
        allowed == Consume(windows[ip]).count <= Limit
    IN  /\ attempt[a].pc = "idle"
        /\ windows' = [windows EXCEPT ![ip] = Consume(@)]
        /\ attempt' = [attempt EXCEPT ![a].pc = IF allowed THEN "body" ELSE "refused"]
        /\ admitted' = IF allowed THEN [admitted EXCEPT ![ip] = Append(@, now)] ELSE admitted
        /\ UNCHANGED <<now, failures, wrong>>

CheckLock(a) ==
    /\ attempt[a].pc = "body"
    /\ failures' = Status
    /\ attempt' = [attempt EXCEPT ![a].pc = IF Locked THEN "refused" ELSE "comparing"]
    /\ UNCHANGED <<now, windows, admitted, wrong>>

\* A body that is not what it should be costs nothing but the window.
BadBody(a) ==
    /\ attempt[a].pc = "body"
    /\ attempt' = [attempt EXCEPT ![a].pc = "refused"]
    /\ UNCHANGED <<now, windows, failures, admitted, wrong>>

\* The password is wrong, the account disabled, or there is none.
WrongPassword(a) ==
    /\ attempt[a].pc = "comparing"
    /\ RecordFailure
    /\ attempt' = [attempt EXCEPT ![a].pc = "refused"]
    /\ wrong' = wrong + 1
    /\ UNCHANGED <<now, windows, admitted>>

\* Success forgets the failures of the name and the window of the address.
RightPassword(a) ==
    LET ip == attempt[a].ip
    IN  /\ attempt[a].pc = "comparing"
        /\ attempt' = [attempt EXCEPT ![a].pc = "signedIn"]
        /\ failures' = NoFailures
        /\ windows' = [windows EXCEPT ![ip] = NoWindow]
        /\ admitted' = [admitted EXCEPT ![ip] = <<>>]
        /\ wrong' = 0
        /\ UNCHANGED now

Tick ==
    /\ now < MaxTime
    /\ now' = now + 1
    /\ wrong' = IF failures.lockedUntil = now' THEN 0 ELSE wrong
    /\ UNCHANGED <<windows, failures, attempt, admitted>>

-----------------------------------------------------------------------------
ThrottleInit ==
    /\ now = 1
    /\ windows = [ip \in Addresses |-> NoWindow]
    /\ failures = NoFailures
    /\ attempt \in [Attempts -> [pc : {"idle"}, ip : Addresses]]
    /\ admitted = [ip \in Addresses |-> <<>>]
    /\ wrong = 0

ThrottleNext ==
    \/ \E a \in Attempts :
        \/ Arrive(a) \/ BadBody(a) \/ CheckLock(a) \/ WrongPassword(a) \/ RightPassword(a)
    \/ Tick

ThrottleSpec == ThrottleInit /\ [][ThrottleNext]_throttleVars

-----------------------------------------------------------------------------
\* rateLimit.ts:44: "a burst of up to 2 x limit across a window boundary" and
\* no more, in any interval as long as a window, wherever it begins.
BurstBounded ==
    \A ip \in Addresses : \A t \in 1 .. MaxTime :
        Cardinality({i \in DOMAIN admitted[ip] :
                       t <= admitted[ip][i] /\ admitted[ip][i] < t + WindowMs}) <= 2 * Limit

\* A name is locked for failures of this count only: neither a success nor
\* the end of an earlier lock is held against the next mistake, whichever
\* attempts were being compared meanwhile.
LockedForCause == Locked => wrong >= MaxFailures

\* The two halves of rateLimit.ts: neither lets too much through, nor holds
\* anything against those who did nothing.
ThrottleInv == BurstBounded /\ LockedForCause
=============================================================================
