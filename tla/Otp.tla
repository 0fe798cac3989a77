----------------------------------- MODULE Otp -----------------------------------
(***************************************************************************)
(* packages/nextjs/services/otp/otpService.ts: one-time codes for one      *)
(* phone number, and the two routes that send and verify them.  A code is  *)
(* known by its number: the n-th one sent.  Verification does not wait for *)
(* anything, but the answers, the message and the voter do: codes are      *)
(* tried in any order and at any time after they were sent.                *)
(***************************************************************************)
EXTENDS Naturals, Sequences, FiniteSets

CONSTANTS
    MAX_ATTEMPTS,
    CODE_TTL_MS,
    RESEND_COOLDOWN_MS,
    MaxCodes,   \* codes sent
    MaxClock    \* the clock is not followed beyond

ASSUME OtpAssumption ==
    /\ MAX_ATTEMPTS \in Nat \ {0} /\ CODE_TTL_MS \in Nat
    /\ RESEND_COOLDOWN_MS \in 0 .. CODE_TTL_MS
    /\ MaxCodes \in Nat /\ MaxClock \in Nat

VARIABLES
    clock,
    record,  \* the number's record: the code, its end, its tries, when it was sent
    sent,    \* when each code was sent
    tries,   \* codes compared with each code, over its life
    tokens   \* the codes proofs of phone were issued for, and when

otpVars == <<clock, record, sent, tries, tokens>>

NoRecord == [code |-> 0, expiresAt |-> 0, attempts |-> 0, lastSentAt |-> 0]

\* Mutant: the cooldown ends a moment early.
CoolingDownShort == record # NoRecord /\ clock - record.lastSentAt + 1 < RESEND_COOLDOWN_MS

CoolingDown == record # NoRecord /\ clock - record.lastSentAt < RESEND_COOLDOWN_MS

\* sendOtp.  A new code replaces the one before it, and its tries.
SendOtp ==
    /\ Len(sent) < MaxCodes
    /\ ~CoolingDown
    /\ record' = [code |-> Len(sent) + 1, expiresAt |-> clock + CODE_TTL_MS, attempts |-> 0,
                  lastSentAt |-> clock]
    /\ sent' = Append(sent, clock)
    /\ tries' = Append(tries, 0)
    /\ UNCHANGED <<clock, tokens>>

\* verifyOtp on a record that is no longer good: it is deleted.
Discard ==
    /\ record # NoRecord
    /\ clock > record.expiresAt \/ record.attempts >= MAX_ATTEMPTS
    /\ record' = NoRecord
    /\ UNCHANGED <<clock, sent, tries, tokens>>

\* Mutant: a code stays good after it was used.
VerifyKeeps(code) ==
    /\ record # NoRecord /\ clock <= record.expiresAt /\ record.attempts < MAX_ATTEMPTS
    /\ tries' = [tries EXCEPT ![record.code] = @ + 1]
    /\ record' = [record EXCEPT !.attempts = @ + 1]
    /\ tokens' = IF code = record.code THEN Append(tokens, [code |-> code, at |-> clock]) ELSE tokens
    /\ UNCHANGED <<clock, sent>>

\* Mutant: a wrong code is not counted.
VerifyUncounted(code) ==
    /\ record # NoRecord /\ clock <= record.expiresAt /\ record.attempts < MAX_ATTEMPTS
    /\ tries' = [tries EXCEPT ![record.code] = @ + 1]
    /\ IF code = record.code
       THEN record' = NoRecord /\ tokens' = Append(tokens, [code |-> code, at |-> clock])
       ELSE UNCHANGED <<record, tokens>>
    /\ UNCHANGED <<clock, sent>>

\* verifyOtp; 0 is a guess.
Verify(code) ==
    /\ record # NoRecord /\ clock <= record.expiresAt /\ record.attempts < MAX_ATTEMPTS
    /\ tries' = [tries EXCEPT ![record.code] = @ + 1]
    /\ IF code = record.code
       THEN record' = NoRecord /\ tokens' = Append(tokens, [code |-> code, at |-> clock])
       ELSE record' = [record EXCEPT !.attempts = @ + 1] /\ UNCHANGED tokens
    /\ UNCHANGED <<clock, sent>>

ClockTick ==
    /\ clock < MaxClock
    /\ clock' = clock + 1
    /\ UNCHANGED <<record, sent, tries, tokens>>

OtpInit ==
    /\ clock = 0
    /\ record = NoRecord
    /\ sent = <<>>
    /\ tries = <<>>
    /\ tokens = <<>>

OtpNext ==
    \/ SendOtp \/ Discard \/ ClockTick
    \/ \E code \in 0 .. Len(sent) : Verify(code)

OtpSpec == OtpInit /\ [][OtpNext]_otpVars

-----------------------------------------------------------------------------
\* However often codes are asked for again, expire or are tried, a proof of
\* phone is worth one code: the last one sent at the time, not older than its
\* life, and used once.
TokensEarned ==
    \A i \in DOMAIN tokens :
        LET code == tokens[i].code
        IN  /\ tokens[i].at <= sent[code] + CODE_TTL_MS
            /\ \A j \in DOMAIN tokens : tokens[j].code = code => j = i
            /\ \A later \in DOMAIN sent : later > code => sent[later] >= tokens[i].at

\* A code is compared with at most MAX_ATTEMPTS guesses, in any order of
\* sends and tries.
TriesBounded == \A code \in DOMAIN tries : tries[code] <= MAX_ATTEMPTS

\* otpService.ts:21 has "30s between sends": two sends are closer only when
\* the first code was used, or tried too often, before the second was sent.
SendsSpaced ==
    \A i \in DOMAIN sent : i > 1 /\ sent[i] - sent[i - 1] < RESEND_COOLDOWN_MS =>
        \/ \E t \in DOMAIN tokens : tokens[t].code = i - 1
        \/ tries[i - 1] = MAX_ATTEMPTS

\* What a proof of phone is worth, what guessing yields and what it costs in
\* messages.
OtpInv == TokensEarned /\ TriesBounded /\ SendsSpaced
=============================================================================
