--------------------------------- MODULE Limits ---------------------------------
(***************************************************************************)
(* The two limits on guessing: of passwords (Throttles) and of one-time    *)
(* codes (Otp).                                                            *)
(***************************************************************************)
EXTENDS Throttles, Otp

\* Neither the login nor the codes let guessing through faster than their
\* limits say, or lock out who made no mistakes (rateLimit.ts,
\* otpService.ts).
LimitsInv == ThrottleInv /\ OtpInv
=============================================================================
