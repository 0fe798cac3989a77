------------------------------- MODULE MCOffices -------------------------------
(***************************************************************************)
(* What the administrator and the officers do through the web server: a    *)
(* new election, the officers' relayed calls, signing in, proving a phone, *)
(* and the results that are shown.  The modules share no state, so TLC     *)
(* looks at them one at a time: part is the one that moves, and the others *)
(* stand still.                                                            *)
(***************************************************************************)
EXTENDS ElectionAdmin, Relay, Results, Limits, TLC

TwoLeaves == {[nullifier |-> 1, secret |-> 1], [nullifier |-> 2, secret |-> 1]}

\* A list, and one that lacks its first candidate.
TwoBallots == {<<"a", "b">>, <<"b">>}

Symmetry ==
    UNION {Permutations(S) : S \in {Divisions, RelayCalls}}

VARIABLE part

officeVars == <<part, adminVars, relayVars, resultVars, throttleVars, otpVars>>

OfficesInit ==
    /\ part \in {"admin", "relay", "results", "throttles", "otp"}
    /\ AdminInit /\ RelayInit /\ ResultsInit /\ ThrottleInit /\ OtpInit
    /\ part # "throttles" => \A a \in Attempts : attempt[a].ip = CHOOSE ip \in Addresses : TRUE

AdminMoves ==
    part = "admin" /\ AdminNext
    /\ UNCHANGED <<part, relayVars, resultVars, throttleVars, otpVars>>
RelayMoves ==
    part = "relay" /\ RelayNext
    /\ UNCHANGED <<part, adminVars, resultVars, throttleVars, otpVars>>
ResultsMove ==
    part = "results" /\ ResultsNext
    /\ UNCHANGED <<part, adminVars, relayVars, throttleVars, otpVars>>
ThrottlesMove ==
    part = "throttles" /\ ThrottleNext
    /\ UNCHANGED <<part, adminVars, relayVars, resultVars, otpVars>>
OtpMoves ==
    part = "otp" /\ OtpNext
    /\ UNCHANGED <<part, adminVars, relayVars, resultVars, throttleVars>>

OfficesNext == AdminMoves \/ RelayMoves \/ ResultsMove \/ ThrottlesMove \/ OtpMoves

OfficesSpec == OfficesInit /\ [][OfficesNext]_officeVars

=============================================================================
