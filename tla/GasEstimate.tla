----------------------------- MODULE GasEstimate -----------------------------
(***************************************************************************)
(* eth_estimateGas (EstimateGas of internal/chain/sequencer.go): a run at  *)
(* the ceiling, one at the worst case of what that run used, and a binary  *)
(* search between.  A contract may look at the gas it has left, so nothing *)
(* says that more gas is never worse.                                      *)
(***************************************************************************)
EXTENDS Integers

CONSTANT BlockGasLimit

ASSUME GasAssumption == BlockGasLimit \in Nat \ {0}

VARIABLES
    enough, \* the gas limits under which the call succeeds
    used,   \* what it used, after refunds, at the ceiling
    ask,    \* the limit the caller sets
    lo, hi, trying

gasVars == <<enough, used, ask, lo, hi, trying>>

\* A limit of the caller lowers the ceiling.
Ceiling == IF ask \in 1 .. BlockGasLimit - 1 THEN ask ELSE BlockGasLimit

\* The refunds of EIP-3529 and the 63/64 of the calls it makes.
WorstCase == (used * 320) \div 252

\* A call that fails at the ceiling is answered with its error.
GasInit ==
    /\ ask \in 0 .. BlockGasLimit
    /\ used \in 1 .. Ceiling
    /\ enough \in SUBSET (1 .. BlockGasLimit)
    /\ Ceiling \in enough /\ used - 1 \notin enough
    /\ lo = used - 1 /\ hi = Ceiling /\ trying = "probe"

\* Mutant first: what was used is not enough.
ProbeFromUsed ==
    /\ trying = "probe" /\ trying' = "search"
    /\ hi' = IF WorstCase \in (lo + 1) .. (hi - 1) \cap enough THEN WorstCase ELSE hi
    /\ lo' = IF WorstCase \in (lo + 1) .. (hi - 1) \ enough THEN WorstCase ELSE used
    /\ UNCHANGED <<enough, used, ask>>

Probe ==
    /\ trying = "probe" /\ trying' = "search"
    /\ hi' = IF WorstCase \in (lo + 1) .. (hi - 1) \cap enough THEN WorstCase ELSE hi
    /\ lo' = IF WorstCase \in (lo + 1) .. (hi - 1) \ enough THEN WorstCase ELSE lo
    /\ UNCHANGED <<enough, used, ask>>

Halve ==
    /\ trying = "search" /\ lo + 1 < hi
    /\ LET mid == lo + (hi - lo) \div 2
       IN  IF mid \in enough THEN hi' = mid /\ UNCHANGED lo ELSE lo' = mid /\ UNCHANGED hi
    /\ UNCHANGED <<enough, used, ask, trying>>

GasNext == Probe \/ Halve

GasSpec == GasInit /\ [][GasNext]_gasVars

-----------------------------------------------------------------------------
\* The estimate was tried and is enough; with one less the call fails; and
\* it is within what the caller allowed.
Estimated == trying = "search" /\ lo + 1 >= hi
GasInv ==
    /\ hi \in enough /\ hi <= Ceiling
    /\ Estimated => hi - 1 \notin enough
=============================================================================
