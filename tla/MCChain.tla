-------------------------------- MODULE MCChain --------------------------------
(***************************************************************************)
(* Instances, for TLC, of the chain below and beside the engine: the time  *)
(* of its blocks, the writes on their way into them, the database they go  *)
(* into, the certificates beside it, the gas of a call, what is read over  *)
(* RPC, and the configuration a node is booted with.  The modules share no *)
(* state, so TLC looks at them one at a time: part is the one that moves,  *)
(* and the others stand still.                                             *)
(***************************************************************************)
EXTENDS DevClock, Submission, Ledger, Seals, GasEstimate, ChainReaders, Deployment, TLC

CONSTANT Parties

\* Two writes one account sends in a row.
OneAccount == {[sender |-> "a", nonce |-> 0], [sender |-> "a", nonce |-> 1]}

\* Two votes and a payment, each the first of its account; a balance is set.
SomeTransactions ==
    {[kind |-> "vote", from |-> "a", to |-> "a", nonce |-> 0],
     [kind |-> "pay", from |-> "b", to |-> "a", nonce |-> 0],
     [kind |-> "vote", from |-> "b", to |-> "b", nonce |-> 0]}
SomeSysOps == {[account |-> "b", value |-> 0]}

TwoPeers == <<"unp", "npp">>
\* The secrets of one phone, whoever they vote for.
TwoBallots == [nullifier : {"n"}, candidate : Parties]
FiveNames == <<"ec", "jvp", "unp", "slpp", "npp">>

VARIABLE part

chainVars ==
    <<part, clockVars, vars, ledgerVars, sealVars, gasVars, readerVars, deploymentVars>>

\* The part that does not move stands at one of its initial states.
Still(p, choice) == part # p => choice

ChainInit ==
    /\ part \in {"clock", "writes", "database", "certificates", "gas", "readers", "cluster"}
    /\ ClockInit /\ Init /\ LedgerInit /\ SealsInit /\ GasInit /\ ReadersInit /\ DeploymentInit
    /\ Still("clock", mode = "solo")
    /\ Still("database", seals) /\ Still("certificates", liars = {})
    /\ Still("gas", ask = 0 /\ used = 1 /\ enough = {BlockGasLimit})

ClockMoves ==
    part = "clock" /\ ClockNext
    /\ UNCHANGED <<part, vars, ledgerVars, sealVars, gasVars, readerVars, deploymentVars>>
WritesMove ==
    part = "writes" /\ Next
    /\ UNCHANGED <<part, clockVars, ledgerVars, sealVars, gasVars, readerVars, deploymentVars>>
DatabaseMoves ==
    part = "database" /\ LedgerNext
    /\ UNCHANGED <<part, clockVars, vars, sealVars, gasVars, readerVars, deploymentVars>>
CertificatesMove ==
    part = "certificates" /\ SealsNext
    /\ UNCHANGED <<part, clockVars, vars, ledgerVars, gasVars, readerVars, deploymentVars>>
GasMoves ==
    part = "gas" /\ GasNext
    /\ UNCHANGED <<part, clockVars, vars, ledgerVars, sealVars, readerVars, deploymentVars>>
ReadersMove ==
    part = "readers" /\ ReadersNext
    /\ UNCHANGED <<part, clockVars, vars, ledgerVars, sealVars, gasVars, deploymentVars>>
ClusterMoves ==
    part = "cluster" /\ DeploymentNext
    /\ UNCHANGED <<part, clockVars, vars, ledgerVars, sealVars, gasVars, readerVars>>

ChainNext ==
    \/ ClockMoves \/ WritesMove \/ DatabaseMoves \/ CertificatesMove
    \/ GasMoves \/ ReadersMove \/ ClusterMoves

ChainSpec == ChainInit /\ [][ChainNext]_chainVars

Symmetry == Permutations(Leaves) \cup Permutations(Parties)
=============================================================================
