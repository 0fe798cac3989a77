------------------------------- MODULE DivisionSetup -------------------------------
(***************************************************************************)
(* How a polling division comes to be, which takes a contract, an          *)
(* authorisation in NicRegistry.sol and an entry in ElectionRegistry.sol:  *)
(* packages/hardhat/deploy/01_deploy_divisions.ts, a script that is run    *)
(* again when it failed, and packages/nextjs/services/divisions, for       *)
(* imports (api/divisions/bulk) and the panel, an import of one row.       *)
(*                                                                         *)
(* A contract is the n-th deployed.  Names are as normaliseDivisionName    *)
(* leaves them.  An import goes on when its client has left.               *)
(***************************************************************************)
EXTENDS Naturals, Sequences, FiniteSets

CONSTANTS
    Tags,        \* the divisions of the script, in its order
    Imports,
    RowsOf,      \* the names in each import
    MaxCrashes   \* runs of the script that stop half way

ASSUME DivisionSetupAssumption ==
    /\ Tags \in Seq(STRING) /\ Tags # <<>> /\ MaxCrashes \in Nat
    /\ "script" \notin Imports
    /\ \A b \in Imports : RowsOf[b] \in Seq(STRING) /\ RowsOf[b] # <<>>

VARIABLES
    listed,      \* ElectionRegistry's divisions, each with who listed it
    created,     \* contracts deployed
    allowed,     \* NicRegistry's authorised contracts
    recorded,    \* hardhat's record of the script's deployments
    script,      \* where the script is
    crashes,
    import,      \* each import: its row, and the names it holds for taken
    reports,     \* the rows answered as created and authorised
    unanswered,  \* imports a createDivision of which landed and was not answered
    cached       \* the divisions' names as loadDivisions has them

onChain == <<listed, created, allowed>>
scriptVars == <<recorded, script, crashes>>
importVars == <<import, reports, unanswered, cached>>
setupVars == <<onChain, scriptVars, importVars>>

TagSet == {Tags[i] : i \in DOMAIN Tags}
Entry(name, contract, by) == [name |-> name, contract |-> contract, by |-> by]
Names(list) == {list[i].name : i \in DOMAIN list}

-----------------------------------------------------------------------------
(* 01_deploy_divisions.ts.  Every step looks first whether it was done.    *)

StartScript ==
    /\ script.pc \in {"stopped", "done"}
    /\ script' = [pc |-> "deploy", at |-> 1]
    /\ UNCHANGED <<onChain, recorded, crashes, importVars>>

\* deploy() keeps a record of its own, and leaves alone what is in it.
ScriptDeploy ==
    LET tag == Tags[script.at]
    IN  /\ script.pc = "deploy"
        /\ IF recorded[tag] = 0
           THEN /\ created' = created + 1
                /\ recorded' = [recorded EXCEPT ![tag] = created']
           ELSE UNCHANGED <<created, recorded>>
        /\ script' = [script EXCEPT !.pc = "authorise"]
        /\ UNCHANGED <<listed, allowed, crashes, importVars>>

\* setGNOfficer is for wallets only: on the custom chain the officers stay as
\* they are.
ScriptAuthorise ==
    /\ script.pc = "authorise"
    /\ allowed' = allowed \cup {recorded[Tags[script.at]]}
    /\ script' = [script EXCEPT !.pc = "list"]
    /\ UNCHANGED <<listed, created, recorded, crashes, importVars>>

NextTag == IF script.at = Len(Tags) THEN [pc |-> "done", at |-> 1]
                                     ELSE [pc |-> "deploy", at |-> script.at + 1]

\* Mutant: what was deployed is listed, whether or not it was before.
ScriptListAgain ==
    LET tag == Tags[script.at]
    IN  /\ script.pc = "list" /\ Len(listed) < 3 * Len(Tags)
        /\ listed' = Append(listed, Entry(tag, recorded[tag], "script"))
        /\ script' = NextTag
        /\ UNCHANGED <<created, allowed, recorded, crashes, importVars>>

ScriptList ==
    LET tag == Tags[script.at]
        already == \E i \in DOMAIN listed : listed[i].contract = recorded[tag]
    IN  /\ script.pc = "list"
        /\ listed' = IF already THEN listed ELSE Append(listed, Entry(tag, recorded[tag], "script"))
        /\ script' = NextTag
        /\ UNCHANGED <<created, allowed, recorded, crashes, importVars>>

\* It may also stop after a deployment landed and before it was recorded.
ScriptCrash ==
    /\ script.pc \notin {"stopped", "done"}
    /\ crashes < MaxCrashes
    /\ crashes' = crashes + 1
    /\ script' = [pc |-> "stopped", at |-> 1]
    /\ created' \in IF script.pc = "deploy" /\ recorded[Tags[script.at]] = 0
                    THEN {created, created + 1} ELSE {created}
    /\ UNCHANGED <<listed, allowed, recorded, importVars>>

-----------------------------------------------------------------------------
(* createDivisionOnChain, row by row.                                      *)

\* The names are those of the cached list.
StartImport(b) ==
    /\ import[b].pc = "idle"
    /\ import' = [import EXCEPT ![b] = [pc |-> "create", row |-> 1, names |-> cached, contract |-> 0]]
    /\ UNCHANGED <<onChain, scriptVars, reports, unanswered, cached>>

\* Once every import has started, no one reads it.
LoadNames ==
    /\ cached # Names(listed) /\ \E b \in Imports : import[b].pc = "idle"
    /\ cached' = Names(listed)
    /\ UNCHANGED <<onChain, scriptVars, import, reports, unanswered>>

RowName(b) == RowsOf[b][import[b].row]

After(b, names) ==
    IF import[b].row = Len(RowsOf[b])
    THEN [pc |-> "done", row |-> import[b].row, names |-> {}, contract |-> 0]
    ELSE [pc |-> "create", row |-> import[b].row + 1, names |-> names, contract |-> 0]

\* The name is taken, or the transaction did not land.
RowRefused(b) ==
    /\ import[b].pc = "create"
    /\ import' = [import EXCEPT ![b] = After(b, @.names)]
    /\ UNCHANGED <<onChain, scriptVars, reports, unanswered, cached>>

Deployed(b) ==
    /\ import[b].pc = "create"
    /\ created' = created + 1
    /\ listed' = Append(listed, Entry(RowName(b), created', b))
    /\ UNCHANGED <<allowed, scriptVars, cached>>

\* Mutant: the name is not compared with those the import itself created.
RowCreatedAnyway(b) ==
    /\ RowName(b) \notin import[b].names \ {listed[i].name : i \in {j \in DOMAIN listed : listed[j].by = b}}
    /\ Deployed(b)
    /\ import' = [import EXCEPT ![b].pc = "receipt", ![b].contract = created']
    /\ UNCHANGED <<reports, unanswered>>

\* Only the names the import knows of are compared: the contract does not.
RowCreated(b) ==
    /\ RowName(b) \notin import[b].names
    /\ Deployed(b)
    /\ import' = [import EXCEPT ![b].pc = "receipt", ![b].contract = created']
    /\ UNCHANGED <<reports, unanswered>>

\* The answer is lost: the row counts as failed, and its name as free.
RowCreatedUnanswered(b) ==
    /\ RowName(b) \notin import[b].names
    /\ Deployed(b)
    /\ import' = [import EXCEPT ![b] = After(b, @.names)]
    /\ unanswered' = unanswered \cup {b}
    /\ UNCHANGED reports

Report(b, contract, ok) ==
    /\ reports' = IF ok THEN reports \cup {[by |-> b, row |-> import[b].row, contract |-> contract]}
                        ELSE reports
    /\ import' = [import EXCEPT ![b] = After(b, @.names \cup {RowName(b)})]

\* Mutant: the contract is looked for at the end of the list.
ReadReceiptLast(b) ==
    /\ import[b].pc = "receipt"
    /\ import' = [import EXCEPT ![b].pc = "authorise", ![b].contract = listed[Len(listed)].contract]
    /\ UNCHANGED <<onChain, scriptVars, reports, unanswered, cached>>

\* Its address is in the receipt.
ReadReceipt(b) ==
    /\ import[b].pc = "receipt"
    /\ import' = [import EXCEPT ![b].pc = "authorise"]
    /\ UNCHANGED <<onChain, scriptVars, reports, unanswered, cached>>

\* It cannot be read: the division stays, without an authorisation.
ReceiptFails(b) ==
    /\ import[b].pc = "receipt"
    /\ Report(b, 0, FALSE)
    /\ UNCHANGED <<onChain, scriptVars, unanswered, cached>>

\* setVotingContract, and whether its answer says so.
RowAuthorised(b, landed, answered) ==
    /\ import[b].pc = "authorise" /\ (answered => landed)
    /\ allowed' = IF landed THEN allowed \cup {import[b].contract} ELSE allowed
    /\ Report(b, import[b].contract, answered)
    /\ UNCHANGED <<listed, created, scriptVars, unanswered, cached>>

-----------------------------------------------------------------------------
SetupInit ==
    /\ listed = <<>> /\ created = 0 /\ allowed = {}
    /\ recorded = [t \in TagSet |-> 0]
    /\ script = [pc |-> "stopped", at |-> 1] /\ crashes = 0
    /\ import = [b \in Imports |-> [pc |-> "idle", row |-> 1, names |-> {}, contract |-> 0]]
    /\ reports = {} /\ unanswered = {} /\ cached = {}

ScriptStep == ScriptDeploy \/ ScriptAuthorise \/ ScriptList

ImportStep(b) ==
    \/ RowRefused(b) \/ RowCreated(b) \/ RowCreatedUnanswered(b)
    \/ ReadReceipt(b) \/ ReceiptFails(b)
    \/ \E landed, answered \in BOOLEAN : RowAuthorised(b, landed, answered)

SetupNext ==
    \/ StartScript \/ ScriptStep \/ ScriptCrash
    \/ LoadNames
    \/ \E b \in Imports : StartImport(b) \/ ImportStep(b)

SetupSpec == SetupInit /\ [][SetupNext]_setupVars

-----------------------------------------------------------------------------
\* When a run of the script ends, each of its divisions has its contract,
\* authorised, and one entry in the registry, whatever earlier runs were
\* broken off and whatever was imported meanwhile.
ScriptRepairs ==
    script.pc = "done" =>
        \A t \in TagSet :
            /\ recorded[t] \in allowed
            /\ Cardinality({i \in DOMAIN listed : listed[i].contract = recorded[t]}) = 1

\* A division reported ready is ready: the contract that was authorised is
\* the one of that row, also when two imports created divisions at once.
ReportedReady ==
    \A r \in reports :
        /\ r.contract \in allowed
        /\ \E i \in DOMAIN listed :
              listed[i] = Entry(RowsOf[r.by][r.row], r.contract, r.by)

\* An import lists no name twice, unless an answer it waited for was lost.
ImportNamesOnce ==
    \A i, j \in DOMAIN listed :
        /\ i # j /\ listed[i].by = listed[j].by /\ listed[i].by \in Imports \ unanswered
        => listed[i].name # listed[j].name

\* What creating divisions comes to, by the script, by imports and at the panel.
SetupInv == ScriptRepairs /\ ReportedReady /\ ImportNamesOnce
=============================================================================
