------------------------------- MODULE MCRecords -------------------------------
(***************************************************************************)
(* What is written down and read back elsewhere: the blocks, on the disk   *)
(* of the primary and at the replicas, the account and invite files, an    *)
(* officer's sessions, the creation of divisions and the list of them in a *)
(* browser.  They share no state, so TLC looks at them one at a time: part *)
(* is the one that moves, and the others stand still.                      *)
(***************************************************************************)
EXTENDS FileStore, Sessions, DivisionList, DivisionSetup, Replication, TLC

CONSTANT u1

\* One account created, used and removed, and one invite sent and claimed.
Ask(i, kind) == [id |-> i, kind |-> kind, key |-> u1, password |-> i, disabled |-> TRUE]
SomeCalls ==
    {Ask(1, "create"), Ask(2, "changePassword"), Ask(3, "remove"), Ask(4, "upsertPending"), Ask(5, "claim")}

\* One division of the script, a file that has a name twice, and the panel.
OneTag == <<"Kaduwela">>
FileAndPanel == "file" :> <<"Galle", "Galle">> @@ "panel" :> <<"Galle">>

VARIABLE part

fileVars == vars
recordVars == <<part, fileVars, sessionVars, pageVars, setupVars, replicationVars>>

RecordsInit ==
    /\ part \in {"files", "sessions", "list", "setup", "replication"}
    /\ Init /\ SessionsInit /\ PageInit /\ SetupInit /\ ReplicationInit

FilesMove ==
    part = "files" /\ Next
    /\ UNCHANGED <<part, sessionVars, pageVars, setupVars, replicationVars>>
SessionsMove ==
    part = "sessions" /\ SessionsNext
    /\ UNCHANGED <<part, fileVars, pageVars, setupVars, replicationVars>>
ListMoves ==
    part = "list" /\ PageNext
    /\ UNCHANGED <<part, fileVars, sessionVars, setupVars, replicationVars>>
SetupMoves ==
    part = "setup" /\ SetupNext
    /\ UNCHANGED <<part, fileVars, sessionVars, pageVars, replicationVars>>
ReplicationMoves ==
    part = "replication" /\ ReplicationNext
    /\ UNCHANGED <<part, fileVars, sessionVars, pageVars, setupVars>>

RecordsNext ==
    FilesMove \/ SessionsMove \/ ListMoves \/ SetupMoves \/ ReplicationMoves

\* The part that moves does so under its own fairness.
RecordsFairness ==
    /\ \A s \in Stores : WF_fileVars(part = "files" /\ StoreWorks(s))
    /\ \A b \in Browsers : /\ WF_sessionVars(part = "sessions" /\ MountEffect(b))
                           /\ WF_sessionVars(part = "sessions" /\ ReadEnds(b))
    /\ \A c \in Components : WF_pageVars(part = "list" /\ Effect(c))
    /\ WF_pageVars(part = "list" /\ Poll)
    /\ WF_pageVars(part = "list" /\ Refresh)
    /\ SF_pageVars(part = "list" /\ ReadSucceeds)
    /\ \A r \in Replicas : /\ WF_replicationVars(part = "replication" /\ AskForPage(r))
                           /\ SF_replicationVars(part = "replication" /\ Serve(r))
                           /\ SF_replicationVars(part = "replication" /\ ApplyPage(r))

RecordsSpec == RecordsInit /\ [][RecordsNext]_recordVars /\ RecordsFairness
=============================================================================
