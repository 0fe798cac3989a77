------------------------------- MODULE FileStore -------------------------------
(***************************************************************************)
(* How GnAccountStore and EnrolmentInviteStore do it: every mutation is    *)
(* chained onto one promise, reads the whole file, and writes it anew to a *)
(* temporary file that is renamed over it.  Requests are handled           *)
(* concurrently, any of these steps may fail, and the server may be        *)
(* restarted between them.                                                 *)
(***************************************************************************)
EXTENDS StoreCalls, Sequences

VARIABLES
    file,      \* what is on disk
    queue,     \* the chain of mutations, the running one first
    pc,        \* where each call is
    contents,  \* what the running mutation has read
    answer     \* how each call ended

vars == <<file, queue, pc, contents, answer>>

Atomic == INSTANCE AtomicStore

\* Mutant: a rejected promise stays at the head of the chain.
SettleWedged(c, how) ==
    /\ pc' = [pc EXCEPT ![c] = "settled"]
    /\ answer' = [answer EXCEPT ![c] = how]
    /\ queue' = [queue EXCEPT ![StoreOf(c)] = IF how = "failed" THEN @ ELSE Tail(@)]

\* The promise of the call settles; whatever it settles with, the next
\* mutation in the chain runs.
Settle(c, how) ==
    /\ pc' = [pc EXCEPT ![c] = "settled"]
    /\ answer' = [answer EXCEPT ![c] = how]
    /\ queue' = [queue EXCEPT ![StoreOf(c)] = Tail(@)]

\* changePassword looks at the account, and computes hashes, before it asks
\* for the lock.
Precheck(c) ==
    /\ c.kind = "changePassword" /\ pc[c] = "called"
    /\ LET f == file[StoreOf(c)]
       IN  IF Admits(f, c) /\ ~Atomic!Pointless(f, c)
           THEN pc' = [pc EXCEPT ![c] = "checked"] /\ UNCHANGED answer
           ELSE /\ pc' = [pc EXCEPT ![c] = "settled"]
                /\ answer' = [answer EXCEPT ![c] = "refused"]
    /\ UNCHANGED <<file, queue, contents>>

\* mutate.
Enqueue(c) ==
    /\ pc[c] = IF c.kind = "changePassword" THEN "checked" ELSE "called"
    /\ pc' = [pc EXCEPT ![c] = "queued"]
    /\ queue' = [queue EXCEPT ![StoreOf(c)] = Append(@, c)]
    /\ UNCHANGED <<file, contents, answer>>

\* Mutant: a mutation does not wait for the one before it.
RunsAnyway(c) ==
    \E i \in DOMAIN queue[StoreOf(c)] : queue[StoreOf(c)][i] = c

Runs(c) == queue[StoreOf(c)] # <<>> /\ Head(queue[StoreOf(c)]) = c

Read(c) ==
    /\ pc[c] = "queued" /\ Runs(c)
    /\ pc' = [pc EXCEPT ![c] = "read"]
    /\ contents' = [contents EXCEPT ![c] = file[StoreOf(c)]]
    /\ UNCHANGED <<file, queue, answer>>

Throw(c) ==
    /\ pc[c] = "read" /\ ~Admits(contents[c], c)
    /\ Settle(c, "refused")
    /\ UNCHANGED <<file, contents>>

\* The rename is the one step that changes the file.
Rename(c) ==
    /\ pc[c] = "read" /\ Admits(contents[c], c)
    /\ file' = [file EXCEPT ![StoreOf(c)] = Result(contents[c], c)]
    /\ Settle(c, "ok")
    /\ UNCHANGED contents

\* The file cannot be read, or the temporary file not written.
Break(c) ==
    /\ pc[c] \in {"queued", "read"} /\ Runs(c)
    /\ Settle(c, "failed")
    /\ UNCHANGED <<file, contents>>

\* What was in progress is never answered; the file stays as it was.
Restart ==
    /\ \E c \in Calls : pc[c] \in {"checked", "queued", "read"}
    /\ pc' = [c \in Calls |-> IF pc[c] \in {"checked", "queued", "read"} THEN "lost" ELSE pc[c]]
    /\ queue' = [s \in Stores |-> <<>>]
    /\ UNCHANGED <<file, contents, answer>>

Init ==
    /\ file = [s \in Stores |-> NoRecords]
    /\ queue = [s \in Stores |-> <<>>]
    /\ pc = [c \in Calls |-> "called"]
    /\ contents = [c \in Calls |-> NoRecords]
    /\ answer = [c \in Calls |-> "none"]

Work(c) == Read(c) \/ Throw(c) \/ Rename(c) \/ Break(c)

Next ==
    \/ \E c \in Calls : Precheck(c) \/ Enqueue(c) \/ Work(c)
    \/ Restart

Spec == Init /\ [][Next]_vars

\* The running mutation's file operations complete, one way or the other.
StoreWorks(s) == \E c \in Calls : StoreOf(c) = s /\ Work(c)

Fairness == \A s \in Stores : WF_vars(StoreWorks(s))

-----------------------------------------------------------------------------
\* The variables keep their shapes.
TypeOK ==
    /\ DOMAIN file = Stores
    /\ queue \in [Stores -> Seq(Calls)]
    /\ pc \in [Calls -> {"called", "checked", "queued", "read", "settled", "lost"}]
    /\ DOMAIN contents = Calls
    /\ answer \in [Calls -> {"none", "ok", "refused", "failed"}]

\* The mutation that has read a file is the one that runs, and nothing was
\* written since.
Exclusive ==
    \A c \in Calls : pc[c] = "read" => Runs(c) /\ contents[c] = file[StoreOf(c)]

\* A call is answered exactly when its promise has settled.
Answered == \A c \in Calls : answer[c] = "none" <=> pc[c] # "settled"

StoreInv == TypeOK /\ Exclusive /\ Answered

\* No update is lost and none is half done, however requests overlap and
\* whenever the server is restarted: the stores keep module AtomicStore's
\* promise.
NoLostUpdate == Atomic!Spec

\* A call in the queue is answered, whatever happened to the ones before it,
\* unless the server is restarted.
QueueDrains == \A c \in Calls : pc[c] = "queued" ~> pc[c] \in {"settled", "lost"}
=============================================================================
