------------------------------ MODULE AtomicStore ------------------------------
(***************************************************************************)
(* What the two stores of module StoreCalls promise: a call takes effect   *)
(* in one step, on the file as it then is, or not at all.                  *)
(***************************************************************************)
EXTENDS StoreCalls

VARIABLES
    file,    \* what each store holds
    answer   \* how each call ended: "ok", "refused" or "failed"

storeVars == <<file, answer>>

Take(c) ==
    /\ answer[c] = "none"
    /\ Admits(file[StoreOf(c)], c)
    /\ file' = [file EXCEPT ![StoreOf(c)] = Result(@, c)]
    /\ answer' = [answer EXCEPT ![c] = "ok"]

\* Refused: the file does not admit the call, or already holds the password
\* that the call would set.
Pointless(f, c) ==
    c.kind = "changePassword" /\ f[c.key] # Absent /\ f[c.key].password = c.password

Refuse(c) ==
    /\ answer[c] = "none"
    /\ ~Admits(file[StoreOf(c)], c) \/ Pointless(file[StoreOf(c)], c)
    /\ answer' = [answer EXCEPT ![c] = "refused"]
    /\ UNCHANGED file

\* A read or a write of the file fails.
Fail(c) ==
    /\ answer[c] = "none"
    /\ answer' = [answer EXCEPT ![c] = "failed"]
    /\ UNCHANGED file

Init ==
    /\ file = [s \in Stores |-> NoRecords]
    /\ answer = [c \in Calls |-> "none"]

Next == \E c \in Calls : Take(c) \/ Refuse(c) \/ Fail(c)

Spec == Init /\ [][Next]_storeVars
=============================================================================
