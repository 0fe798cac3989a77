------------------------------- MODULE StoreCalls -------------------------------
(***************************************************************************)
(* The two JSON files the web server keeps: GN officers' accounts          *)
(* (packages/nextjs/services/auth/accounts.ts) and enrolment invites       *)
(* (services/voters/enrolmentInvites.ts), and what each call makes of one. *)
(*                                                                         *)
(* A file is a function from its keys, usernames or NIC hashes, to         *)
(* records.  An account is known by its division, its signing address and  *)
(* its password; its sealed key is sealed for good.                        *)
(***************************************************************************)
EXTENDS Naturals

CONSTANTS
    Calls,      \* calls made: records [id, kind, key] and what the kind needs
    Keys,       \* usernames and NIC hashes
    Absent      \* no record

Stores == {"accounts", "invites"}

StoreOf(c) == IF c.kind \in {"upsertPending", "claim"} THEN "invites" ELSE "accounts"

NoRecords == [k \in Keys |-> Absent]

\* What the call finds under its key decides whether it throws.
Admits(f, c) ==
    CASE c.kind = "create" -> f[c.key] = Absent
      [] c.kind \in {"changePassword", "setDisabled", "remove"} -> f[c.key] # Absent
      [] c.kind = "clear" -> TRUE
      [] c.kind = "upsertPending" -> (f[c.key] # Absent => f[c.key].status = "pending")
      [] c.kind = "claim" -> f[c.key] # Absent /\ f[c.key].status = "pending"

\* What it writes.
Result(f, c) ==
    CASE c.kind = "create" ->
            [f EXCEPT ![c.key] = [account |-> c.id, password |-> c.password, disabled |-> FALSE,
                                  mustChangePassword |-> TRUE]]
      [] c.kind = "changePassword" ->
            [f EXCEPT ![c.key].password = c.password, ![c.key].mustChangePassword = FALSE]
      [] c.kind = "setDisabled" -> [f EXCEPT ![c.key].disabled = c.disabled]
      [] c.kind = "remove" -> [f EXCEPT ![c.key] = Absent]
      [] c.kind = "clear" -> NoRecords
      [] c.kind = "upsertPending" -> [f EXCEPT ![c.key] = [invite |-> c.id, status |-> "pending"]]
      [] c.kind = "claim" -> [f EXCEPT ![c.key].status = "claimed"]
=============================================================================
