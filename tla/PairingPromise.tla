--------------------------- MODULE PairingPromise ---------------------------
(***************************************************************************)
(* What pairing promises, whatever the files and processes behind it:      *)
(* "A pairing code works once" (README.md:166), a client stays paired      *)
(* until it is revoked, and one that was revoked stays out.                *)
(***************************************************************************)
EXTENDS Naturals

CONSTANTS Secret, Client

VARIABLES
  code,     \* what has become of each code's secret
  clients,  \* the clients that are paired
  former    \* the clients that were

vars == <<code, clients, former>>

Fate == {"unknown", "usable", "spent", "joined"}

Init ==
  /\ code = [s \in Secret |-> "unknown"]
  /\ clients = {}
  /\ former = {}

(* `pair` shows a new code. *)
Issue(s) ==
  /\ code[s] = "unknown"
  /\ code' = [code EXCEPT ![s] = "usable"]
  /\ UNCHANGED <<clients, former>>

(* A code is used up, for good, before it makes a client... *)
Spend(s) ==
  /\ code[s] = "usable"
  /\ code' = [code EXCEPT ![s] = "spent"]
  /\ UNCHANGED <<clients, former>>

(* ...and makes one at most. *)
Join(s, c) ==
  /\ code[s] = "spent"
  /\ c \notin clients \cup former
  /\ code' = [code EXCEPT ![s] = "joined"]
  /\ clients' = clients \cup {c}
  /\ UNCHANGED former

Revoke(C) ==
  /\ clients' = clients \ C
  /\ former' = former \cup (clients \cap C)
  /\ UNCHANGED code

Next ==
  \/ \E s \in Secret : Issue(s) \/ Spend(s)
  \/ \E s \in Secret, c \in Client : Join(s, c)
  \/ \E C \in SUBSET Client : Revoke(C)

Spec == Init /\ [][Next]_vars
=============================================================================
