---------------------------- MODULE PairingStore ----------------------------
(***************************************************************************)
(* The pairing codes and paired clients in the state folder (store.rs),    *)
(* which the `pair` and `revoke` commands and the server's threads read    *)
(* and write, each change under the lock of state.lock.                    *)
(*                                                                         *)
(* A change reads a file, then writes it anew by rename; redeeming a code  *)
(* does so with both files.  A command or the server may be killed, and a  *)
(* file operation fail, between any two steps.                             *)
(***************************************************************************)
EXTENDS Naturals

CONSTANTS
  Secret,     \* the secrets of pairing codes
  Client,     \* clients' ids
  Thread,     \* threads of the server
  Command,    \* runs of the command line
  NoProcess,  \* the holder of the free lock
  MaxKills    \* bound: times the server or a command is killed

Process == Thread \cup Command

ASSUME ProcessAssumption == NoProcess \notin Process
ASSUME ApartAssumption == Thread \cap Command = {}
ASSUME NonEmptyAssumption == Secret # {} /\ Client # {}
ASSUME KillsAssumption == MaxKills \in Nat

VARIABLES
  pc,       \* where each process is
  call,     \* what it is doing
  draft,    \* the list of secrets it is about to write
  roster,   \* the list of clients it is about to write
  lock,     \* who holds state.lock
  pending,  \* pending-pairings.json
  clients,  \* clients.json
  expired,  \* the secrets shown ten minutes ago or more
  kills,    \* times the server or a command was killed
  code,     \* history: what has become of each secret
  former    \* history: the clients revoked

processVars == <<pc, call, draft, roster>>
historyVars == <<code, former>>
vars == <<processVars, lock, pending, clients, expired, kills, historyVars>>

Promise == INSTANCE PairingPromise WITH
  Secret <- Secret, Client <- Client, code <- code, clients <- clients, former <- former
------------------------------------------------------------------------------
Place == {"idle", "lock", "readPending", "writePending", "readClients", "writeClients", "done"}

Call == [op : {"none", "issue", "redeem", "revoke"}, secret : Secret, client : Client,
         revoked : SUBSET Client, found : BOOLEAN]

AnySecret == CHOOSE s \in Secret : TRUE
AnyClient == CHOOSE c \in Client : TRUE
NoCall == [op |-> "none", secret |-> AnySecret, client |-> AnyClient, revoked |-> {},
           found |-> FALSE]

Init ==
  /\ pc = [p \in Process |-> "idle"]
  /\ call = [p \in Process |-> NoCall]
  /\ draft = [p \in Process |-> {}]
  /\ roster = [p \in Process |-> {}]
  /\ lock = NoProcess
  /\ pending = {}
  /\ clients = {}
  /\ expired = {}
  /\ kills = 0
  /\ code = [s \in Secret |-> "unknown"]
  /\ former = {}

Goto(p, place) == pc' = [pc EXCEPT ![p] = place]

Begin(p, c) ==
  /\ pc[p] = "idle"
  /\ call' = [call EXCEPT ![p] = c]
  /\ Goto(p, "lock")
  /\ UNCHANGED <<draft, roster, lock, pending, clients, expired, kills, historyVars>>

(* No other process has drawn the random secret or id. *)
NewSecret(s) == code[s] = "unknown" /\ \A p \in Process : call[p].op = "issue" => call[p].secret # s
NewClient(c) == c \notin clients \cup former /\ \A p \in Process : call[p].op = "redeem" => call[p].client # c

(* add_pending, which only the `pair` command calls. *)
Issue(p) ==
  \E s \in Secret : p \in Command /\ NewSecret(s) /\ Begin(p, [NoCall EXCEPT !.op = "issue", !.secret = s])

(* redeem, which only the server calls, with whatever it was sent. *)
Redeem(p) ==
  \E s \in Secret, c \in Client :
    p \in Thread /\ NewClient(c) /\ Begin(p, [NoCall EXCEPT !.op = "redeem", !.secret = s, !.client = c])

(* revoke, of a client or of the clients with a name, by either. *)
Revoke(p) ==
  \E C \in SUBSET Client : C # {} /\ Begin(p, [NoCall EXCEPT !.op = "revoke", !.revoked = C])

(* Variant: the lock doesn't keep the others out. *)
TakeLockTogether(p) ==
  /\ pc[p] = "lock"
  /\ lock' = p
  /\ Goto(p, IF call[p].op = "revoke" THEN "readClients" ELSE "readPending")
  /\ UNCHANGED <<call, draft, roster, pending, clients, expired, kills, historyVars>>

TakeLock(p) ==
  /\ pc[p] = "lock"
  /\ lock = NoProcess
  /\ lock' = p
  /\ Goto(p, IF call[p].op = "revoke" THEN "readClients" ELSE "readPending")
  /\ UNCHANGED <<call, draft, roster, pending, clients, expired, kills, historyVars>>

(* The codes that still work, with the new one, or without the one that is *)
(* redeemed, if it is among them.                                          *)
ReadPending(p) ==
  LET s == call[p].secret
      live == pending \ expired
  IN
  /\ pc[p] = "readPending"
  /\ \/ /\ call[p].op = "issue"
        /\ draft' = [draft EXCEPT ![p] = live \cup {s}]
        /\ UNCHANGED call
     \/ /\ call[p].op = "redeem" /\ s \in live
        /\ draft' = [draft EXCEPT ![p] = live \ {s}]
        /\ call' = [call EXCEPT ![p].found = TRUE]
     \/ /\ call[p].op = "redeem" /\ s \notin live
        /\ draft' = [draft EXCEPT ![p] = live]
        /\ UNCHANGED call
  /\ Goto(p, "writePending")
  /\ UNCHANGED <<roster, lock, pending, clients, expired, kills, historyVars>>

(* The list lands; a code that was found is used up from here on. *)
WritePending(p) ==
  /\ pc[p] = "writePending"
  /\ pending' = draft[p]
  /\ code' = IF call[p].op = "issue" THEN [code EXCEPT ![call[p].secret] = "usable"]
             ELSE IF call[p].found THEN [code EXCEPT ![call[p].secret] = "spent"] ELSE code
  /\ Goto(p, IF call[p].found THEN "readClients" ELSE "done")
  /\ UNCHANGED <<call, draft, roster, lock, clients, expired, kills, former>>

ReadClients(p) ==
  /\ pc[p] = "readClients"
  /\ roster' = [roster EXCEPT ![p] = IF call[p].op = "redeem" THEN clients \cup {call[p].client}
                                     ELSE clients \ call[p].revoked]
  /\ Goto(p, "writeClients")
  /\ UNCHANGED <<call, draft, lock, pending, clients, expired, kills, historyVars>>

(* Variant: the list of secrets lands in clients.json. *)
WriteSecrets(p) ==
  /\ pc[p] = "writeClients"
  /\ clients' = draft[p]
  /\ code' = [code EXCEPT ![call[p].secret] = "joined"]
  /\ Goto(p, "done")
  /\ UNCHANGED <<call, draft, roster, lock, pending, expired, kills, former>>

WriteClients(p) ==
  /\ pc[p] = "writeClients"
  /\ clients' = roster[p]
  /\ IF call[p].op = "redeem"
       THEN code' = [code EXCEPT ![call[p].secret] = "joined"] /\ UNCHANGED former
       ELSE former' = former \cup (clients \cap call[p].revoked) /\ UNCHANGED code
  /\ Goto(p, "done")
  /\ UNCHANGED <<call, draft, roster, lock, pending, expired, kills>>

(* A file can't be read or written: the call ends there, with an error. *)
Fails(p) ==
  /\ pc[p] \in {"readPending", "writePending", "readClients", "writeClients"}
  /\ Goto(p, "done")
  /\ UNCHANGED <<call, draft, roster, lock, pending, clients, expired, kills, historyVars>>

(* What a process leaves when its call or the process itself ends. *)
Left(ended) ==
  /\ pc' = [p \in Process |-> IF p \in ended THEN "idle" ELSE pc[p]]
  /\ call' = [p \in Process |-> IF p \in ended THEN NoCall ELSE call[p]]
  /\ draft' = [p \in Process |-> IF p \in ended THEN {} ELSE draft[p]]
  /\ roster' = [p \in Process |-> IF p \in ended THEN {} ELSE roster[p]]
  /\ lock' = IF lock \in ended THEN NoProcess ELSE lock

Finish(p) ==
  /\ pc[p] = "done"
  /\ Left({p})
  /\ UNCHANGED <<pending, clients, expired, kills, historyVars>>

(* The server with all its threads, or one command, is killed. *)
Kill ==
  /\ kills < MaxKills
  /\ kills' = kills + 1
  /\ \E ended \in {Thread} \cup {{p} : p \in Command} : Left(ended)
  /\ UNCHANGED <<pending, clients, expired, historyVars>>

Expire(s) ==
  /\ s \in pending
  /\ expired' = expired \cup {s}
  /\ UNCHANGED <<processVars, lock, pending, clients, kills, historyVars>>

Step(p) ==
  \/ Issue(p) \/ Redeem(p) \/ Revoke(p) \/ TakeLock(p) \/ ReadPending(p) \/ WritePending(p)
  \/ ReadClients(p) \/ WriteClients(p) \/ Fails(p) \/ Finish(p)

Next ==
  \/ \E p \in Process : Step(p)
  \/ Kill
  \/ \E s \in Secret : Expire(s)

Spec == Init /\ [][Next]_vars
------------------------------------------------------------------------------
(* Properties *)

TypeOK ==
  /\ pc \in [Process -> Place]
  /\ call \in [Process -> Call]
  /\ draft \in [Process -> SUBSET Secret]
  /\ roster \in [Process -> SUBSET Client]
  /\ lock \in Process \cup {NoProcess}
  /\ pending \in SUBSET Secret
  /\ clients \in SUBSET Client
  /\ expired \in SUBSET Secret
  /\ kills \in 0 .. MaxKills
  /\ code \in [Secret -> Promise!Fate]
  /\ former \in SUBSET Client

(* A code that was shown, isn't used and hasn't expired still works: no    *)
(* other command's or thread's rewriting of the list, killed or failed     *)
(* halfway, drops it; and one that was used never comes back.              *)
CodesKept ==
  \A s \in Secret :
    /\ code[s] = "usable" /\ s \notin expired => s \in pending
    /\ code[s] \in {"spent", "joined"} => s \notin pending

(* What the files hold is what pairing promises: a code makes one client   *)
(* at most, a client stays until it is revoked, and no rewriting of        *)
(* clients.json from an older list brings a revoked one back.              *)
Implements == Promise!Spec
------------------------------------------------------------------------------
(* Why they hold *)

Locked == {"readPending", "writePending", "readClients", "writeClients", "done"}

(* Processes draw secrets and ids apart. *)
DrawnApart ==
  \A p, q \in Process : p # q /\ call[p].op = call[q].op =>
    /\ call[p].op = "issue" => call[p].secret # call[q].secret
    /\ call[p].op = "redeem" => call[p].client # call[q].client

(* What an issuing, a redeeming and a revoking process know, by place.     *)
Issuing(p) ==
  /\ pc[p] \in {"lock", "readPending", "writePending"} => code[call[p].secret] = "unknown"
  /\ pc[p] \notin {"readClients", "writeClients"} /\ ~call[p].found
  /\ pc[p] = "writePending" => /\ draft[p] \subseteq pending \cup {call[p].secret}
                               /\ pending \ expired \subseteq draft[p]
                               /\ call[p].secret \in draft[p]

Redeeming(p) ==
  /\ pc[p] # "done" => call[p].client \notin clients \cup former
  /\ pc[p] \in {"lock", "readPending"} => ~call[p].found
  /\ pc[p] = "writePending" => /\ draft[p] \subseteq pending \ {call[p].secret}
                               /\ pending \ expired \subseteq draft[p] \cup {call[p].secret}
                               /\ call[p].found => call[p].secret \in pending
                               /\ ~call[p].found => call[p].secret \notin pending \ expired
  /\ pc[p] \in {"readClients", "writeClients"} => code[call[p].secret] = "spent"
  /\ pc[p] = "writeClients" => roster[p] = clients \cup {call[p].client}

Revoking(p) ==
  /\ pc[p] \notin {"readPending", "writePending"}
  /\ pc[p] = "writeClients" => roster[p] = clients \ call[p].revoked

Knows(p) ==
  /\ pc[p] \in Locked => lock = p
  /\ call[p].op = "none" <=> pc[p] = "idle"
  /\ call[p].op = "issue" => Issuing(p)
  /\ call[p].op = "redeem" => Redeeming(p)
  /\ call[p].op = "revoke" => Revoking(p)

Listed == \A s \in pending : code[s] = "usable"

Inv == TypeOK /\ CodesKept /\ Listed /\ DrawnApart /\ \A p \in Process : Knows(p)
=============================================================================
