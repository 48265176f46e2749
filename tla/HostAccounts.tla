------------------------------ MODULE HostAccounts -----------------------------
(***************************************************************************)
(* The accounts of a host (server/src/accounts.rs) and signing them in     *)
(* (server/src/login.rs), with the requests that make, rename, delete and  *)
(* sign in accounts (server/src/routes.rs).  An account is a folder: its   *)
(* name is the folder's, and who it is goes with the folder.  Claude makes *)
(* the folder it was started for when it isn't there (external).           *)
(*                                                                         *)
(* Of an account's sessions, AccountSessions' matter, it counts here       *)
(* whether one is running and which folder it was started in.              *)
(***************************************************************************)
EXTENDS Naturals, FiniteSets

CONSTANTS
    Names,      \* names of accounts
    Requests,   \* threads of requests
    MaxMade,    \* bound on the folders made
    MaxLogins,  \* bound on the sign-ins started
    MaxOps      \* bound on the requests

Active == 2     \* MAX_ACTIVE

Nowhere == "nowhere"
Nobody == "nobody"
Made == 1..MaxMade
Logins == 1..MaxLogins

VARIABLES
    folder,     \* the account each folder holds, 0 if it isn't there
    trash,      \* the accounts in the trash
    signedIn,   \* the accounts that hold a login
    setUp,      \* the accounts whose first-run setup is marked as done
    session,    \* the folder that each account's running session was started in
    waiting,    \* the folders that a Claude left at a prompt was started for
    login,      \* the sign-ins
    holder,     \* who holds each account's lock
    req,        \* the requests under way
    \* What happened, for the properties.
    filled,     \* accounts that Claude wrote to
    missed,     \* accounts whose session registered behind a request's look
    made, started, ops

accountVars == <<folder, trash, signedIn, setUp, filled, made>>
loginVars == <<login, started>>
sessionVars == <<session, waiting, missed>>
vars == <<accountVars, sessionVars, loginVars, holder, req, ops>>

Ops == {"create", "rename", "delete", "session", "login", "code"}
Steps == {"idle", "mkdir", "lock", "running", "taken", "move", "logins", "trash", "launch",
          "check", "url", "code", "find", "confirm", "finish"}
At == {"none", "starting", "active", "submitting", "over"}

NoLogin == [at |-> "none", name |-> Nowhere, of |-> 0, old |-> FALSE, proc |-> "asking"]
Idle == [pc |-> "idle", op |-> "create", name |-> Nowhere, to |-> Nowhere,
         of |-> 0, login |-> 0]

SignIns == [at : At, name : Names \cup {Nowhere}, of : 0..MaxMade, old : BOOLEAN,
            proc : {"asking", "typed", "signedIn", "refused"}]
UnderWays == [pc : Steps, op : Ops, name : Names \cup {Nowhere}, to : Names \cup {Nowhere},
              of : 0..MaxMade, login : 0..MaxLogins]

TypeOK ==
    /\ folder \in [Names -> 0..MaxMade]
    /\ trash \subseteq Made /\ signedIn \subseteq Made /\ setUp \subseteq Made
    /\ filled \subseteq Made
    /\ session \in [Made -> Names \cup {Nowhere}]
    /\ waiting \subseteq Names /\ missed \subseteq Made
    /\ login \in [Logins -> SignIns]
    /\ holder \in [Names -> Requests \cup {Nobody}]
    /\ req \in [Requests -> UnderWays]
    /\ made \in 0..MaxMade /\ started \in 0..MaxLogins /\ ops \in 0..MaxOps

Init ==
    /\ \E n \in Names : folder = [m \in Names |-> IF m = n THEN 1 ELSE 0]
    /\ trash = {} /\ signedIn = {} /\ setUp = {} /\ filled = {}
    /\ session = [i \in Made |-> Nowhere]
    /\ waiting = {} /\ missed = {}
    /\ login = [n \in Logins |-> NoLogin]
    /\ holder = [n \in Names |-> Nobody]
    /\ req = [r \in Requests |-> Idle]
    /\ made = 1 /\ started = 0 /\ ops = 0

Goto(r, step) == req' = [req EXCEPT ![r].pc = step]
Answer(r) == req' = [req EXCEPT ![r] = Idle]
Release(r) == holder' = [holder EXCEPT ![req[r].name] = Nobody]
Exists(n) == folder[n] # 0
Runs(n) == Exists(n) /\ session[folder[n]] # Nowhere

(***************************************************************************)
(* Requests begin.                                                         *)
(***************************************************************************)

Begin(r, op, n, m) ==
    /\ req[r].pc = "idle" /\ ops < MaxOps
    /\ ops' = ops + 1
    /\ req' = [req EXCEPT ![r] =
                 [Idle EXCEPT !.op = op, !.name = n, !.to = m, !.of = folder[n],
                              !.pc = CASE op = "create" -> "mkdir"
                                       [] op = "login" -> "check"
                                       [] OTHER -> "lock"]]
    /\ UNCHANGED <<accountVars, sessionVars, loginVars, holder>>

\* create: refused if the name is taken.
Create(r, n) == ~Exists(n) /\ Begin(r, "create", n, n)

\* account_or_404: the account is found before its lock is taken.
Rename(r, n, m) == Exists(n) /\ Begin(r, "rename", n, m)
Delete(r, n) == Exists(n) /\ Begin(r, "delete", n, n)
NewSession(r, n) == Exists(n) /\ Begin(r, "session", n, n)
StartLogin(r, n) == Exists(n) /\ Begin(r, "login", n, n)

Lock(r) ==
    /\ req[r].pc = "lock"
    /\ holder[req[r].name] = Nobody
    /\ holder' = [holder EXCEPT ![req[r].name] = r]
    /\ Goto(r, IF req[r].op = "session" THEN "launch" ELSE "running")
    /\ UNCHANGED <<accountVars, sessionVars, loginVars, ops>>

(***************************************************************************)
(* Folders.                                                                *)
(***************************************************************************)

\* mkdir fails on a folder that is there by now.
Mkdir(r) ==
    LET n == req[r].name IN
    /\ req[r].pc = "mkdir"
    /\ IF Exists(n) THEN UNCHANGED <<folder, made>>
       ELSE /\ made < MaxMade
            /\ folder' = [folder EXCEPT ![n] = made + 1]
            /\ made' = made + 1
    /\ Answer(r)
    /\ UNCHANGED <<trash, signedIn, setUp, filled, sessionVars, loginVars, holder, ops>>

\* Claude writes to the folder it was started for, which it makes if need be.
Written(n) ==
    IF Exists(n)
    THEN /\ filled' = filled \cup {folder[n]}
         /\ UNCHANGED <<folder, made>>
    ELSE /\ made < MaxMade
         /\ folder' = [folder EXCEPT ![n] = made + 1]
         /\ filled' = filled \cup {made + 1}
         /\ made' = made + 1

\* Claude registers its session while launch::start waits for it; or it asks
\* something, or is slow, and is left at that with the lock free again.
Launch(r) ==
    LET n == req[r].name IN
    /\ req[r].pc = "launch"
    /\ \/ /\ Written(n)
          /\ session' = [session EXCEPT ![folder'[n]] = n]
          /\ UNCHANGED waiting
       \/ /\ waiting' = waiting \cup {n}
          /\ UNCHANGED <<folder, filled, made, session>>
    /\ Release(r) /\ Answer(r)
    /\ UNCHANGED <<trash, signedIn, setUp, missed, loginVars, ops>>

\* A rename or delete that has looked for running sessions and not moved the
\* folder yet.
PastLook(n) ==
    \E r \in Requests : req[r].name = n /\ req[r].pc \in {"taken", "move", "logins", "trash"}

\* It gets past its prompt, and registers in the folder it was started for.
Register(n) ==
    /\ n \in waiting
    /\ waiting' = waiting \ {n}
    /\ Written(n)
    /\ session' = [session EXCEPT ![folder'[n]] = n]
    /\ missed' = IF PastLook(n) THEN missed \cup {folder'[n]} ELSE missed
    /\ UNCHANGED <<trash, signedIn, setUp, loginVars, holder, req, ops>>

GivesUp(n) ==
    /\ n \in waiting
    /\ waiting' = waiting \ {n}
    /\ UNCHANGED <<accountVars, session, missed, loginVars, holder, req, ops>>

SessionEnds(i) ==
    /\ session[i] # Nowhere
    /\ session' = [session EXCEPT ![i] = Nowhere]
    /\ missed' = missed \ {i}
    /\ UNCHANGED <<accountVars, waiting, loginVars, holder, req, ops>>

\* A rename refuses while sessions run, or stops them; a delete refuses.
StopFirst(r) ==
    LET n == req[r].name IN
    /\ req[r].pc = "running" /\ req[r].op = "rename"
    /\ \/ /\ ~Runs(n) \/ req[r].to = n
          /\ UNCHANGED <<session, missed>>
       \/ /\ Runs(n) /\ req[r].to # n
          /\ session' = [session EXCEPT ![folder[n]] = Nowhere]
          /\ missed' = missed \ {folder[n]}
    /\ Goto(r, "taken")
    /\ UNCHANGED <<accountVars, waiting, loginVars, holder, ops>>

\* Variant: a running session goes unseen.
NotRunningUnseen(r) ==
    /\ req[r].pc = "running" /\ req[r].op = "delete"
    /\ Goto(r, "logins")
    /\ UNCHANGED <<accountVars, sessionVars, loginVars, holder, ops>>

NotRunning(r) ==
    /\ req[r].pc = "running" /\ req[r].op = "delete"
    /\ ~Runs(req[r].name)
    /\ Goto(r, "logins")
    /\ UNCHANGED <<accountVars, sessionVars, loginVars, holder, ops>>

RefuseRunning(r) ==
    /\ req[r].pc = "running" /\ Runs(req[r].name)
    /\ req[r].op = "rename" => req[r].to # req[r].name
    /\ Release(r) /\ Answer(r)
    /\ UNCHANGED <<accountVars, sessionVars, loginVars, ops>>

\* accounts::rename: its own name is left as it is, a taken one refused.
CheckTaken(r) ==
    /\ req[r].pc = "taken"
    /\ IF req[r].to = req[r].name \/ Exists(req[r].to)
       THEN Release(r) /\ Answer(r)
       ELSE Goto(r, "move") /\ UNCHANGED holder
    /\ UNCHANGED <<accountVars, sessionVars, loginVars, ops>>

\* Variant: whatever is there is replaced.
MoveOver(r) ==
    LET n == req[r].name  m == req[r].to IN
    /\ req[r].pc = "move"
    /\ folder' = IF Exists(n) THEN [folder EXCEPT ![m] = folder[n], ![n] = 0] ELSE folder
    /\ Release(r) /\ Answer(r)
    /\ UNCHANGED <<trash, signedIn, setUp, filled, made, sessionVars, loginVars, ops>>

\* rename(2) takes the place of a folder with nothing in it.
Move(r) ==
    LET n == req[r].name  m == req[r].to IN
    /\ req[r].pc = "move"
    /\ folder' = IF Exists(n) /\ (~Exists(m) \/ folder[m] \notin filled)
                 THEN [folder EXCEPT ![m] = folder[n], ![n] = 0] ELSE folder
    /\ Release(r) /\ Answer(r)
    /\ UNCHANGED <<trash, signedIn, setUp, filled, made, sessionVars, loginVars, ops>>

(***************************************************************************)
(* Sign-ins.  Whatever looks at those under way drops the ones past their  *)
(* ten minutes; one that is dropped has its claude killed.                 *)
(***************************************************************************)

UnderWay(l) == {n \in Logins : l[n].at = "active"}
Drop(S) == [n \in Logins |-> IF n \in S THEN [login[n] EXCEPT !.at = "over"] ELSE login[n]]
Expired == {n \in UnderWay(login) : login[n].old}

Expire(n) ==
    /\ login[n].at = "active" /\ ~login[n].old
    /\ login' = [login EXCEPT ![n].old = TRUE]
    /\ UNCHANGED <<accountVars, sessionVars, started, holder, req, ops>>

\* in_progress, and then the account goes to the trash.
CheckLogins(r) ==
    /\ req[r].pc = "logins"
    /\ login' = Drop(Expired)
    /\ IF \E n \in UnderWay(login') : login[n].name = req[r].name
       THEN Release(r) /\ Answer(r)
       ELSE Goto(r, "trash") /\ UNCHANGED holder
    /\ UNCHANGED <<accountVars, sessionVars, started, ops>>

Trash(r) ==
    LET n == req[r].name IN
    /\ req[r].pc = "trash"
    /\ trash' = trash \cup ({folder[n]} \ {0})
    /\ folder' = [folder EXCEPT ![n] = 0]
    /\ Release(r) /\ Answer(r)
    /\ UNCHANGED <<signedIn, setUp, filled, made, sessionVars, loginVars, ops>>

\* start: the account's own is dropped, two others are enough; claude is
\* started with nothing held, and is under way once it printed its link.
Others(name) == {n \in UnderWay(Drop(Expired)) : login[n].name # name}

Spawn(r) ==
    LET name == req[r].name
        kept == Drop(UnderWay(login) \ Others(name))
        mine == {n \in UnderWay(login) : login[n].name = name}
    IN
    /\ req[r].pc = "check"
    /\ IF Cardinality(Others(name)) >= Active
       THEN /\ login' = Drop(Expired \cup mine)
            /\ Answer(r)
            /\ UNCHANGED started
       ELSE /\ started < MaxLogins
            /\ login' = [kept EXCEPT ![started + 1] =
                           [NoLogin EXCEPT !.at = "starting", !.name = name,
                                           !.of = req[r].of]]
            /\ started' = started + 1
            /\ req' = [req EXCEPT ![r].pc = "url", ![r].login = started + 1]
    /\ UNCHANGED <<accountVars, sessionVars, holder, ops>>

Offered(r) ==
    /\ req[r].pc = "url"
    /\ login' = [Drop(Expired) EXCEPT ![req[r].login].at = "active"]
    /\ Answer(r)
    /\ UNCHANGED <<accountVars, sessionVars, started, holder, ops>>

\* No link, or one to an unexpected site.
NotOffered(r) ==
    /\ req[r].pc = "url"
    /\ login' = [login EXCEPT ![req[r].login].at = "over"]
    /\ Answer(r)
    /\ UNCHANGED <<accountVars, sessionVars, started, holder, ops>>

\* submit: the code goes to a sign-in once, which is taken out for it.
Submit(r, n) ==
    LET l == Drop(Expired) IN
    /\ req[r].pc = "idle" /\ ops < MaxOps /\ login[n].at \notin {"none", "starting"}
    /\ ops' = ops + 1
    /\ IF l[n].at = "active"
       THEN /\ login' = [l EXCEPT ![n].at = "submitting", ![n].proc = "typed"]
            /\ req' = [req EXCEPT ![r] = [Idle EXCEPT !.op = "code", !.login = n,
                                            !.name = l[n].name, !.pc = "code"]]
       ELSE login' = l /\ UNCHANGED req
    /\ UNCHANGED <<accountVars, sessionVars, started, holder>>

Cancel(n) ==
    LET l == Drop(Expired) IN
    /\ ops < MaxOps /\ login[n].at \notin {"none", "starting"}
    /\ ops' = ops + 1
    /\ login' = IF l[n].at = "active" THEN [l EXCEPT ![n].at = "over"] ELSE l
    /\ UNCHANGED <<accountVars, sessionVars, started, holder, req>>

\* Claude takes the code or turns it down (external).
TakesCode(n) ==
    /\ login[n].at = "submitting" /\ login[n].proc = "typed"
    /\ Written(login[n].name)
    /\ signedIn' = signedIn \cup {folder'[login[n].name]}
    /\ login' = [login EXCEPT ![n].proc = "signedIn"]
    /\ UNCHANGED <<trash, setUp, sessionVars, started, holder, req, ops>>

TurnsDown(n) ==
    /\ login[n].at = "submitting" /\ login[n].proc = "typed"
    /\ login' = [login EXCEPT ![n].proc = "refused"]
    /\ UNCHANGED <<accountVars, sessionVars, started, holder, req, ops>>

\* It ended well, or didn't in its thirty seconds.
Judge(r) ==
    LET n == req[r].login IN
    /\ req[r].pc = "code"
    /\ login' = [login EXCEPT ![n].at = "over"]
    /\ IF login[n].proc = "signedIn" THEN Goto(r, "find") ELSE Answer(r)
    /\ UNCHANGED <<accountVars, sessionVars, started, holder, ops>>

Find(r) ==
    /\ req[r].pc = "find"
    /\ IF Exists(req[r].name) THEN Goto(r, "confirm") ELSE Answer(r)
    /\ UNCHANGED <<accountVars, sessionVars, loginVars, holder, ops>>

\* `claude auth status` says so, or not in time.
Confirm(r) ==
    LET n == req[r].name IN
    /\ req[r].pc = "confirm"
    /\ \/ Exists(n) /\ folder[n] \in signedIn /\ Goto(r, "finish")
       \/ Answer(r)
    /\ UNCHANGED <<accountVars, sessionVars, loginVars, holder, ops>>

\* finish_setup, of what is in the folder now.
Finish(r) ==
    LET n == req[r].name IN
    /\ req[r].pc = "finish"
    /\ setUp' = IF Exists(n) /\ folder[n] \in signedIn THEN setUp \cup {folder[n]} ELSE setUp
    /\ Answer(r)
    /\ UNCHANGED <<folder, trash, signedIn, filled, made, sessionVars, loginVars, holder, ops>>

\* A sign-out, which SignOut models.
SignedOut(i) ==
    /\ i \in signedIn
    /\ signedIn' = signedIn \ {i}
    /\ UNCHANGED <<folder, trash, setUp, filled, made, sessionVars, loginVars, holder, req, ops>>

Next ==
    \/ \E r \in Requests, n \in Names :
         \/ Create(r, n) \/ Delete(r, n) \/ NewSession(r, n) \/ StartLogin(r, n)
         \/ \E m \in Names : Rename(r, n, m)
    \/ \E r \in Requests :
         \/ Mkdir(r) \/ Lock(r) \/ Launch(r)
         \/ StopFirst(r) \/ NotRunning(r) \/ RefuseRunning(r)
         \/ CheckTaken(r) \/ Move(r) \/ CheckLogins(r) \/ Trash(r)
         \/ Spawn(r) \/ Offered(r) \/ NotOffered(r)
         \/ Judge(r) \/ Find(r) \/ Confirm(r) \/ Finish(r)
         \/ \E n \in Logins : Submit(r, n)
    \/ \E n \in Logins : Expire(n) \/ Cancel(n) \/ TakesCode(n) \/ TurnsDown(n)
    \/ \E n \in Names : Register(n) \/ GivesUp(n)
    \/ \E i \in Made : SessionEnds(i) \/ SignedOut(i)

Spec == Init /\ [][Next]_vars

(***************************************************************************)
(* Properties.                                                             *)
(***************************************************************************)

\* An account Claude wrote to is never lost: it has a folder, under some name,
\* or is in the trash, and is in one place only, whichever requests raced.
AccountsKept ==
    \A i \in filled :
        Cardinality({n \in Names : folder[n] = i}) + (IF i \in trash THEN 1 ELSE 0) = 1

\* A running session's account is where the session was started: a rename or
\* delete takes the folder only from under one that registered after the look
\* at what runs, having been left at a prompt by the request that started it
\* (settle answers "waiting", and the account's lock is free again).
SessionsAtHome ==
    \A i \in Made \ missed : session[i] # Nowhere => folder[session[i]] = i
===============================================================================
