------------------------------ MODULE HostProofs ------------------------------
(***************************************************************************)
(* Accounts.  A rename or delete has found that no session runs under the  *)
(* name it holds the lock of, and none starts while it does.  A rename     *)
(* takes no lock on the new name, but a folder that is moved over one has  *)
(* no running session either, and none that was written to is replaced.    *)
(***************************************************************************)
EXTENDS AccountSessionsProofs, ArchiveProofs, FiniteSetTheorems

(* Requests and sign-ins that are under way have a name.                   *)
AllNamed ==
  /\ \A r \in Worker :
       /\ req[r].pc # "idle" => req[r].name \in AccountNames
       /\ req[r].pc \in {"lock", "running", "taken", "move"} => req[r].to \in AccountNames
  /\ \A n \in Accounts!Logins : login[n].at # "none" => login[n].name \in AccountNames
  /\ \A r \in Worker : req[r].pc \in {"url", "code"} =>
       req[r].login \in Accounts!Logins /\ login[req[r].login].at # "none"

(* An account is in one place, and one Claude wrote to is in a place.      *)
OnePlace ==
  /\ \A n, m \in AccountNames : folder[n] # 0 /\ folder[n] = folder[m] => n = m
  /\ \A n \in AccountNames : folder[n] <= made /\ (folder[n] # 0 => folder[n] \notin trash)
  /\ \A i \in trash \cup filled : i <= made
  /\ \A i \in filled : i \in trash \/ \E n \in AccountNames : folder[n] = i

(* A session runs where it was started, in an account Claude wrote to.     *)
RunsAtHome ==
  /\ Accounts!SessionsAtHome
  /\ \A i \in Accounts!Made : session[i] # "nowhere" => i \in filled

(* A request past its lock holds the lock of the account it names.         *)
NameLocked ==
  \A r \in Worker :
    req[r].pc \in {"launch", "running", "taken", "move", "logins", "trash"}
      => nameHolder[req[r].name] = r

(* A session runs there that a look at what runs hasn't missed.            *)
Loud(n) == Accounts!Runs(n) /\ folder[n] \notin missed

(* What a rename or delete has seen is still so, but for such a session.   *)
SeenQuiet ==
  \A r \in Worker :
    /\ req[r].pc = "taken" => req[r].to = req[r].name \/ ~Loud(req[r].name)
    /\ req[r].pc = "move" => req[r].to # req[r].name
    /\ req[r].pc \in {"move", "logins", "trash"} => ~Loud(req[r].name)

AccountsInv ==
  Accounts!TypeOK /\ AllNamed /\ OnePlace /\ RunsAtHome /\ NameLocked /\ SeenQuiet

USE DEF Accounts!Nowhere, Accounts!Nobody, Accounts!accountVars, Accounts!loginVars,
        Accounts!sessionVars,
        Accounts!Goto, Accounts!Answer, Accounts!Release, Accounts!Exists

LEMMA IdleTyped == Accounts!Idle \in Accounts!UnderWays /\ Accounts!Idle.pc = "idle"
BY NamesAssumption DEF Accounts!Idle, Accounts!UnderWays, Accounts!Steps, Accounts!Ops

LEMMA InitAccountsInv == Accounts!Init => AccountsInv
<1> SUFFICES ASSUME Accounts!Init PROVE AccountsInv
  OBVIOUS
<1> USE NamesAssumption, IdleTyped DEF Accounts!Init
<1>1. /\ folder \in [AccountNames -> 0..MaxMade]
      /\ session \in [Accounts!Made -> AccountNames \cup {"nowhere"}]
      /\ made \in 0..MaxMade /\ started \in 0..MaxLogins /\ ops \in 0..MaxOps
  OBVIOUS
<1>2. login \in [Accounts!Logins -> Accounts!SignIns]
  BY DEF Accounts!NoLogin, Accounts!SignIns, Accounts!At
<1>3. Accounts!TypeOK
  BY <1>1, <1>2 DEF Accounts!TypeOK
<1>4. AllNamed /\ NameLocked /\ SeenQuiet
  BY DEF AllNamed, NameLocked, SeenQuiet, Accounts!NoLogin
<1>5. OnePlace
  BY DEF OnePlace
<1>6. RunsAtHome
  BY DEF RunsAtHome, Accounts!SessionsAtHome
<1> QED
  BY <1>3, <1>4, <1>5, <1>6 DEF AccountsInv

(* Dropping sign-ins leaves their names.                                   *)
LEMMA DropTyped ==
  ASSUME login \in [Accounts!Logins -> Accounts!SignIns], NEW S
  PROVE  /\ Accounts!Drop(S) \in [Accounts!Logins -> Accounts!SignIns]
         /\ \A n \in Accounts!Logins :
              /\ Accounts!Drop(S)[n].name = login[n].name
              /\ Accounts!Drop(S)[n].at # "none" => login[n].at # "none" \/ n \in S
              /\ login[n].at # "none" => Accounts!Drop(S)[n].at # "none"
BY DEF Accounts!Drop, Accounts!SignIns, Accounts!At

(* A step's sign-ins have a name, and none that was started is forgotten.  *)
SignInsNamed ==
  /\ login' \in [Accounts!Logins -> Accounts!SignIns]
  /\ \A n \in Accounts!Logins :
       /\ login'[n].at # "none" => login'[n].name \in AccountNames
       /\ login[n].at # "none" => login'[n].at # "none"

LEMMA SignInsAlone ==
  ASSUME AccountsInv, UNCHANGED login PROVE SignInsNamed
BY DEF AccountsInv, Accounts!TypeOK, AllNamed, SignInsNamed

(* Some of those under way are dropped.                                    *)
LEMMA SomeDropped ==
  ASSUME AccountsInv, NEW S \in SUBSET Accounts!UnderWay(login), login' = Accounts!Drop(S)
  PROVE  SignInsNamed
BY DropTyped DEF AccountsInv, Accounts!TypeOK, AllNamed, SignInsNamed, Accounts!UnderWay

(* One goes another step, others may be dropped.                           *)
LEMMA OneChanged ==
  ASSUME AccountsInv, NEW S \in SUBSET Accounts!UnderWay(login), NEW n \in Accounts!Logins,
         NEW new \in Accounts!SignIns, new.name \in AccountNames, new.at # "none",
         login' = [Accounts!Drop(S) EXCEPT ![n] = new]
  PROVE  SignInsNamed
BY DropTyped DEF AccountsInv, Accounts!TypeOK, AllNamed, SignInsNamed, Accounts!UnderWay

(* A step of one request that leaves folders and sessions alone.           *)
LEMMA RequestStep ==
  ASSUME AccountsInv, NEW r \in Worker, NEW next \in Accounts!UnderWays,
         req' = [req EXCEPT ![r] = next],
         UNCHANGED <<folder, trash, filled, made, session, waiting, waiting, missed>>,
         signedIn' \subseteq Accounts!Made, setUp' \subseteq Accounts!Made,
         SignInsNamed,
         next.pc \in {"url", "code"} =>
           next.login \in Accounts!Logins /\ login'[next.login].at # "none",
         nameHolder' \in [AccountNames -> Worker \cup {"nobody"}],
         \A q \in Worker \ {r}, n \in AccountNames : nameHolder[n] = q => nameHolder'[n] = q,
         started' \in 0..MaxLogins, ops' \in 0..MaxOps,
         next.pc # "idle" => next.name \in AccountNames,
         next.pc \in {"lock", "running", "taken", "move"} => next.to \in AccountNames,
         next.pc \in {"launch", "running", "taken", "move", "logins", "trash"}
           => nameHolder'[next.name] = r,
         next.pc = "taken" => next.to = next.name \/ ~Loud(next.name),
         next.pc = "move" => next.to # next.name,
         next.pc \in {"move", "logins", "trash"} => ~Loud(next.name)
  PROVE  AccountsInv'
<1> USE DEF AccountsInv
<1> USE DEF SignInsNamed
<1>1. req' \in [Worker -> Accounts!UnderWays] /\ req'[r] = next
      /\ \A q \in Worker \ {r} : req'[q] = req[q]
  BY DEF Accounts!TypeOK
<1>2. Accounts!TypeOK'
  BY <1>1 DEF Accounts!TypeOK
<1>3. AllNamed'
  BY <1>1 DEF AllNamed
<1>4. OnePlace'
  BY DEF OnePlace
<1>5. RunsAtHome'
  BY DEF RunsAtHome, Accounts!SessionsAtHome
<1>6. NameLocked'
  BY <1>1 DEF NameLocked, AllNamed
<1>7. SeenQuiet'
  BY <1>1 DEF SeenQuiet, Loud, Accounts!Runs
<1> QED
  BY <1>2, <1>3, <1>4, <1>5, <1>6, <1>7

(* A step of no request that leaves folders and sessions alone.            *)
LEMMA OthersStep ==
  ASSUME AccountsInv, UNCHANGED <<folder, trash, filled, made, session, waiting, missed, req,
                                     nameHolder>>,
         signedIn' \subseteq Accounts!Made, setUp' \subseteq Accounts!Made,
         SignInsNamed, started' \in 0..MaxLogins, ops' \in 0..MaxOps
  PROVE  AccountsInv'
<1> USE DEF AccountsInv, SignInsNamed
<1>1. Accounts!TypeOK'
  BY DEF Accounts!TypeOK
<1>2. AllNamed'
  BY DEF AllNamed
<1>3. OnePlace' /\ RunsAtHome'
  BY DEF OnePlace, RunsAtHome, Accounts!SessionsAtHome
<1>4. NameLocked' /\ SeenQuiet'
  BY DEF NameLocked, SeenQuiet, Loud, Accounts!Runs
<1> QED
  BY <1>1, <1>2, <1>3, <1>4

LEMMA BeginKeeps ==
  ASSUME AccountsInv, NEW r \in Worker, NEW n \in AccountNames, NEW m \in AccountNames,
         NEW op \in Accounts!Ops, op # "code", Accounts!Begin(r, op, n, m)
  PROVE  AccountsInv'
<1> DEFINE next == [Accounts!Idle EXCEPT !.op = op, !.name = n, !.to = m, !.of = folder[n],
                               !.pc = CASE op = "create" -> "mkdir"
                                        [] op = "login" -> "check"
                                        [] OTHER -> "lock"]
<1>1. /\ next \in Accounts!UnderWays /\ next.name = n /\ next.to = m
      /\ next.pc \in {"mkdir", "check", "lock"}
  BY IdleTyped, NamesAssumption
     DEF AccountsInv, Accounts!TypeOK, Accounts!UnderWays, Accounts!Steps, Accounts!Ops,
         Accounts!Idle
<1>2. req' = [req EXCEPT ![r] = next] /\ ops' \in 0..MaxOps
  BY NamesAssumption DEF Accounts!Begin, AccountsInv, Accounts!TypeOK
<1> HIDE DEF next
<1> QED
  BY ZenonT(60), <1>1, <1>2, SignInsAlone, RequestStep DEF Accounts!Begin, AccountsInv, Accounts!TypeOK

(* A request that goes on to a step keeps what it asks for.                *)
LEMMA GoesOn ==
  ASSUME AccountsInv, NEW r \in Worker, NEW step \in Accounts!Steps,
         Accounts!Goto(r, step),
         UNCHANGED <<folder, trash, filled, made, session, waiting, waiting, missed>>,
         signedIn' \subseteq Accounts!Made, setUp' \subseteq Accounts!Made,
         SignInsNamed,
         step \notin {"url", "code"},
         nameHolder' \in [AccountNames -> Worker \cup {"nobody"}],
         \A q \in Worker \ {r}, n \in AccountNames : nameHolder[n] = q => nameHolder'[n] = q,
         started' \in 0..MaxLogins, ops' \in 0..MaxOps,
         req[r].name \in AccountNames,
         step \in {"lock", "running", "taken", "move"} => req[r].to \in AccountNames,
         step \in {"launch", "running", "taken", "move", "logins", "trash"}
           => nameHolder'[req[r].name] = r,
         step = "taken" => req[r].to = req[r].name \/ ~Loud(req[r].name),
         step = "move" => req[r].to # req[r].name,
         step \in {"move", "logins", "trash"} => ~Loud(req[r].name)
  PROVE  AccountsInv'
<1> DEFINE next == [req[r] EXCEPT !.pc = step]
<1>1. req' = [req EXCEPT ![r] = next]
  OBVIOUS
<1>2. next \in Accounts!UnderWays
  BY DEF AccountsInv, Accounts!TypeOK, Accounts!UnderWays
<1>3. next.pc = step /\ next.name = req[r].name /\ next.to = req[r].to
  BY DEF AccountsInv, Accounts!TypeOK, Accounts!UnderWays
<1> HIDE DEF next
<1>4. /\ next.pc # "idle" => next.name \in AccountNames
      /\ next.pc \in {"url", "code"} =>
           next.login \in Accounts!Logins /\ login'[next.login].at # "none"
      /\ next.pc \in {"lock", "running", "taken", "move"} => next.to \in AccountNames
      /\ next.pc \in {"launch", "running", "taken", "move", "logins", "trash"}
           => nameHolder'[next.name] = r
      /\ next.pc = "taken" => next.to = next.name \/ ~Loud(next.name)
      /\ next.pc = "move" => next.to # next.name
      /\ next.pc \in {"move", "logins", "trash"} => ~Loud(next.name)
  BY <1>3
<1> QED
  BY <1>1, <1>2, <1>4, RequestStep

LEMMA LockKeeps ==
  ASSUME AccountsInv, NEW r \in Worker, Accounts!Lock(r)
  PROVE  AccountsInv'
<1> DEFINE step == IF req[r].op = "session" THEN "launch" ELSE "running"
<1>1. step \in Accounts!Steps
  BY DEF Accounts!Steps
<1>2. req[r].name \in AccountNames /\ req[r].to \in AccountNames
  BY DEF AccountsInv, AllNamed, Accounts!Lock
<1>3. Accounts!Goto(r, step) /\ step \in {"launch", "running"}
  BY DEF Accounts!Lock
<1>4. /\ nameHolder' \in [AccountNames -> Worker \cup {"nobody"}]
      /\ \A q \in Worker \ {r}, n \in AccountNames : nameHolder[n] = q => nameHolder'[n] = q
      /\ nameHolder'[req[r].name] = r
  BY <1>2, NamesAssumption DEF Accounts!Lock, AccountsInv, Accounts!TypeOK
<1>5. UNCHANGED <<folder, trash, filled, made, session, waiting, missed, signedIn, setUp, login, started, ops>>
  BY DEF Accounts!Lock
<1> HIDE DEF step
<1> QED
  BY <1>1, <1>2, <1>3, <1>4, <1>5, SignInsAlone, GoesOn DEF AccountsInv, Accounts!TypeOK

(* Giving up a lock takes it from nobody else.                             *)
LEMMA Releasing ==
  ASSUME AccountsInv, NEW r \in Worker,
         req[r].pc \in {"launch", "running", "taken", "move", "logins", "trash"},
         Accounts!Release(r)
  PROVE  /\ nameHolder' \in [AccountNames -> Worker \cup {"nobody"}]
         /\ \A q \in Worker \ {r}, n \in AccountNames : nameHolder[n] = q => nameHolder'[n] = q
BY DEF AccountsInv, Accounts!TypeOK, AllNamed, NameLocked

(* Steps that look, refuse or answer.                                      *)
LEMMA WatchingKeeps ==
  ASSUME AccountsInv, NEW r \in Worker,
         \/ Accounts!NotRunning(r) \/ Accounts!RefuseRunning(r) \/ Accounts!CheckTaken(r)
         \/ Accounts!Find(r) \/ Accounts!Confirm(r) \/ Accounts!Finish(r)
  PROVE  AccountsInv'
<1>1. {"logins", "move", "confirm", "finish"} \subseteq Accounts!Steps
  BY DEF Accounts!Steps
<1>2. req[r].pc # "idle" /\ req[r].name \in AccountNames
  BY DEF AccountsInv, AllNamed, Accounts!NotRunning, Accounts!RefuseRunning,
         Accounts!CheckTaken, Accounts!Find, Accounts!Confirm, Accounts!Finish
<1> USE DEF AccountsInv, Accounts!TypeOK, AllNamed
<1>3. CASE Accounts!NotRunning(r)
  BY <1>1, <1>2, <1>3, SignInsAlone, GoesOn DEF Accounts!NotRunning, NameLocked, Loud
<1>4. CASE Accounts!RefuseRunning(r)
  BY <1>2, <1>4, IdleTyped, Releasing, SignInsAlone, RequestStep DEF Accounts!RefuseRunning
<1>5. CASE Accounts!CheckTaken(r)
  <2>1. CASE Accounts!Release(r) /\ Accounts!Answer(r)
    BY <1>2, <1>5, <2>1, IdleTyped, Releasing, SignInsAlone, RequestStep DEF Accounts!CheckTaken
  <2>2. CASE Accounts!Goto(r, "move") /\ UNCHANGED nameHolder /\ req[r].to # req[r].name
    <3>1. ~Loud(req[r].name)
      BY <1>5, <2>2 DEF SeenQuiet, Accounts!CheckTaken
    <3> QED
      BY ZenonT(60), <1>1, <1>2, <1>5, <2>2, <3>1, SignInsAlone, GoesOn DEF Accounts!CheckTaken, NameLocked
  <2> QED
    BY <1>5, <2>1, <2>2 DEF Accounts!CheckTaken
<1>6. CASE Accounts!Find(r) \/ Accounts!Confirm(r)
  <2>1. CASE Accounts!Answer(r)
    BY <1>2, <1>6, <2>1, IdleTyped, SignInsAlone, RequestStep DEF Accounts!Find, Accounts!Confirm
  <2>2. CASE Accounts!Goto(r, "confirm") \/ Accounts!Goto(r, "finish")
    BY <1>1, <1>2, <1>6, <2>2, SignInsAlone, GoesOn DEF Accounts!Find, Accounts!Confirm
  <2> QED
    BY <1>6, <2>1, <2>2 DEF Accounts!Find, Accounts!Confirm
<1>7. CASE Accounts!Finish(r)
  <2>1. setUp' \subseteq Accounts!Made
    BY <1>2, <1>7 DEF Accounts!Finish, Accounts!Made
  <2> QED
    BY <1>2, <1>7, <2>1, IdleTyped, SignInsAlone, RequestStep DEF Accounts!Finish
<1> QED
  BY <1>3, <1>4, <1>5, <1>6, <1>7

(* Sign-ins.                                                               *)
LEMMA SignInsKeep ==
  ASSUME AccountsInv, NEW r \in Worker,
         \/ Accounts!CheckLogins(r) \/ Accounts!Spawn(r) \/ Accounts!Offered(r)
         \/ Accounts!NotOffered(r) \/ Accounts!Judge(r)
         \/ \E n \in Accounts!Logins : Accounts!Submit(r, n)
  PROVE  AccountsInv'
<1> USE DEF AccountsInv, Accounts!TypeOK
<1>0. {"trash", "url", "find", "code"} \subseteq Accounts!Steps
      /\ {"starting", "active", "submitting", "over"} \subseteq Accounts!At
  BY DEF Accounts!Steps, Accounts!At
<1>a. Accounts!Expired \in SUBSET Accounts!UnderWay(login)
      /\ Accounts!UnderWay(login) \subseteq Accounts!Logins
  BY DEF Accounts!Expired, Accounts!UnderWay
<1>1. CASE Accounts!CheckLogins(r)
  <2>1. req[r].pc = "logins" /\ req[r].name \in AccountNames /\ nameHolder[req[r].name] = r
        /\ ~Loud(req[r].name)
    BY <1>1 DEF Accounts!CheckLogins, AllNamed, NameLocked, SeenQuiet
  <2>2. SignInsNamed
    BY <1>1, <1>a, SomeDropped DEF Accounts!CheckLogins
  <2>3. CASE Accounts!Release(r) /\ Accounts!Answer(r)
    BY <1>1, <2>1, <2>2, <2>3, IdleTyped, Releasing, RequestStep DEF Accounts!CheckLogins
  <2>4. CASE Accounts!Goto(r, "trash") /\ UNCHANGED nameHolder
    BY <1>0, <1>1, <2>1, <2>2, <2>4, GoesOn DEF Accounts!CheckLogins
  <2> QED
    BY <1>1, <2>3, <2>4 DEF Accounts!CheckLogins
<1>2. CASE Accounts!Spawn(r)
  <2>1. req[r].pc = "check" /\ req[r].name \in AccountNames
    BY <1>2 DEF Accounts!Spawn, AllNamed
  <2> DEFINE new == [Accounts!NoLogin EXCEPT !.at = "starting", !.name = req[r].name,
                                             !.of = req[r].of]
             next == [req[r] EXCEPT !.pc = "url", !.login = started + 1]
             mine == {n \in Accounts!UnderWay(login) : login[n].name = req[r].name}
             rest == Accounts!UnderWay(login) \ Accounts!Others(req[r].name)
  <2>2. CASE Accounts!Answer(r) /\ UNCHANGED started
             /\ login' = Accounts!Drop(Accounts!Expired \cup mine)
    <3>1. SignInsNamed
      <4>1. Accounts!Expired \cup mine \in SUBSET Accounts!UnderWay(login)
        BY <1>a
      <4> HIDE DEF mine
      <4> QED
        BY <2>2, <4>1, SomeDropped
    <3> QED
      BY <1>2, <2>1, <2>2, <3>1, IdleTyped, RequestStep DEF Accounts!Spawn
  <2>3. CASE /\ started < MaxLogins
             /\ login' = [Accounts!Drop(rest) EXCEPT ![started + 1] = new]
             /\ started' = started + 1
             /\ req' = [req EXCEPT ![r].pc = "url", ![r].login = started + 1]
    <3>2. new \in Accounts!SignIns /\ new.name = req[r].name /\ new.at = "starting"
      BY <1>0, <2>1, NamesAssumption
         DEF Accounts!NoLogin, Accounts!SignIns, Accounts!UnderWays
    <3>3. started + 1 \in Accounts!Logins /\ started' \in 0..MaxLogins
      BY <2>3, NamesAssumption DEF Accounts!Logins
    <3>4. SignInsNamed /\ login'[started + 1].at = "starting"
      <4>1. rest \in SUBSET Accounts!UnderWay(login)
        OBVIOUS
      <4> HIDE DEF new, rest
      <4> QED
        BY <2>1, <2>3, <3>2, <3>3, <4>1, OneChanged, DropTyped
    <3>5. /\ next \in Accounts!UnderWays /\ next.pc = "url" /\ next.name = req[r].name
          /\ next.login = started + 1
      <4>1. started + 1 \in 0..MaxLogins
        BY <3>3, NamesAssumption DEF Accounts!Logins
      <4> QED
        BY <1>0, <4>1 DEF Accounts!UnderWays
    <3>6. req' = [req EXCEPT ![r] = next]
      BY <2>3
    <3> HIDE DEF next, new
    <3> QED
      BY <1>2, <2>1, <3>3, <3>4, <3>5, <3>6, RequestStep DEF Accounts!Spawn
  <2> QED
    BY <1>2, <2>2, <2>3 DEF Accounts!Spawn
<1>3. CASE Accounts!Offered(r) \/ Accounts!NotOffered(r)
  <2>1. SignInsNamed
    <3> DEFINE n == req[r].login
    <3>1. n \in Accounts!Logins /\ login[n].at # "none" /\ login[n].name \in AccountNames
      BY <1>3 DEF Accounts!Offered, Accounts!NotOffered, AllNamed
    <3>2. \A S : Accounts!Drop(S)[n] \in Accounts!SignIns
                /\ Accounts!Drop(S)[n].name = login[n].name
      BY <3>1, DropTyped
    <3>3. /\ [Accounts!Drop(Accounts!Expired)[n] EXCEPT !.at = "active"] \in Accounts!SignIns
          /\ [Accounts!Drop({})[n] EXCEPT !.at = "over"] \in Accounts!SignIns
          /\ [Accounts!Drop(Accounts!Expired)[n] EXCEPT !.at = "active"].name = login[n].name
          /\ [Accounts!Drop({})[n] EXCEPT !.at = "over"].name = login[n].name
          /\ [Accounts!Drop(Accounts!Expired)[n] EXCEPT !.at = "active"].at # "none"
          /\ [Accounts!Drop({})[n] EXCEPT !.at = "over"].at # "none"
      BY <1>0, <3>2 DEF Accounts!SignIns
    <3>4. Accounts!Drop({}) = login
      BY DEF Accounts!Drop
    <3>5. \/ login' = [Accounts!Drop(Accounts!Expired) EXCEPT ![n] =
                        [Accounts!Drop(Accounts!Expired)[n] EXCEPT !.at = "active"]]
          \/ login' = [Accounts!Drop({}) EXCEPT ![n] =
                        [Accounts!Drop({})[n] EXCEPT !.at = "over"]]
      BY <1>3, <3>4 DEF Accounts!Offered, Accounts!NotOffered
    <3> HIDE DEF n
    <3> QED
      BY ZenonT(60), <1>a, <3>1, <3>3, <3>5, OneChanged
  <2> QED
    BY <1>3, <2>1, IdleTyped, RequestStep DEF Accounts!Offered, Accounts!NotOffered
<1>4. CASE Accounts!Judge(r)
  <2>1. req[r].pc = "code" /\ req[r].name \in AccountNames
    BY <1>4 DEF Accounts!Judge, AllNamed
  <2>2. SignInsNamed
    BY SMTT(30), <1>0, <1>4 DEF Accounts!Judge, AllNamed, Accounts!SignIns, SignInsNamed
  <2>3. CASE Accounts!Answer(r)
    BY <1>4, <2>2, <2>3, IdleTyped, RequestStep DEF Accounts!Judge
  <2>4. CASE Accounts!Goto(r, "find")
    BY <1>0, <1>4, <2>1, <2>2, <2>4, GoesOn DEF Accounts!Judge
  <2> QED
    BY <1>4, <2>3, <2>4 DEF Accounts!Judge
<1>5. ASSUME NEW n \in Accounts!Logins, Accounts!Submit(r, n) PROVE AccountsInv'
  <2> DEFINE l == Accounts!Drop(Accounts!Expired)
             new == [l[n] EXCEPT !.at = "submitting", !.proc = "typed"]
             next == [Accounts!Idle EXCEPT !.op = "code", !.login = n,
                                           !.name = l[n].name, !.pc = "code"]
  <2>1. ops' \in 0..MaxOps /\ UNCHANGED <<folder, trash, filled, made, session, waiting, missed, signedIn,
                                          setUp, nameHolder, started>>
    <3>1. ops \in 0..MaxOps /\ ops < MaxOps /\ ops' = ops + 1
      BY <1>5 DEF Accounts!Submit
    <3>2. ops' \in 0..MaxOps
      BY <3>1, NamesAssumption
    <3> QED
      BY <1>5, <3>2 DEF Accounts!Submit
  <2>2. /\ l \in [Accounts!Logins -> Accounts!SignIns] /\ l[n].name = login[n].name
        /\ login[n].at # "none"
    BY <1>5, DropTyped DEF Accounts!Submit
  <2>3. CASE /\ login' = [l EXCEPT ![n].at = "submitting", ![n].proc = "typed"]
             /\ req' = [req EXCEPT ![r] = next]
    <3>1. login' = [l EXCEPT ![n] = new]
      BY <2>2, <2>3
    <3>2. new \in Accounts!SignIns /\ new.name \in AccountNames /\ new.at # "none"
      <4>1. login[n].name \in AccountNames
        BY <2>2 DEF AllNamed
      <4>2. l[n] \in Accounts!SignIns
        BY <2>2
      <4> HIDE DEF l
      <4> QED
        BY <1>0, <2>2, <4>1, <4>2 DEF Accounts!SignIns
    <3>3. SignInsNamed
      <4> HIDE DEF new
      <4> QED
        BY <1>a, <3>1, <3>2, OneChanged
    <3>4. /\ next \in Accounts!UnderWays /\ next.pc = "code" /\ next.login = n
          /\ next.name \in AccountNames
      <4>1. l[n].name \in AccountNames
        BY <2>2 DEF AllNamed
      <4>2. n \in 0..MaxLogins
        BY NamesAssumption DEF Accounts!Logins
      <4> HIDE DEF l
      <4>3. 0 \in 0..MaxMade /\ "code" \in Accounts!Ops
        BY NamesAssumption DEF Accounts!Ops
      <4> QED
        BY <1>0, <4>1, <4>2, <4>3 DEF Accounts!Idle, Accounts!UnderWays
    <3>5. login'[n].at # "none"
      BY <2>2, <3>1
    <3> HIDE DEF next, l, new
    <3> QED
      BY <2>1, <2>3, <3>3, <3>4, <3>5, RequestStep
  <2>4. CASE login' = l /\ UNCHANGED req
    <3>1. SignInsNamed
      BY <1>a, <2>4, SomeDropped
    <3> QED
      BY <2>1, <2>4, <3>1, OthersStep
  <2> QED
    BY <1>5, <2>3, <2>4 DEF Accounts!Submit
<1> QED
  BY <1>3, <1>4, <1>5, <1>1, <1>2

(***************************************************************************)
(* Steps that make, move and trash folders, and sessions in them.          *)
(***************************************************************************)

(* What an account's folder holds once Claude wrote to it.                 *)
LEMMA WrittenTo ==
  ASSUME AccountsInv, NEW n \in AccountNames, Accounts!Written(n)
  PROVE  /\ folder' \in [AccountNames -> 0..MaxMade] /\ made' \in 0..MaxMade
         /\ filled' = filled \cup {folder'[n]} /\ folder'[n] \in Accounts!Made
         /\ made <= made' /\ folder'[n] <= made' /\ folder'[n] \notin trash
         /\ \A m \in AccountNames \ {n} : folder'[m] = folder[m] /\ folder[m] # folder'[n]
         /\ \/ folder[n] # 0 /\ folder' = folder
            \/ folder[n] = 0 /\ folder'[n] = made' /\ folder'[n] > made
<1> USE NamesAssumption DEF AccountsInv, Accounts!TypeOK, Accounts!Made
<1>1. CASE folder[n] # 0
  BY <1>1 DEF Accounts!Written, OnePlace
<1>2. CASE folder[n] = 0
  <2>1. made < MaxMade /\ made' = made + 1 /\ filled' = filled \cup {made + 1}
        /\ folder' = [folder EXCEPT ![n] = made + 1]
    BY <1>2 DEF Accounts!Written
  <2> QED
    BY <1>2, <2>1 DEF OnePlace
<1> QED
  BY <1>1, <1>2

(* Writing to an account's folder leaves every account in one place.       *)
LEMMA WrittenInPlace ==
  ASSUME AccountsInv, NEW n \in AccountNames, Accounts!Written(n), UNCHANGED trash
  PROVE  OnePlace'
<1> USE DEF AccountsInv, Accounts!TypeOK
<1> USE WrittenTo
<1>1. \A a, b \in AccountNames : folder'[a] # 0 /\ folder'[a] = folder'[b] => a = b
  BY DEF OnePlace
<1>2. \A a \in AccountNames : folder'[a] <= made' /\ (folder'[a] # 0 => folder'[a] \notin trash')
  BY NamesAssumption DEF OnePlace
<1>3. \A i \in trash' \cup filled' : i <= made'
  BY NamesAssumption DEF OnePlace, Accounts!Made
<1>4. \A i \in filled' : i \in trash' \/ \E a \in AccountNames : folder'[a] = i
  <2> SUFFICES ASSUME NEW i \in filled, i \notin trash
               PROVE  \E a \in AccountNames : folder'[a] = i
    OBVIOUS
  <2>1. PICK a \in AccountNames : folder[a] = i
    BY DEF OnePlace
  <2>2. i # 0
    BY DEF Accounts!Made
  <2> QED
    BY <2>1, <2>2
<1> QED
  BY <1>1, <1>2, <1>3, <1>4 DEF OnePlace

(* Claude registers its session in the folder it was started for, behind   *)
(* no look at what runs there, or where the look has missed it.            *)
LEMMA RegisteredHome ==
  ASSUME AccountsInv, NEW n \in AccountNames, Accounts!Written(n), UNCHANGED trash,
         session' = [session EXCEPT ![folder'[n]] = n],
         missed \subseteq missed', missed' \subseteq missed \cup {folder'[n]}
  PROVE  /\ filled' \subseteq Accounts!Made /\ folder' \in [AccountNames -> 0..MaxMade]
         /\ made' \in 0..MaxMade /\ missed' \subseteq Accounts!Made
         /\ session' \in [Accounts!Made -> AccountNames \cup {"nowhere"}]
         /\ OnePlace' /\ RunsAtHome'
         /\ \A x \in AccountNames \ {n} : ~Loud(x) => ~Loud(x)'
<1> USE DEF AccountsInv, Accounts!TypeOK
<1>1. /\ filled' \subseteq Accounts!Made /\ folder' \in [AccountNames -> 0..MaxMade]
      /\ made' \in 0..MaxMade /\ missed' \subseteq Accounts!Made
  BY WrittenTo
<1>2. session' \in [Accounts!Made -> AccountNames \cup {"nowhere"}]
  BY DEF AccountsInv, Accounts!TypeOK
<1>3. OnePlace'
  BY WrittenInPlace
<1>4. RunsAtHome'
  <2> SUFFICES ASSUME NEW i \in Accounts!Made, session'[i] # "nowhere"
               PROVE  /\ i \notin missed' => folder'[session'[i]] = i
                      /\ i \in filled'
    BY DEF RunsAtHome, Accounts!SessionsAtHome
  <2>1. CASE i = folder'[n]
    BY <2>1, WrittenTo
  <2>2. CASE i # folder'[n]
    <3>1. session'[i] = session[i] /\ i # 0
      BY <2>2 DEF Accounts!Made
    <3>2. i \in filled /\ session[i] \in AccountNames
      BY <3>1 DEF RunsAtHome
    <3>3. i \notin missed => folder[session[i]] = i
      BY <3>1 DEF RunsAtHome, Accounts!SessionsAtHome
    <3> QED
      BY <2>2, <3>1, <3>2, <3>3, WrittenTo
  <2> QED
    BY <2>1, <2>2
<1>5. ASSUME NEW x \in AccountNames \ {n}, ~Loud(x) PROVE ~Loud(x)'
  <2>1. folder'[x] = folder[x] /\ folder[x] # folder'[n]
    BY WrittenTo
  <2>2. folder[x] # 0 => session'[folder[x]] = session[folder[x]]
    BY <2>1, WrittenTo DEF Accounts!Made
  <2> QED
    BY <1>5, <2>1, <2>2 DEF Loud, Accounts!Runs
<1> QED
  BY <1>1, <1>2, <1>3, <1>4, <1>5

LEMMA LaunchKeeps ==
  ASSUME AccountsInv, NEW r \in Worker, Accounts!Launch(r)
  PROVE  AccountsInv'
<1> DEFINE n == req[r].name
<1> USE DEF AccountsInv, Accounts!TypeOK
<1>1. n \in AccountNames /\ nameHolder[n] = r /\ req[r].pc = "launch"
  BY DEF Accounts!Launch, AllNamed, NameLocked
<1>2. /\ req' = [req EXCEPT ![r] = Accounts!Idle]
      /\ UNCHANGED <<trash, signedIn, setUp, missed, login, started, ops>> /\ Accounts!Release(r)
  BY DEF Accounts!Launch
<1>3. req'[r] = Accounts!Idle /\ \A q \in Worker \ {r} : req'[q] = req[q]
  BY <1>2
<1>4. \/ /\ Accounts!Written(n) /\ session' = [session EXCEPT ![folder'[n]] = n]
         /\ UNCHANGED waiting
      \/ waiting' = waiting \cup {n} /\ UNCHANGED <<folder, filled, made, session>>
  BY DEF Accounts!Launch
<1> HIDE DEF n
<1>5. /\ filled' \subseteq Accounts!Made /\ folder' \in [AccountNames -> 0..MaxMade]
      /\ made' \in 0..MaxMade
      /\ session' \in [Accounts!Made -> AccountNames \cup {"nowhere"}]
      /\ OnePlace' /\ RunsAtHome'
      /\ \A x \in AccountNames \ {n} : ~Loud(x) => ~Loud(x)'
  <2>1. CASE Accounts!Written(n) /\ session' = [session EXCEPT ![folder'[n]] = n]
    BY <1>1, <1>2, <2>1, RegisteredHome
  <2>2. CASE UNCHANGED <<folder, filled, made, session>>
    BY <1>2, <2>2 DEF OnePlace, RunsAtHome, Accounts!SessionsAtHome, Loud, Accounts!Runs
  <2> QED
    BY <1>4, <2>1, <2>2
<1>6. waiting' \subseteq AccountNames
  BY <1>1, <1>4
<1>7. Accounts!TypeOK'
  <2>1. req' \in [Worker -> Accounts!UnderWays]
    BY <1>2, IdleTyped
  <2>2. nameHolder' \in [AccountNames -> Worker \cup {"nobody"}]
    BY <1>1, <1>2, Releasing
  <2> QED
    BY <1>2, <1>5, <1>6, <2>1, <2>2
<1>8. AllNamed'
  BY <1>2, <1>3, IdleTyped DEF AllNamed
<1>9. NameLocked'
  BY <1>1, <1>2, <1>3, IdleTyped, Releasing DEF NameLocked, AllNamed
<1>10. SeenQuiet'
  <2> SUFFICES ASSUME NEW q \in Worker, NEW x, x = req'[q].name, q # r
               PROVE  /\ req'[q].pc = "taken" => req'[q].to = x \/ ~Loud(x)'
                      /\ req'[q].pc = "move" => req'[q].to # x
                      /\ req'[q].pc \in {"move", "logins", "trash"} => ~Loud(x)'
    BY <1>3, IdleTyped DEF SeenQuiet, Loud, Accounts!Runs
  <2>1. req[q].pc \in {"taken", "move", "logins", "trash"} => x \in AccountNames \ {n}
    BY <1>1, <1>3 DEF AllNamed, NameLocked
  <2>2. req[q].pc \in {"taken", "move", "logins", "trash"} /\ ~Loud(x) => ~Loud(x)'
    BY <1>5, <2>1
  <2> QED
    BY <1>3, <2>2 DEF SeenQuiet
<1> QED
  BY <1>5, <1>7, <1>8, <1>9, <1>10

(* One left at a prompt registers later, or never does.                    *)
LEMMA RegisterKeeps ==
  ASSUME AccountsInv, NEW n \in AccountNames, Accounts!Register(n)
  PROVE  AccountsInv'
<1> USE DEF AccountsInv, Accounts!TypeOK
<1>1. /\ Accounts!Written(n) /\ session' = [session EXCEPT ![folder'[n]] = n]
      /\ waiting' \subseteq waiting
      /\ UNCHANGED <<trash, signedIn, setUp, login, started, nameHolder, req, ops>>
  BY DEF Accounts!Register
<1>2. missed \subseteq missed' /\ missed' \subseteq missed \cup {folder'[n]}
  BY DEF Accounts!Register
<1>3. Accounts!PastLook(n) => folder'[n] \in missed'
  BY DEF Accounts!Register
<1>4. /\ filled' \subseteq Accounts!Made /\ folder' \in [AccountNames -> 0..MaxMade]
      /\ made' \in 0..MaxMade /\ missed' \subseteq Accounts!Made
      /\ session' \in [Accounts!Made -> AccountNames \cup {"nowhere"}]
      /\ OnePlace' /\ RunsAtHome'
      /\ \A x \in AccountNames \ {n} : ~Loud(x) => ~Loud(x)'
  BY <1>1, <1>2, RegisteredHome
<1>5. Accounts!TypeOK'
  BY <1>1, <1>4
<1>6. AllNamed' /\ NameLocked'
  BY <1>1 DEF AllNamed, NameLocked
<1>7. SeenQuiet'
  <2> SUFFICES ASSUME NEW q \in Worker, req[q].pc \in {"taken", "move", "logins", "trash"},
                      ~Loud(req[q].name)
               PROVE  ~Loud(req[q].name)'
    BY <1>1 DEF SeenQuiet
  <2>1. req[q].name \in AccountNames
    BY DEF AllNamed
  <2>2. CASE req[q].name = n
    <3>1. folder'[n] \in missed'
      BY <1>3, <2>2 DEF Accounts!PastLook
    <3> QED
      BY <1>1, <2>2, <3>1 DEF Loud
  <2>3. CASE req[q].name # n
    BY <1>1, <1>4, <2>1, <2>3 DEF Loud, Accounts!Runs
  <2> QED
    BY <2>2, <2>3
<1> QED
  BY <1>4, <1>5, <1>6, <1>7

LEMMA GivesUpKeeps ==
  ASSUME AccountsInv, NEW n \in AccountNames, Accounts!GivesUp(n)
  PROVE  AccountsInv'
<1>1. /\ UNCHANGED <<folder, trash, signedIn, setUp, filled, made, session, missed, login,
                     started, nameHolder, req, ops>>
      /\ waiting' \subseteq waiting
  BY DEF Accounts!GivesUp
<1>2. Accounts!TypeOK'
  BY <1>1 DEF AccountsInv, Accounts!TypeOK
<1>3. AllNamed' /\ OnePlace' /\ NameLocked'
  BY <1>1 DEF AccountsInv, AllNamed, OnePlace, NameLocked
<1>4. RunsAtHome' /\ SeenQuiet'
  BY <1>1 DEF AccountsInv, RunsAtHome, SeenQuiet, Accounts!SessionsAtHome, Loud, Accounts!Runs
<1> QED
  BY <1>2, <1>3, <1>4 DEF AccountsInv

LEMMA MkdirKeeps ==
  ASSUME AccountsInv, NEW r \in Worker, Accounts!Mkdir(r)
  PROVE  AccountsInv'
<1> DEFINE n == req[r].name
<1> USE DEF AccountsInv, Accounts!TypeOK
<1>1. n \in AccountNames /\ req[r].pc = "mkdir"
  BY DEF Accounts!Mkdir, AllNamed
<1>2. UNCHANGED <<trash, signedIn, setUp, filled, session, waiting, missed, login, started, nameHolder, ops>>
      /\ req' = [req EXCEPT ![r] = Accounts!Idle]
  BY DEF Accounts!Mkdir
<1>3. CASE UNCHANGED <<folder, made>>
  BY <1>2, <1>3, IdleTyped, SignInsAlone, RequestStep
<1>4. CASE folder[n] = 0 /\ made < MaxMade /\ folder' = [folder EXCEPT ![n] = made + 1]
           /\ made' = made + 1
  <2>1. /\ folder' \in [AccountNames -> 0..MaxMade] /\ made' \in 0..MaxMade
        /\ folder'[n] = made + 1 /\ \A m \in AccountNames \ {n} : folder'[m] = folder[m]
    BY <1>1, <1>4, NamesAssumption
  <2>2. req'[r] = Accounts!Idle /\ \A q \in Worker \ {r} : req'[q] = req[q]
    BY <1>2
  <2>3. Accounts!TypeOK'
    BY <1>2, <2>1, IdleTyped
  <2>4. AllNamed' /\ NameLocked'
    BY <1>2, <2>2, IdleTyped DEF AllNamed, NameLocked
  <2>5. OnePlace'
    BY <1>1, <1>2, <1>4, <2>1, NamesAssumption DEF OnePlace, Accounts!Made
  <2>6. RunsAtHome'
    BY <1>1, <1>2, <1>4, <2>1, NamesAssumption
       DEF RunsAtHome, Accounts!SessionsAtHome, Accounts!Made
  <2>7. session[made + 1] = "nowhere"
    BY <1>4, NamesAssumption DEF RunsAtHome, OnePlace, Accounts!Made
  <2>8. SeenQuiet'
    BY <1>1, <1>2, <2>1, <2>2, <2>7, IdleTyped DEF SeenQuiet, AllNamed, Loud, Accounts!Runs
  <2> QED
    BY <2>3, <2>4, <2>5, <2>6, <2>8
<1> QED
  BY <1>3, <1>4 DEF Accounts!Mkdir

(* A session that ends, or that a rename stops, leaves its account.        *)
LEMMA EndedKeeps ==
  ASSUME AccountsInv, NEW i \in Accounts!Made, Accounts!SessionEnds(i)
  PROVE  AccountsInv'
<1> USE DEF AccountsInv, Accounts!TypeOK
<1>1. UNCHANGED <<folder, trash, signedIn, setUp, filled, made, login, started, nameHolder,
                  req, ops, waiting>> /\ session' = [session EXCEPT ![i] = "nowhere"]
      /\ missed' = missed \ {i}
  BY DEF Accounts!SessionEnds
<1>2. Accounts!TypeOK'
  BY <1>1
<1>3. AllNamed' /\ OnePlace' /\ NameLocked'
  BY <1>1 DEF AllNamed, OnePlace, NameLocked
<1>4. RunsAtHome' /\ SeenQuiet'
  BY <1>1 DEF RunsAtHome, SeenQuiet, Accounts!SessionsAtHome, Loud, Accounts!Runs
<1> QED
  BY <1>2, <1>3, <1>4

LEMMA StopFirstKeeps ==
  ASSUME AccountsInv, NEW r \in Worker, Accounts!StopFirst(r)
  PROVE  AccountsInv'
<1> DEFINE n == req[r].name
           next == [req[r] EXCEPT !.pc = "taken"]
<1> USE DEF AccountsInv, Accounts!TypeOK
<1>1. /\ n \in AccountNames /\ req[r].to \in AccountNames /\ nameHolder[n] = r
      /\ req[r].pc = "running"
  BY DEF Accounts!StopFirst, AllNamed, NameLocked
<1>2. UNCHANGED <<folder, trash, signedIn, setUp, filled, made, waiting, login, started, nameHolder,
                  ops>>
      /\ req' = [req EXCEPT ![r] = next]
  BY DEF Accounts!StopFirst
<1>3. next \in Accounts!UnderWays /\ next.pc = "taken" /\ next.name = n /\ next.to = req[r].to
  BY DEF Accounts!UnderWays, Accounts!Steps
<1>4. \/ UNCHANGED <<session, missed>> /\ (~Loud(n) \/ req[r].to = n)
      \/ folder[n] # 0 /\ session' = [session EXCEPT ![folder[n]] = "nowhere"]
           /\ missed' = missed \ {folder[n]}
  BY DEF Accounts!StopFirst, Loud, Accounts!Runs
<1> HIDE DEF next
<1>5. req'[r] = next /\ \A q \in Worker \ {r} : req'[q] = req[q]
  BY <1>2
<1> HIDE DEF n
<1>6. Accounts!TypeOK'
  BY <1>1, <1>2, <1>3, <1>4
<1>7. AllNamed' /\ OnePlace' /\ NameLocked'
  BY <1>1, <1>2, <1>3, <1>5 DEF AllNamed, OnePlace, NameLocked
<1>8. /\ session' \in [Accounts!Made -> AccountNames \cup {"nowhere"}]
      /\ \A i \in Accounts!Made : session'[i] \in {session[i], "nowhere"}
      /\ missed' \subseteq missed
      /\ \A i \in missed \ missed' : session'[i] = "nowhere"
  BY <1>1, <1>4
<1>9. RunsAtHome'
  BY <1>2, <1>8 DEF RunsAtHome, Accounts!SessionsAtHome
<1>10. \A x \in AccountNames : ~Loud(x) => ~Loud(x)'
  BY <1>2, <1>8 DEF Loud, Accounts!Runs, Accounts!Made
<1>11. ASSUME NEW x \in AccountNames, x = n PROVE req[r].to = x \/ ~Loud(x)'
  <2>1. CASE ~Loud(n) \/ req[r].to = n
    BY <1>10, <1>11, <2>1
  <2>2. CASE folder[n] # 0 /\ session' = [session EXCEPT ![folder[n]] = "nowhere"]
              /\ missed' = missed \ {folder[n]}
    <3>1. folder'[x] \in Accounts!Made /\ session'[folder'[x]] = "nowhere"
      BY <1>1, <1>2, <1>11, <2>2 DEF Accounts!Made
    <3> QED
      BY <3>1 DEF Loud, Accounts!Runs
  <2> QED
    BY <1>4, <2>1, <2>2
<1>13. SeenQuiet'
  <2> SUFFICES ASSUME NEW q \in Worker, NEW x \in AccountNames, x = req'[q].name
               PROVE  /\ req'[q].pc = "taken" => req'[q].to = x \/ ~Loud(x)'
                      /\ req'[q].pc = "move" => req'[q].to # x
                      /\ req'[q].pc \in {"move", "logins", "trash"} => ~Loud(x)'
    BY <1>7 DEF SeenQuiet, AllNamed, Loud, Accounts!Runs
  <2>1. CASE q = r
    BY <1>3, <1>5, <1>11, <2>1
  <2>2. CASE q # r
    BY <1>5, <1>10, <2>2 DEF SeenQuiet
  <2> QED
    BY <2>1, <2>2
<1> QED
  BY <1>6, <1>7, <1>9, <1>13

(* A folder leaves its name, for another or for the trash.                 *)
LEMMA RenameKeeps ==
  ASSUME AccountsInv, NEW r \in Worker, Accounts!Move(r)
  PROVE  AccountsInv'
<1> DEFINE n == req[r].name
           m == req[r].to
<1> USE DEF AccountsInv, Accounts!TypeOK
<1>1. /\ n \in AccountNames /\ m \in AccountNames /\ n # m /\ nameHolder[n] = r
      /\ req[r].pc = "move" /\ ~Loud(n)
  BY DEF Accounts!Move, AllNamed, NameLocked, SeenQuiet
<1>2. UNCHANGED <<trash, signedIn, setUp, filled, made, session, waiting, missed, login, started, ops>>
      /\ req' = [req EXCEPT ![r] = Accounts!Idle] /\ Accounts!Release(r)
  BY DEF Accounts!Move
<1>3. \/ UNCHANGED folder
      \/ /\ folder[n] # 0 /\ (folder[m] = 0 \/ folder[m] \notin filled)
         /\ folder' = [folder EXCEPT ![m] = folder[n], ![n] = 0]
  BY DEF Accounts!Move
<1>4. req'[r] = Accounts!Idle /\ \A q \in Worker \ {r} : req'[q] = req[q]
  BY <1>2
<1>5. CASE UNCHANGED folder
  BY <1>1, <1>2, <1>5, IdleTyped, SignInsAlone, Releasing, RequestStep
<1>6. CASE /\ folder[n] # 0 /\ (folder[m] = 0 \/ folder[m] \notin filled)
           /\ folder' = [folder EXCEPT ![m] = folder[n], ![n] = 0]
  <2> HIDE DEF n, m
  <2>1. /\ folder' \in [AccountNames -> 0..MaxMade] /\ folder'[m] = folder[n] /\ folder'[n] = 0
        /\ \A x \in AccountNames \ {n, m} : folder'[x] = folder[x]
    BY <1>1, <1>6, NamesAssumption
  <2>2. /\ nameHolder' \in [AccountNames -> Worker \cup {"nobody"}]
        /\ \A q \in Worker \ {r}, x \in AccountNames : nameHolder[x] = q => nameHolder'[x] = q
    BY <1>1, <1>2, Releasing
  <2>3. Accounts!TypeOK'
    BY <1>2, <2>1, <2>2, IdleTyped
  <2>4. AllNamed' /\ NameLocked'
    BY <1>2, <1>4, <2>2, IdleTyped DEF AllNamed, NameLocked
  <2>5. OnePlace'
    <3>1. \A a, b \in AccountNames : folder'[a] # 0 /\ folder'[a] = folder'[b] => a = b
      BY <1>1, <1>6, <2>1 DEF OnePlace
    <3>2. \A a \in AccountNames :
            folder'[a] <= made' /\ (folder'[a] # 0 => folder'[a] \notin trash')
      BY <1>1, <1>2, <2>1, NamesAssumption DEF OnePlace
    <3>3. \A i \in filled' : i \in trash' \/ \E a \in AccountNames : folder'[a] = i
      <4> SUFFICES ASSUME NEW i \in filled, i \notin trash
                   PROVE  \E a \in AccountNames : folder'[a] = i
        BY <1>2
      <4>1. PICK a \in AccountNames : folder[a] = i
        BY DEF OnePlace
      <4>2. i # 0
        BY DEF Accounts!Made
      <4> QED
        BY <1>1, <1>6, <2>1, <4>1, <4>2
    <3> QED
      BY <1>2, <3>1, <3>2, <3>3 DEF OnePlace
  <2>6. RunsAtHome'
    BY <1>1, <1>2, <1>6, <2>1 DEF RunsAtHome, Accounts!SessionsAtHome, Loud, Accounts!Runs, Accounts!Made
  <2>7. \A x \in AccountNames : ~Loud(x) => ~Loud(x)'
    BY <1>1, <1>2, <2>1 DEF Loud, Accounts!Runs
  <2>8. SeenQuiet'
    BY <1>4, <2>7, IdleTyped DEF SeenQuiet, AllNamed, Loud, Accounts!Runs
  <2> QED
    BY <2>3, <2>4, <2>5, <2>6, <2>8
<1> QED
  BY <1>3, <1>5, <1>6

LEMMA TrashKeeps ==
  ASSUME AccountsInv, NEW r \in Worker, Accounts!Trash(r)
  PROVE  AccountsInv'
<1> DEFINE n == req[r].name
<1> USE DEF AccountsInv, Accounts!TypeOK
<1>1. /\ n \in AccountNames /\ nameHolder[n] = r /\ req[r].pc = "trash" /\ ~Loud(n)
  BY DEF Accounts!Trash, AllNamed, NameLocked, SeenQuiet
<1>2. UNCHANGED <<signedIn, setUp, filled, made, session, waiting, missed, login, started, ops>>
      /\ req' = [req EXCEPT ![r] = Accounts!Idle] /\ Accounts!Release(r)
      /\ trash' = trash \cup ({folder[n]} \ {0}) /\ folder' = [folder EXCEPT ![n] = 0]
  BY DEF Accounts!Trash
<1>3. req'[r] = Accounts!Idle /\ \A q \in Worker \ {r} : req'[q] = req[q]
  BY <1>2
<1> HIDE DEF n
<1>4. /\ folder' \in [AccountNames -> 0..MaxMade] /\ folder'[n] = 0
      /\ \A x \in AccountNames \ {n} : folder'[x] = folder[x]
  BY <1>1, <1>2, NamesAssumption
<1>5. /\ nameHolder' \in [AccountNames -> Worker \cup {"nobody"}]
      /\ \A q \in Worker \ {r}, x \in AccountNames : nameHolder[x] = q => nameHolder'[x] = q
  BY <1>1, <1>2, Releasing
<1>6. trash' \subseteq Accounts!Made
  <2>1. folder[n] \in 0..MaxMade
    BY <1>1
  <2>2. {folder[n]} \ {0} \subseteq Accounts!Made
    BY <2>1, NamesAssumption DEF Accounts!Made
  <2> QED
    BY <1>2, <2>2
<1>7. Accounts!TypeOK'
  BY <1>2, <1>4, <1>5, <1>6, IdleTyped
<1>8. AllNamed' /\ NameLocked'
  BY <1>2, <1>3, <1>5, IdleTyped DEF AllNamed, NameLocked
<1>9. OnePlace'
  BY <1>1, <1>2, <1>4, NamesAssumption DEF OnePlace, Accounts!Made
<1>10. RunsAtHome'
  BY <1>1, <1>2, <1>4 DEF RunsAtHome, Accounts!SessionsAtHome, Loud, Accounts!Runs, Accounts!Made
<1>11. \A x \in AccountNames : ~Loud(x) => ~Loud(x)'
  BY <1>1, <1>2, <1>4 DEF Loud, Accounts!Runs
<1>12. SeenQuiet'
  BY <1>3, <1>11, IdleTyped DEF SeenQuiet, AllNamed, Loud, Accounts!Runs
<1> QED
  BY <1>7, <1>8, <1>9, <1>10, <1>12

(* Sign-ins that expire, are given up, or that Claude decides on.          *)
LEMMA SignInStepsKeep ==
  ASSUME AccountsInv, NEW n \in Accounts!Logins,
         Accounts!Expire(n) \/ Accounts!Cancel(n) \/ Accounts!TurnsDown(n)
  PROVE  AccountsInv'
<1> USE DEF AccountsInv, Accounts!TypeOK
<1>1. CASE Accounts!Expire(n) \/ Accounts!TurnsDown(n)
  <2>1. SignInsNamed
    <3> DEFINE old == [login[n] EXCEPT !.old = TRUE]
               refused == [login[n] EXCEPT !.proc = "refused"]
    <3>1. old \in Accounts!SignIns /\ refused \in Accounts!SignIns
      BY DEF Accounts!SignIns
    <3>2. /\ old.name = login[n].name /\ refused.name = login[n].name
          /\ old.at = login[n].at /\ refused.at = login[n].at
      BY DEF Accounts!SignIns
    <3>3. login' = [login EXCEPT ![n] = old] \/ login' = [login EXCEPT ![n] = refused]
      BY <1>1 DEF Accounts!Expire, Accounts!TurnsDown
    <3> HIDE DEF old, refused
    <3> QED
      BY <3>1, <3>2, <3>3 DEF SignInsNamed, AllNamed
  <2> QED
    BY <1>1, <2>1, OthersStep DEF Accounts!Expire, Accounts!TurnsDown
<1>2. CASE Accounts!Cancel(n)
  <2> DEFINE l == Accounts!Drop(Accounts!Expired)
             new == [l[n] EXCEPT !.at = "over"]
  <2>1. ops' \in 0..MaxOps
    BY <1>2, NamesAssumption DEF Accounts!Cancel
  <2>2. Accounts!Expired \in SUBSET Accounts!UnderWay(login)
    BY DEF Accounts!Expired, Accounts!UnderWay
  <2>3. CASE login' = [l EXCEPT ![n].at = "over"]
    <3>1. l[n] \in Accounts!SignIns /\ l[n].name = login[n].name /\ login[n].at # "none"
      BY <1>2, DropTyped DEF Accounts!Cancel
    <3>2. login[n].name \in AccountNames
      BY <3>1 DEF AllNamed
    <3>3. login' = [l EXCEPT ![n] = new]
      BY <2>3
    <3>4. new \in Accounts!SignIns /\ new.name \in AccountNames /\ new.at # "none"
      <4> HIDE DEF l
      <4> QED
        BY <3>1, <3>2 DEF Accounts!SignIns, Accounts!At
    <3>5. SignInsNamed
      <4> HIDE DEF new
      <4> QED
        BY <2>2, <3>3, <3>4, OneChanged
    <3> QED
      BY <1>2, <2>1, <3>5, OthersStep DEF Accounts!Cancel
  <2>4. CASE login' = l
    <3>1. SignInsNamed
      BY <2>2, <2>4, SomeDropped
    <3> QED
      BY <1>2, <2>1, <3>1, OthersStep DEF Accounts!Cancel
  <2> QED
    BY <1>2, <2>3, <2>4 DEF Accounts!Cancel
<1> QED
  BY <1>1, <1>2

LEMMA TakesCodeKeeps ==
  ASSUME AccountsInv, NEW l \in Accounts!Logins, Accounts!TakesCode(l)
  PROVE  AccountsInv'
<1> DEFINE n == login[l].name
<1> USE DEF AccountsInv, Accounts!TypeOK
<1>1. n \in AccountNames /\ Accounts!Written(n)
  BY DEF Accounts!TakesCode, AllNamed
<1>2. UNCHANGED <<trash, setUp, session, waiting, missed, started, nameHolder, req, ops>>
      /\ signedIn' = signedIn \cup {folder'[n]} /\ login' = [login EXCEPT ![l].proc = "signedIn"]
  BY DEF Accounts!TakesCode
<1>3. SignInsNamed
  BY <1>2 DEF SignInsNamed, Accounts!SignIns, AllNamed
<1> HIDE DEF n
<1>4. Accounts!TypeOK'
  BY <1>1, <1>2, <1>3, WrittenTo DEF SignInsNamed
<1>5. AllNamed' /\ NameLocked'
  BY <1>2, <1>3 DEF AllNamed, NameLocked, SignInsNamed
<1>6. OnePlace'
  BY <1>1, <1>2, WrittenInPlace
<1>7. RunsAtHome'
  BY <1>1, <1>2, WrittenTo DEF RunsAtHome, Accounts!SessionsAtHome, Accounts!Made
<1>8. folder[n] = 0 => session[folder'[n]] = "nowhere"
  BY <1>1, WrittenTo, NamesAssumption DEF RunsAtHome, OnePlace, Accounts!Made
<1>9. \A x \in AccountNames : ~Loud(x) => ~Loud(x)'
  BY <1>1, <1>2, <1>8, WrittenTo DEF Loud, Accounts!Runs
<1>10. SeenQuiet'
  BY <1>2, <1>9 DEF SeenQuiet, AllNamed, Loud, Accounts!Runs
<1> QED
  BY <1>4, <1>5, <1>6, <1>7, <1>10

LEMMA SignedOutKeeps ==
  ASSUME AccountsInv, NEW i \in Accounts!Made, Accounts!SignedOut(i)
  PROVE  AccountsInv'
BY SignInsAlone, OthersStep DEF Accounts!SignedOut, AccountsInv, Accounts!TypeOK

LEMMA AccountsStep ==
  ASSUME AccountsInv, Accounts!Next PROVE AccountsInv'
<1> USE DEF Accounts!Next
<1>1. ASSUME NEW r \in Worker, NEW n \in AccountNames,
             \/ Accounts!Create(r, n) \/ Accounts!Delete(r, n) \/ Accounts!NewSession(r, n)
             \/ Accounts!StartLogin(r, n) \/ \E m \in AccountNames : Accounts!Rename(r, n, m)
      PROVE  AccountsInv'
  <2>1. \E op \in Accounts!Ops \ {"code"}, m \in AccountNames : Accounts!Begin(r, op, n, m)
    BY <1>1 DEF Accounts!Create, Accounts!Delete, Accounts!NewSession, Accounts!StartLogin,
                Accounts!Rename, Accounts!Ops
  <2> QED
    BY <2>1, BeginKeeps
<1>2. ASSUME NEW r \in Worker,
             \/ Accounts!Mkdir(r) \/ Accounts!Lock(r) \/ Accounts!Launch(r)
             \/ Accounts!StopFirst(r) \/ Accounts!NotRunning(r) \/ Accounts!RefuseRunning(r)
             \/ Accounts!CheckTaken(r) \/ Accounts!Move(r) \/ Accounts!CheckLogins(r)
             \/ Accounts!Trash(r) \/ Accounts!Spawn(r) \/ Accounts!Offered(r)
             \/ Accounts!NotOffered(r) \/ Accounts!Judge(r) \/ Accounts!Find(r)
             \/ Accounts!Confirm(r) \/ Accounts!Finish(r)
             \/ \E n \in Accounts!Logins : Accounts!Submit(r, n)
      PROVE  AccountsInv'
  BY <1>2, MkdirKeeps, LockKeeps, LaunchKeeps, StopFirstKeeps, WatchingKeeps, RenameKeeps,
     SignInsKeep, TrashKeeps
<1>3. ASSUME NEW n \in Accounts!Logins,
             Accounts!Expire(n) \/ Accounts!Cancel(n) \/ Accounts!TakesCode(n)
               \/ Accounts!TurnsDown(n)
      PROVE  AccountsInv'
  BY <1>3, SignInStepsKeep, TakesCodeKeeps
<1>4. ASSUME NEW i \in Accounts!Made, Accounts!SessionEnds(i) \/ Accounts!SignedOut(i)
      PROVE  AccountsInv'
  BY <1>4, EndedKeeps, SignedOutKeeps
<1>5. ASSUME NEW n \in AccountNames, Accounts!Register(n) \/ Accounts!GivesUp(n)
      PROVE  AccountsInv'
  BY <1>5, RegisterKeeps, GivesUpKeeps
<1> QED
  BY <1>1, <1>2, <1>3, <1>4, <1>5

LEMMA AccountsAlone ==
  ASSUME AccountsInv, UNCHANGED accountVars PROVE AccountsInv'
BY DEF accountVars, AccountsInv, Accounts!TypeOK, AllNamed, OnePlace, RunsAtHome, NameLocked,
       SeenQuiet, Accounts!SessionsAtHome, Loud, Accounts!Runs

LEMMA AccountsAlways == HostSpec => [](Named => AccountsInv)
<1>1. HostInit => (Named => AccountsInv)
  BY InitAccountsInv DEF HostInit, Named, Sessions, Archived
<1>2. (Named => AccountsInv) /\ [HostNext]_allVars => (Named => AccountsInv)'
  BY AccountsStep, AccountsAlone DEF HostNext, allVars, Named, Sessions, Archived
<1> QED
  BY <1>1, <1>2, PTL DEF HostSpec

LEMMA SameCount == \A S : Accounts!Cardinality(S) = Cardinality(S)
BY DEF Accounts!Cardinality, Cardinality

LEMMA InOnePlace == AccountsInv => Accounts!AccountsKept
<1> SUFFICES ASSUME AccountsInv, NEW i \in filled
             PROVE  Cardinality({n \in AccountNames : folder[n] = i})
                      + (IF i \in trash THEN 1 ELSE 0) = 1
  BY SameCount DEF Accounts!AccountsKept
<1> DEFINE here == {n \in AccountNames : folder[n] = i}
<1>0. i # 0
  BY DEF AccountsInv, Accounts!TypeOK, Accounts!Made
<1>1. CASE i \in trash
  <2>1. here = {}
    BY <1>0, <1>1 DEF AccountsInv, OnePlace
  <2> QED
    BY <1>1, <2>1, FS_EmptySet
<1>2. CASE i \notin trash
  <2>1. PICK n \in AccountNames : folder[n] = i
    BY <1>2 DEF AccountsInv, OnePlace
  <2>2. here = {n}
    BY <1>0, <2>1 DEF AccountsInv, OnePlace
  <2>3. Cardinality(here) = 1
    BY <2>2, FS_Singleton, Zenon
  <2> QED
    BY <1>2, <2>3
<1> QED
  BY <1>1, <1>2

(* Accounts that Claude wrote to stay, in one place each, whatever requests *)
(* make, rename, delete and sign in accounts beside each other.             *)
THEOREM AccountsAlwaysKept == HostSpec => []AccountsKept
<1>1. (Named => AccountsInv) => AccountsKept
  BY InOnePlace DEF AccountsKept
<1> QED
  BY <1>1, AccountsAlways, PTL

(* No request takes the folder from under a running session, unless Claude  *)
(* was left at a prompt when its request was answered, and registered the   *)
(* session between a rename's or delete's look at what runs and its move.   *)
THEOREM SessionsAlwaysAtHome == HostSpec => []SessionsAtHome
<1>1. (Named => AccountsInv) => SessionsAtHome
  BY DEF SessionsAtHome, AccountsInv, RunsAtHome
<1> QED
  BY <1>1, AccountsAlways, PTL
------------------------------------------------------------------------------
(* The parts together *)

(* A behaviour of the host is one of AccountSessions: another part's steps *)
(* leave the sessions and their requests as they are.                      *)
LEMMA HostRunsSessions == HostSpec => Spec
<1>1. HostInit => Init
  BY DEF HostInit
<1>2. [HostNext]_allVars => [Next]_vars
  BY DEF HostNext, allVars
<1> QED
  BY <1>1, <1>2, PTL DEF HostSpec, Spec

(* Whatever a host does, what its requests, its archives and its accounts  *)
(* keep has its types, and every request is at a step of what it asks.     *)
THEOREM HostTypesAlways == HostSpec => []TypesOK
<1>1. TypeOK /\ JobsInOrder /\ (Archived => ArchiveInv) /\ (Named => AccountsInv) => TypesOK
  BY DEF TypesOK, ArchiveInv, ArchiveShape, AccountsInv
<1> QED
  BY <1>1, HostRunsSessions, TypeCorrect, ArchivesAlways, AccountsAlways, PTL

(* On a host as well, no session is lost between accounts, nothing else    *)
(* starts in either account while one is moved, and no second window is    *)
(* opened for a session beside one that tmux lists under its tag.          *)
THEOREM HostKeepsSessions == HostSpec => []OneCopy /\ SessionKept /\ MoveUndisturbed
BY HostRunsSessions, OneCopyAlways, SessionNeverLost, MovesUndisturbed, PTL
===============================================================================
