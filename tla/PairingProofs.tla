----------------------------- MODULE PairingProofs -----------------------------
(***************************************************************************)
(* Proofs about a Mac and a host that work together, for any number of     *)
(* codes, clients, threads, commands, Macs, addresses, accounts, networks  *)
(* and lists:                                                              *)
(*                                                                         *)
(*   - that the files of PairingStore keep what PairingPromise says;       *)
(*   - that setting a host up again keeps the key a Mac pinned and the     *)
(*     networks the user accepted (Setup);                                 *)
(*   - that the name given last is the one written, and lists show the     *)
(*     transcript as it is (SessionNames);                                 *)
(*   - that what changes a host is done once at most, and its entry has    *)
(*     its token and the looks given last (RemoteHosts);                   *)
(*   - that no peer has more guesses than the limits say, and none is      *)
(*     locked out or refused for another's (Door);                         *)
(*   - that every part's variables have their types.                       *)
(*                                                                         *)
(* Each part has an inductive invariant of its own, shown from its first   *)
(* state on over each of its actions; the last theorems of a part carry it *)
(* to the behaviours MCPairing checks.  The bounds of the parts and the    *)
(* limits of the door are constants here.                                  *)
(***************************************************************************)
EXTENDS MCPairing, Sequences, FiniteSetTheorems, TLAPS

(***************************************************************************)
(* The codes and clients of a host (PairingStore).                         *)
(***************************************************************************)

LEMMA Constants ==
  /\ AnySecret \in Secret /\ AnyClient \in Client
  /\ NoProcess \notin Process
  /\ MaxKills \in Nat
<1>1. (\E s \in Secret : TRUE) /\ (\E c \in Client : TRUE)
  BY NonEmptyAssumption
<1> QED
  BY <1>1, ProcessAssumption, KillsAssumption DEF AnySecret, AnyClient

LEMMA NoCallIsCall == NoCall \in Call
BY Constants DEF NoCall, Call

(* What a process begins is a call of its own. *)
LEMMA Begins ==
  ASSUME NEW p \in Process, Issue(p) \/ Redeem(p) \/ Revoke(p)
  PROVE  \E c \in Call :
           /\ Begin(p, c) /\ c.op # "none" /\ ~c.found
           /\ c.op = "issue" => NewSecret(c.secret)
           /\ c.op = "redeem" => NewClient(c.client)
<1>1. CASE Issue(p)
  <2>1. PICK s \in Secret :
          NewSecret(s) /\ Begin(p, [NoCall EXCEPT !.op = "issue", !.secret = s])
    BY <1>1 DEF Issue
  <2> DEFINE c == [NoCall EXCEPT !.op = "issue", !.secret = s]
  <2>2. c \in Call /\ c.op = "issue" /\ c.secret = s /\ ~c.found
    BY NoCallIsCall DEF NoCall, Call
  <2> HIDE DEF c
  <2> QED
    BY <2>1, <2>2 DEF c
<1>2. CASE Redeem(p)
  <2>1. PICK s \in Secret, d \in Client :
          NewClient(d) /\ Begin(p, [NoCall EXCEPT !.op = "redeem", !.secret = s, !.client = d])
    BY <1>2 DEF Redeem
  <2> DEFINE c == [NoCall EXCEPT !.op = "redeem", !.secret = s, !.client = d]
  <2>2. c \in Call /\ c.op = "redeem" /\ c.client = d /\ ~c.found
    BY NoCallIsCall DEF NoCall, Call
  <2> HIDE DEF c
  <2> QED
    BY <2>1, <2>2 DEF c
<1>3. CASE Revoke(p)
  <2>1. PICK C \in SUBSET Client : Begin(p, [NoCall EXCEPT !.op = "revoke", !.revoked = C])
    BY <1>3 DEF Revoke
  <2> DEFINE c == [NoCall EXCEPT !.op = "revoke", !.revoked = C]
  <2>2. c \in Call /\ c.op = "revoke" /\ ~c.found
    BY NoCallIsCall DEF NoCall, Call
  <2> HIDE DEF c
  <2> QED
    BY <2>1, <2>2 DEF c
<1> QED
  BY <1>1, <1>2, <1>3

LEMMA TypeInit == Init => TypeOK
BY Constants, NoCallIsCall DEF Init, TypeOK, Place, Promise!Fate
------------------------------------------------------------------------------
(* Type correctness *)

LEMMA TypeBegin ==
  ASSUME TypeOK, NEW p \in Process, Issue(p) \/ Redeem(p) \/ Revoke(p)
  PROVE  TypeOK'
<1>1. PICK c \in Call : Begin(p, c)
  BY Begins
<1> QED
  BY <1>1 DEF Begin, Goto, TypeOK, Place, historyVars

LEMMA TypeLeft ==
  ASSUME TypeOK, NEW ended, Left(ended)
  PROVE  /\ pc' \in [Process -> Place] /\ call' \in [Process -> Call]
         /\ draft' \in [Process -> SUBSET Secret] /\ roster' \in [Process -> SUBSET Client]
         /\ lock' \in Process \cup {NoProcess}
BY NoCallIsCall DEF Left, TypeOK, Place

LEMMA TypeStep == TypeOK /\ [Next]_vars => TypeOK'
<1> SUFFICES ASSUME TypeOK, [Next]_vars PROVE TypeOK'
  OBVIOUS
<1>1. ASSUME NEW p \in Process, Step(p) PROVE TypeOK'
  <2>0. call[p] \in Call /\ call[p].secret \in Secret /\ call[p].client \in Client
    BY DEF TypeOK, Call
  <2>1. CASE TakeLock(p)
    BY <2>1 DEF TakeLock, Goto, TypeOK, Place, historyVars
  <2>2. CASE ReadPending(p)
    <3>1. draft' \in [Process -> SUBSET Secret]
      BY <2>0, <2>2 DEF ReadPending, TypeOK
    <3>2. call' \in [Process -> Call]
      <4>1. call' = call \/ call' = [call EXCEPT ![p].found = TRUE]
        BY <2>2 DEF ReadPending
      <4>2. [call[p] EXCEPT !.found = TRUE] \in Call
        BY <2>0 DEF Call
      <4> QED
        BY <4>1, <4>2 DEF TypeOK
    <3> QED
      BY <2>2, <3>1, <3>2 DEF ReadPending, Goto, TypeOK, Place, historyVars
  <2>3. CASE WritePending(p)
    BY <2>0, <2>3 DEF WritePending, Goto, TypeOK, Place, Promise!Fate
  <2>4. CASE ReadClients(p)
    BY <2>0, <2>4 DEF ReadClients, Goto, TypeOK, Place, historyVars
  <2>5. CASE WriteClients(p)
    BY <2>0, <2>5 DEF WriteClients, Goto, TypeOK, Place, Promise!Fate
  <2>6. CASE Fails(p)
    BY <2>6 DEF Fails, Goto, TypeOK, Place, historyVars
  <2>7. CASE Finish(p)
    BY <2>7, TypeLeft DEF Finish, TypeOK, historyVars
  <2> QED
    BY <1>1, <2>1, <2>2, <2>3, <2>4, <2>5, <2>6, <2>7, TypeBegin DEF Step
<1>2. CASE Kill
  <2>1. kills' \in 0 .. MaxKills
    BY <1>2, Constants DEF Kill, TypeOK
  <2>2. PICK ended : Left(ended)
    BY <1>2 DEF Kill
  <2> QED
    BY <1>2, <2>1, <2>2, TypeLeft DEF Kill, TypeOK, historyVars
<1>3. ASSUME NEW s \in Secret, Expire(s) PROVE TypeOK'
  BY <1>3 DEF Expire, TypeOK, processVars, historyVars
<1>4. CASE UNCHANGED vars
  BY <1>4 DEF vars, TypeOK, processVars, historyVars
<1> QED
  BY <1>1, <1>2, <1>3, <1>4 DEF Next
------------------------------------------------------------------------------
(* The invariant *)

LEMMA InvInit == Init => Inv
<1>1. Init => CodesKept /\ Listed /\ DrawnApart
  BY DEF Init, CodesKept, Listed, DrawnApart, NoCall
<1>2. Init => \A p \in Process : Knows(p)
  BY DEF Init, Knows, NoCall, Locked
<1> QED
  BY <1>1, <1>2, TypeInit DEF Inv

(* Beginning a call. *)
LEMMA InvBegin ==
  ASSUME Inv, NEW p \in Process, Issue(p) \/ Redeem(p) \/ Revoke(p)
  PROVE  Inv'
<1>0. TypeOK /\ TypeOK'
  BY TypeBegin DEF Inv
<1>1. PICK c \in Call :
        /\ Begin(p, c) /\ c.op # "none" /\ ~c.found
        /\ c.op = "issue" => NewSecret(c.secret)
        /\ c.op = "redeem" => NewClient(c.client)
  BY Begins
<1>2. /\ pc[p] = "idle" /\ pc'[p] = "lock" /\ call'[p] = c
      /\ \A q \in Process \ {p} : pc'[q] = pc[q] /\ call'[q] = call[q]
      /\ UNCHANGED <<draft, roster, lock, pending, clients, expired, code, former>>
  BY <1>0, <1>1 DEF Begin, Goto, TypeOK, historyVars
<1>3. CodesKept' /\ Listed'
  BY <1>2 DEF Inv, CodesKept, Listed
<1>4. DrawnApart'
  BY <1>1, <1>2 DEF Inv, DrawnApart, NewSecret, NewClient
<1>5. ASSUME NEW q \in Process PROVE Knows(q)'
  <2>1. CASE q = p
    BY <1>1, <1>2, <2>1 DEF Knows, Locked, Issuing, Redeeming, Revoking, NewSecret, NewClient
  <2>2. CASE q # p
    BY <1>2, <2>2 DEF Inv, Knows, Issuing, Redeeming, Revoking
  <2> QED
    BY <2>1, <2>2
<1> QED
  BY <1>0, <1>3, <1>4, <1>5 DEF Inv

(* Ending calls, one's own or those of what is killed. *)
LEMMA InvLeft ==
  ASSUME Inv, NEW ended \in SUBSET Process, Left(ended), TypeOK',
         UNCHANGED <<pending, clients, expired, historyVars>>
  PROVE  Inv'
<1>1. /\ \A p \in ended : pc'[p] = "idle" /\ call'[p] = NoCall
      /\ \A p \in Process \ ended : /\ pc'[p] = pc[p] /\ call'[p] = call[p]
                                    /\ draft'[p] = draft[p] /\ roster'[p] = roster[p]
      /\ lock \notin ended => lock' = lock
      /\ UNCHANGED <<code, former>>
  BY DEF Left, historyVars
<1>2. CodesKept' /\ Listed' /\ DrawnApart'
  BY <1>1 DEF Inv, CodesKept, Listed, DrawnApart, NoCall
<1>3. ASSUME NEW p \in Process PROVE Knows(p)'
  <2>1. CASE p \in ended
    BY <1>1, <2>1 DEF Knows, Locked, NoCall
  <2>2. CASE p \notin ended
    BY <1>1, <2>2 DEF Inv, Knows, Issuing, Redeeming, Revoking
  <2> QED
    BY <2>1, <2>2
<1> QED
  BY <1>2, <1>3 DEF Inv

(* Who holds the lock is alone with the files. *)
LEMMA Alone ==
  ASSUME Inv, NEW p \in Process, pc[p] \in Locked, NEW q \in Process, q # p
  PROVE  pc[q] \in {"idle", "lock"}
BY DEF Inv, TypeOK, Knows, Place, Locked

LEMMA InvTakeLock ==
  ASSUME Inv, NEW p \in Process, TakeLock(p), TypeOK'
  PROVE  Inv'
<1>1. /\ pc[p] = "lock" /\ lock = NoProcess /\ lock' = p
      /\ pc'[p] = IF call[p].op = "revoke" THEN "readClients" ELSE "readPending"
      /\ \A q \in Process \ {p} : pc'[q] = pc[q]
      /\ UNCHANGED <<call, draft, roster, pending, clients, expired, code, former>>
  BY DEF TakeLock, Goto, Inv, TypeOK, historyVars
<1>2. \A q \in Process : pc[q] \notin Locked
  BY <1>1, Constants DEF Inv, Knows
<1>3. CodesKept' /\ Listed' /\ DrawnApart'
  BY <1>1 DEF Inv, CodesKept, Listed, DrawnApart
<1>4. ASSUME NEW q \in Process PROVE Knows(q)'
  <2>1. CASE q = p
    BY <1>1, <2>1 DEF Inv, Knows, Issuing, Redeeming, Revoking, Locked
  <2>2. CASE q # p
    BY <1>1, <1>2, <2>2 DEF Inv, Knows, Issuing, Redeeming, Revoking
  <2> QED
    BY <2>1, <2>2
<1> QED
  BY <1>3, <1>4 DEF Inv

LEMMA InvReadPending ==
  ASSUME Inv, NEW p \in Process, ReadPending(p), TypeOK'
  PROVE  Inv'
<1>0. call[p] \in Call /\ call[p].secret \in Secret
  BY DEF Inv, TypeOK, Call
<1>1. /\ pc[p] = "readPending" /\ pc'[p] = "writePending"
      /\ \A q \in Process \ {p} : pc'[q] = pc[q] /\ call'[q] = call[q] /\ draft'[q] = draft[q]
      /\ UNCHANGED <<roster, lock, pending, clients, expired, code, former>>
  BY DEF ReadPending, Goto, Inv, TypeOK, historyVars
<1>2. /\ call'[p].op = call[p].op /\ call'[p].secret = call[p].secret
      /\ call'[p].client = call[p].client
  BY <1>0 DEF ReadPending, Inv, TypeOK, Call
<1>3. CASE call[p].op = "issue"
  <2>1. draft'[p] = (pending \ expired) \cup {call[p].secret} /\ call' = call
    BY <1>3 DEF ReadPending, Inv, TypeOK
  <2> QED
    BY <1>1, <2>1, <1>3 DEF Inv, CodesKept, Listed, DrawnApart, Knows, Issuing, Redeeming, Revoking, Locked
<1>4. CASE call[p].op = "redeem"
  <2>1. /\ draft'[p] = (pending \ expired) \ {call[p].secret}
        /\ call'[p].found => call[p].secret \in pending
        /\ ~call'[p].found => call[p].secret \notin pending \ expired
    <3>1. draft \in [Process -> SUBSET Secret] /\ call \in [Process -> Call]
      BY DEF Inv, TypeOK
    <3>2. CASE call[p].secret \in pending \ expired
      <4>1. draft'[p] = (pending \ expired) \ {call[p].secret}
        BY <1>4, <3>1, <3>2 DEF ReadPending
      <4>2. call' = [call EXCEPT ![p].found = TRUE]
        BY <1>4, <3>2 DEF ReadPending
      <4>3. call'[p].found
        BY <1>0, <3>1, <4>2 DEF Call
      <4> QED
        BY <3>2, <4>1, <4>3
    <3>3. CASE call[p].secret \notin pending \ expired
      <4>1. draft'[p] = pending \ expired /\ call' = call
        BY <1>4, <3>1, <3>3 DEF ReadPending
      <4>2. ~call[p].found
        BY <1>1, <1>4 DEF Inv, Knows, Redeeming
      <4> QED
        BY <3>3, <4>1, <4>2
    <3> QED
      BY <3>2, <3>3
  <2>2. CodesKept' /\ Listed'
    BY <1>1 DEF Inv, CodesKept, Listed
  <2>3. DrawnApart'
    BY <1>1, <1>2 DEF Inv, DrawnApart
  <2>4. Knows(p)'
    BY <1>1, <1>2, <1>4, <2>1 DEF Inv, Knows, Redeeming, Locked
  <2>5. ASSUME NEW q \in Process \ {p} PROVE Knows(q)'
    BY <1>1, <2>5 DEF Inv, Knows, Issuing, Redeeming, Revoking
  <2> QED
    BY <2>2, <2>3, <2>4, <2>5 DEF Inv
<1> QED
  BY <1>1, <1>3, <1>4 DEF ReadPending

(* What writing the list of secrets does to each code. *)
LEMMA Written ==
  ASSUME Inv, NEW p \in Process, WritePending(p)
  PROVE  /\ call[p].secret \in Secret /\ call[p].client \in Client
         /\ \/ call[p].op = "issue" /\ Promise!Issue(call[p].secret) /\ ~call[p].found
            \/ call[p].op = "redeem" /\ call[p].found /\ Promise!Spend(call[p].secret)
            \/ call[p].op = "redeem" /\ ~call[p].found /\ UNCHANGED code
         /\ UNCHANGED <<clients, former>>
<1>1. call[p] \in Call /\ pc[p] = "writePending"
  BY DEF Inv, TypeOK, WritePending
<1>2. call[p].secret \in Secret /\ call[p].client \in Client
  BY <1>1 DEF Call
<1>3. CASE call[p].op = "issue"
  BY <1>1, <1>2, <1>3 DEF WritePending, Inv, Knows, Issuing, Promise!Issue
<1>4. CASE call[p].op = "redeem"
  BY <1>1, <1>2, <1>4 DEF WritePending, Inv, Knows, Redeeming, Listed, Promise!Spend
<1> QED
  BY <1>1, <1>2, <1>3, <1>4 DEF Call, Inv, Knows, Revoking, WritePending

LEMMA InvWritePending ==
  ASSUME Inv, NEW p \in Process, WritePending(p), TypeOK'
  PROVE  Inv'
<1>0. code \in [Secret -> Promise!Fate] /\ pc[p] = "writePending"
  BY DEF Inv, TypeOK, WritePending
<1>1. /\ pc'[p] = IF call[p].found THEN "readClients" ELSE "done"
      /\ \A q \in Process \ {p} : pc'[q] = pc[q]
      /\ pending' = draft[p]
      /\ UNCHANGED <<call, draft, roster, lock, clients, expired, former>>
  BY DEF WritePending, Goto, Inv, TypeOK
<1>2. \A r \in Secret \ {call[p].secret} : code'[r] = code[r]
  BY <1>0, Written DEF Promise!Issue, Promise!Spend
<1>3. DrawnApart'
  BY <1>1 DEF Inv, DrawnApart
<1>4. ASSUME NEW q \in Process \ {p}, Knows(q),
             call[q].op = "issue" /\ pc[q] = "lock" => code'[call[q].secret] = "unknown"
      PROVE  Knows(q)'
  <2>1. pc[q] \in {"idle", "lock"}
    BY <1>0, Alone DEF Locked
  <2> QED
    BY <1>1, <1>4, <2>1 DEF Knows, Issuing, Redeeming, Revoking, Locked
<1>5. CASE call[p].op = "issue"
  <2>1. code'[call[p].secret] = "usable" /\ ~call[p].found
    BY <1>0, <1>5, Written DEF Promise!Issue
  <2>2. /\ draft[p] \subseteq pending \cup {call[p].secret}
        /\ pending \ expired \subseteq draft[p]
        /\ call[p].secret \in draft[p]
    BY <1>0, <1>5 DEF Inv, Knows, Issuing
  <2>3. Listed'
    BY <1>1, <1>2, <2>1, <2>2 DEF Inv, Listed, TypeOK
  <2>4. CodesKept'
    <3>1. ASSUME NEW s \in Secret
          PROVE  /\ code'[s] = "usable" /\ s \notin expired => s \in draft[p]
                 /\ code'[s] \in {"spent", "joined"} => s \notin draft[p]
      BY <1>2, <2>1, <2>2 DEF Inv, CodesKept
    <3> QED
      BY <1>1, <3>1 DEF CodesKept
  <2>5. Knows(p)'
    BY <1>0, <1>1, <1>5, <2>1 DEF Inv, Knows, Issuing, Locked
  <2>6. ASSUME NEW q \in Process \ {p} PROVE Knows(q)'
    <3>1. ASSUME call[q].op = "issue", pc[q] = "lock" PROVE code'[call[q].secret] = "unknown"
      <4>1. call[q].secret # call[p].secret /\ code[call[q].secret] = "unknown"
        BY <1>5, <2>6, <3>1 DEF Inv, DrawnApart, Knows, Issuing
      <4>2. call[q].secret \in Secret
        BY DEF Inv, TypeOK, Call
      <4> QED
        BY <1>2, <4>1, <4>2
    <3> QED
      BY <1>4, <3>1 DEF Inv
  <2> QED
    BY <1>3, <2>3, <2>4, <2>5, <2>6 DEF Inv
<1>6. CASE call[p].op = "redeem"
  <2>1. call[p].found => code[call[p].secret] = "usable" /\ code'[call[p].secret] = "spent"
    BY <1>0, <1>6, Written DEF Promise!Spend
  <2>2. ~call[p].found => code' = code
    BY <1>6, Written
  <2>3. /\ draft[p] \subseteq pending \ {call[p].secret}
        /\ pending \ expired \subseteq draft[p] \cup {call[p].secret}
        /\ ~call[p].found => call[p].secret \notin pending \ expired
    BY <1>0, <1>6 DEF Inv, Knows, Redeeming
  <2>4. Listed'
    BY <1>1, <1>2, <2>2, <2>3 DEF Inv, Listed, TypeOK
  <2>5. CodesKept'
    <3>1. ASSUME NEW s \in Secret
          PROVE  /\ code'[s] = "usable" /\ s \notin expired => s \in draft[p]
                 /\ code'[s] \in {"spent", "joined"} => s \notin draft[p]
      <4>1. CASE s = call[p].secret
        BY <2>1, <2>2, <2>3, <4>1 DEF Inv, CodesKept
      <4>2. CASE s # call[p].secret
        BY <1>2, <2>3, <4>2 DEF Inv, CodesKept
      <4> QED
        BY <4>1, <4>2
    <3> QED
      BY <1>1, <3>1 DEF CodesKept
  <2>6. Knows(p)'
    BY <1>0, <1>1, <1>6, <2>1 DEF Inv, Knows, Redeeming, Locked
  <2>7. ASSUME NEW q \in Process \ {p} PROVE Knows(q)'
    <3>1. ASSUME call[q].op = "issue", pc[q] = "lock" PROVE code'[call[q].secret] = "unknown"
      <4>1. code[call[q].secret] = "unknown" /\ call[q].secret \in Secret
        BY <3>1 DEF Inv, Knows, Issuing, TypeOK, Call
      <4> QED
        BY <1>2, <2>1, <2>2, <4>1
    <3> QED
      BY <1>4, <3>1 DEF Inv
  <2> QED
    BY <1>3, <2>4, <2>5, <2>6, <2>7 DEF Inv
<1> QED
  BY <1>5, <1>6, Written

LEMMA InvReadClients ==
  ASSUME Inv, NEW p \in Process, ReadClients(p), TypeOK'
  PROVE  Inv'
<1>1. /\ pc[p] = "readClients" /\ pc'[p] = "writeClients"
      /\ roster'[p] = IF call[p].op = "redeem" THEN clients \cup {call[p].client}
                      ELSE clients \ call[p].revoked
      /\ \A q \in Process \ {p} : pc'[q] = pc[q] /\ roster'[q] = roster[q]
      /\ UNCHANGED <<call, draft, lock, pending, clients, expired, code, former>>
  BY DEF ReadClients, Goto, Inv, TypeOK, historyVars
<1>2. CodesKept' /\ Listed' /\ DrawnApart'
  BY <1>1 DEF Inv, CodesKept, Listed, DrawnApart
<1>3. Knows(p)'
  BY <1>1 DEF Inv, Knows, Issuing, Redeeming, Revoking, Locked
<1>4. ASSUME NEW q \in Process \ {p} PROVE Knows(q)'
  BY <1>1 DEF Inv, Knows, Issuing, Redeeming, Revoking
<1> QED
  BY <1>2, <1>3, <1>4 DEF Inv

(* Writing the list of clients is a step of the promise. *)
LEMMA Joined ==
  ASSUME Inv, NEW p \in Process, WriteClients(p)
  PROVE  /\ call[p].secret \in Secret /\ call[p].client \in Client
         /\ call[p].revoked \in SUBSET Client
         /\ \/ call[p].op = "redeem" /\ Promise!Join(call[p].secret, call[p].client)
            \/ call[p].op = "revoke" /\ Promise!Revoke(call[p].revoked)
<1>1. call[p] \in Call /\ pc[p] = "writeClients"
  BY DEF Inv, TypeOK, WriteClients
<1>2. /\ call[p].secret \in Secret /\ call[p].client \in Client
      /\ call[p].revoked \in SUBSET Client
  BY <1>1 DEF Call
<1>3. CASE call[p].op = "redeem"
  BY <1>1, <1>2, <1>3 DEF WriteClients, Inv, Knows, Redeeming, Promise!Join
<1>4. CASE call[p].op = "revoke"
  BY <1>1, <1>2, <1>4 DEF WriteClients, Inv, Knows, Revoking, Promise!Revoke
<1> QED
  BY <1>1, <1>2, <1>3, <1>4 DEF Call, Inv, Knows, Issuing

LEMMA InvWriteClients ==
  ASSUME Inv, NEW p \in Process, WriteClients(p), TypeOK'
  PROVE  Inv'
<1>0. code \in [Secret -> Promise!Fate] /\ pc[p] = "writeClients" /\ call[p] \in Call
  BY DEF Inv, TypeOK, WriteClients
<1>1. /\ pc'[p] = "done"
      /\ \A q \in Process \ {p} : pc'[q] = pc[q]
      /\ UNCHANGED <<call, draft, roster, lock, pending, expired>>
  BY DEF WriteClients, Goto, Inv, TypeOK
<1>2. \/ code' = code
      \/ /\ code[call[p].secret] = "spent" /\ code' = [code EXCEPT ![call[p].secret] = "joined"]
  BY Joined DEF Promise!Join, Promise!Revoke
<1>3. CodesKept' /\ Listed'
  BY <1>0, <1>1, <1>2 DEF Inv, CodesKept, Listed, TypeOK
<1>4. DrawnApart'
  BY <1>1 DEF Inv, DrawnApart
<1>5. Knows(p)'
  BY <1>0, <1>1, Joined DEF Inv, Knows, Redeeming, Revoking, Locked
<1>6. ASSUME NEW q \in Process \ {p} PROVE Knows(q)'
  <2>1. pc[q] \in {"idle", "lock"} /\ call[q].secret \in Secret
    BY <1>0, Alone DEF Locked, Inv, TypeOK, Call
  <2>2. call[q].op = "issue" /\ pc[q] = "lock" => code'[call[q].secret] = "unknown"
    BY <1>0, <1>2, <2>1 DEF Inv, Knows, Issuing
  <2>3. call[q].op = "redeem" => call[q].client \notin clients' \cup former'
    <3>1. call[q].op = "redeem" => call[q].client \notin clients \cup former
      BY <2>1 DEF Inv, Knows, Redeeming
    <3>2. call[q].op = "redeem" /\ call[p].op = "redeem" => call[q].client # call[p].client
      BY DEF Inv, DrawnApart
    <3> QED
      BY <3>1, <3>2, Joined DEF Promise!Join, Promise!Revoke
  <2> QED
    BY <1>1, <2>1, <2>2, <2>3 DEF Inv, Knows, Issuing, Redeeming, Revoking, Locked
<1> QED
  BY <1>3, <1>4, <1>5, <1>6 DEF Inv

LEMMA InvFails ==
  ASSUME Inv, NEW p \in Process, Fails(p), TypeOK'
  PROVE  Inv'
<1>1. /\ pc[p] \in Locked \ {"done"} /\ pc'[p] = "done"
      /\ \A q \in Process \ {p} : pc'[q] = pc[q]
      /\ UNCHANGED <<call, draft, roster, lock, pending, clients, expired, code, former>>
  BY DEF Fails, Goto, Inv, TypeOK, historyVars, Locked
<1>2. CodesKept' /\ Listed' /\ DrawnApart'
  BY <1>1 DEF Inv, CodesKept, Listed, DrawnApart
<1>3. ASSUME NEW q \in Process PROVE Knows(q)'
  BY <1>1 DEF Inv, Knows, Issuing, Redeeming, Revoking, Locked
<1> QED
  BY <1>2, <1>3 DEF Inv

LEMMA InvStep == Inv /\ [Next]_vars => Inv'
<1> SUFFICES ASSUME Inv, [Next]_vars PROVE Inv'
  OBVIOUS
<1>0. TypeOK'
  BY TypeStep DEF Inv
<1>1. ASSUME NEW p \in Process, Step(p) PROVE Inv'
  <2>1. CASE Finish(p)
    BY <1>0, <2>1, InvLeft DEF Finish
  <2> QED
    BY <1>0, <1>1, <2>1, InvBegin, InvTakeLock, InvReadPending, InvWritePending, InvReadClients,
       InvWriteClients, InvFails DEF Step
<1>2. CASE Kill
  <2>1. PICK ended \in {Thread} \cup {{p} : p \in Command} : Left(ended)
    BY <1>2 DEF Kill
  <2>2. ended \in SUBSET Process
    BY <2>1 DEF Process
  <2> QED
    BY <1>0, <1>2, <2>1, <2>2, InvLeft DEF Kill
<1>3. ASSUME NEW s \in Secret, Expire(s) PROVE Inv'
  <2>1. /\ expired \subseteq expired'
        /\ UNCHANGED <<pc, call, draft, roster, lock, pending, clients, code, former>>
    BY <1>3 DEF Expire, processVars, historyVars
  <2>2. CodesKept' /\ Listed' /\ DrawnApart'
    BY <2>1 DEF Inv, CodesKept, Listed, DrawnApart
  <2>3. ASSUME NEW q \in Process PROVE Knows(q)'
    BY <2>1 DEF Inv, Knows, Issuing, Redeeming, Revoking
  <2> QED
    BY <1>0, <2>2, <2>3 DEF Inv
<1>4. CASE UNCHANGED vars
  <2>1. UNCHANGED <<pc, call, draft, roster, lock, pending, clients, expired, code, former>>
    BY <1>4 DEF vars, processVars, historyVars
  <2>2. CodesKept' /\ Listed' /\ DrawnApart'
    BY <2>1 DEF Inv, CodesKept, Listed, DrawnApart
  <2>3. ASSUME NEW q \in Process PROVE Knows(q)'
    BY <2>1 DEF Inv, Knows, Issuing, Redeeming, Revoking
  <2> QED
    BY <1>0, <2>2, <2>3 DEF Inv
<1> QED
  BY <1>1, <1>2, <1>3, <1>4 DEF Next
------------------------------------------------------------------------------
(* What follows *)

LEMMA Invariant == Spec => []Inv
BY InvInit, InvStep, PTL DEF Spec

(* A code that was shown works until it is used or expires, and never      *)
(* after it was used, however many commands and threads rewrite the list   *)
(* and whichever of them fail or are killed (add_pending, redeem).         *)
THEOREM CodesAlwaysKept == Spec => []CodesKept
<1>1. Inv => CodesKept
  BY DEF Inv
<1> QED
  BY <1>1, Invariant, PTL

(* Every step of the store is a step of what pairing promises, or leaves   *)
(* it alone: redeem, revoke and add_pending implement PairingPromise.      *)
THEOREM StoreImplementsPromise == Spec => Implements
<1>1. Init => Promise!Init
  BY DEF Init, Promise!Init
<1>2. Inv /\ [Next]_vars => [Promise!Next]_(Promise!vars)
  <2> SUFFICES ASSUME Inv, [Next]_vars, ~UNCHANGED <<code, clients, former>>
               PROVE  Promise!Next
    BY DEF Promise!vars
  <2>1. PICK p \in Process : WritePending(p) \/ WriteClients(p)
    BY DEF Next, Step, Issue, Redeem, Revoke, Begin, TakeLock, ReadPending, ReadClients, Fails,
           Finish, Kill, Expire, vars, processVars, historyVars
  <2>2. CASE WritePending(p)
    BY <2>2, Written DEF Promise!Next
  <2>3. CASE WriteClients(p)
    BY <2>3, Joined DEF Promise!Next
  <2> QED
    BY <2>1, <2>2, <2>3
<1> QED
  BY <1>1, <1>2, Invariant, PTL DEF Spec, Implements, Promise!Spec

(* In the behaviours of MCPairing too: there the store's variables change  *)
(* by steps of PairingStore only.                                          *)
THEOREM PairingKeepsPromise == AllSpec => Implements
<1>1. AllInit => Init
  BY DEF AllInit
<1>2. [AllNext]_allVars => [Next]_vars
  BY DEF AllNext, allVars
<1>3. AllSpec => Spec
  BY <1>1, <1>2, PTL DEF AllSpec, Spec
<1> QED
  BY <1>3, StoreImplementsPromise

(***************************************************************************)
(* The door (Door).  A queue's attempts that are recent at time t.         *)
(***************************************************************************)
RecentAt(q, t) == {e \in q : t < e.at + Window}

(* What a queue holds. *)
Queue == {q \in SUBSET HostDoor!Attempts : IsFiniteSet(q)}

(* The connections whose token is being looked up, for a peer; and the     *)
(* peer's recent guesses that were not counted, as it was locked out.      *)
Passed(cs, p) == {c \in Addresses : cs[c].pc = "token" /\ cs[c].peer = p}
Uncounted(fs, gs, t) == RecentAt(gs, t) \ fs

(* Of a peer's guesses gs, counted in fs: those of this tick have the      *)
(* numbers below; at most MaxBad are counted; each uncounted one moved the *)
(* end of the lock, and was looked up on a connection that had passed.     *)
GuessesFit(p, cs, fs, gs, until, t) ==
  /\ \A e \in gs : e.at <= t /\ (e.at = t => e.n < Cardinality(RecentAt(gs, t)))
  /\ RecentAt(fs, t) \subseteq gs /\ Cardinality(RecentAt(fs, t)) <= MaxBad
  /\ \A e \in Uncounted(fs, gs, t) : e.at + LockedFor <= until
  /\ Cardinality(Uncounted(fs, gs, t)) + Cardinality(Passed(cs, p)) <= Cardinality(Addresses)
  /\ until <= t + LockedFor
  /\ until = t + LockedFor => Cardinality(RecentAt(gs, t)) > MaxBad

(* What was let through is what is counted for all, and of each peer no    *)
(* more than is counted for it.                                            *)
PeerFits(p, own, let, t) ==
  /\ {e \in RecentAt(let, t) : e.peer = p} \subseteq own
  /\ Cardinality(RecentAt(own, t)) <= PerPeer

AllFit(all, let, t) ==
  /\ RecentAt(all, t) = RecentAt(let, t)
  /\ Cardinality(RecentAt(all, t)) <= Overall

OfOthers(let, who, t) == {e \in RecentAt(let, t) : e.peer # who}

(* Who was just refused for all was refused for what others did. *)
NotRefusedFor(who, let, t) ==
  who # HostDoor!Nobody => Cardinality(OfOthers(let, who, t)) + PerPeer > Overall

ConnsTyped(cs) ==
  /\ cs \in [Addresses -> [pc : HostDoor!Steps, peer : Tasks \cup {HostDoor!Nobody}]]
  /\ \A c \in Addresses : cs[c].pc # "closed" => cs[c].peer \in Tasks

DoorWorld ==
  /\ kind \in {"token", "pairing"} /\ ConnsTyped(conn)
  /\ now \in 0..MaxTicks /\ locked \in [Tasks -> 0..MaxTicks + LockedFor]
  /\ perPeer \in [Tasks -> Queue] /\ failures \in [Tasks -> Queue]
  /\ guessed \in [Tasks -> Queue] /\ overall \in Queue /\ tried \in Queue
  /\ shut \in Tasks \cup {HostDoor!Nobody}

(* Every limit's counts stand for what happened. *)
DoorInv ==
  /\ DoorWorld
  /\ AllFit(overall, tried, now)
  /\ \A p \in Tasks : PeerFits(p, perPeer[p], tried, now)
  /\ NotRefusedFor(shut, tried, now)
  /\ \A p \in Tasks : GuessesFit(p, conn, failures[p], guessed[p], locked[p], now)
-------------------------------------------------------------------------------
(* The door counts what is counted here. *)
LEMMA SameCount ==
  ASSUME NEW S
  PROVE  HostDoor!Cardinality(S) = Cardinality(S)
BY DEF HostDoor!Cardinality, Cardinality

LEMMA SameFinite ==
  ASSUME NEW S
  PROVE  HostDoor!IsFiniteSet(S) <=> IsFiniteSet(S)
BY DEF HostDoor!IsFiniteSet, IsFiniteSet

LEMMA DoorLimits ==
  /\ PerPeer \in Nat \ {0} /\ Overall \in Nat \ {0} /\ MaxBad \in Nat \ {0}
  /\ Window \in Nat \ {0} /\ LockedFor \in Nat \ {0} /\ MaxTicks \in Nat
  /\ Window <= LockedFor /\ IsFiniteSet(Addresses)
BY DoorAssumption, SameFinite DEF HostDoor!LimitsAssumption

LEMMA RecentIs ==
  ASSUME NEW q
  PROVE  HostDoor!Recent(q) = RecentAt(q, now)
BY DEF HostDoor!Recent, RecentAt

LEMMA AnAttempt ==
  ASSUME NEW e \in HostDoor!Attempts
  PROVE  e.at \in Nat /\ e.n \in Nat /\ e.peer \in Tasks
BY DEF HostDoor!Attempts

(* What is recent of a queue is a queue, and later less of it. *)
LEMMA RecentQueue ==
  ASSUME NEW q \in Queue, NEW t \in Nat
  PROVE  /\ RecentAt(q, t) \in Queue /\ RecentAt(q, t) \subseteq q
         /\ RecentAt(RecentAt(q, t), t) = RecentAt(q, t)
         /\ RecentAt(q, t + 1) \subseteq RecentAt(q, t)
<1>1. RecentAt(q, t) \subseteq q /\ IsFiniteSet(q) /\ q \subseteq HostDoor!Attempts
  BY DEF RecentAt, Queue
<1>2. IsFiniteSet(RecentAt(q, t))
  BY <1>1, FS_Subset
<1>3. \A e \in q : e.at \in Nat
  BY <1>1, AnAttempt
<1>4. RecentAt(q, t + 1) \subseteq RecentAt(q, t)
  BY <1>3, DoorLimits DEF RecentAt
<1>5. RecentAt(RecentAt(q, t), t) = RecentAt(q, t)
  BY DEF RecentAt
<1> QED
  BY <1>1, <1>2, <1>4, <1>5 DEF Queue

LEMMA QueueCount ==
  ASSUME NEW q \in Queue
  PROVE  /\ IsFiniteSet(q) /\ Cardinality(q) \in Nat
         /\ \A r \in SUBSET q : r \in Queue /\ Cardinality(r) <= Cardinality(q)
<1>1. IsFiniteSet(q) /\ q \subseteq HostDoor!Attempts
  BY DEF Queue
<1>2. Cardinality(q) \in Nat
  BY <1>1, FS_CardinalityType
<1>3. ASSUME NEW r \in SUBSET q PROVE IsFiniteSet(r) /\ Cardinality(r) <= Cardinality(q)
  BY <1>1, FS_Subset
<1> QED
  BY <1>1, <1>2, <1>3 DEF Queue

LEMMA OneMore ==
  ASSUME NEW q \in Queue, NEW e \in HostDoor!Attempts
  PROVE  /\ q \cup {e} \in Queue
         /\ Cardinality(q \cup {e}) \in Nat /\ Cardinality(q \cup {e}) <= Cardinality(q) + 1
         /\ e \notin q => Cardinality(q \cup {e}) = Cardinality(q) + 1
<1>1. IsFiniteSet(q) /\ Cardinality(q) \in Nat
  BY QueueCount
<1>2. /\ IsFiniteSet(q \cup {e})
      /\ Cardinality(q \cup {e}) = IF e \in q THEN Cardinality(q) ELSE Cardinality(q) + 1
  BY <1>1, FS_AddElement
<1> QED
  BY <1>1, <1>2 DEF Queue

(* An attempt of this tick is recent; with what is recent it makes up what *)
(* is recent of both.                                                      *)
LEMMA RecentMore ==
  ASSUME NEW q \in Queue, NEW t \in Nat, NEW e \in HostDoor!Attempts, e.at = t
  PROVE  RecentAt(RecentAt(q, t) \cup {e}, t) = RecentAt(q, t) \cup {e}
BY DoorLimits DEF RecentAt

LEMMA PassedCount ==
  ASSUME NEW cs, NEW p
  PROVE  /\ IsFiniteSet(Passed(cs, p)) /\ Cardinality(Passed(cs, p)) \in Nat
         /\ Cardinality(Addresses) \in Nat
         /\ Cardinality(Passed(cs, p)) <= Cardinality(Addresses)
<1>1. Passed(cs, p) \subseteq Addresses /\ IsFiniteSet(Addresses)
  BY DoorLimits DEF Passed
<1>2. IsFiniteSet(Passed(cs, p)) /\ Cardinality(Passed(cs, p)) <= Cardinality(Addresses)
  BY <1>1, FS_Subset
<1> QED
  BY <1>1, <1>2, FS_CardinalityType

LEMMA UncountedCount ==
  ASSUME NEW fs, NEW gs \in Queue, NEW t \in Nat
  PROVE  Uncounted(fs, gs, t) \in Queue /\ Cardinality(Uncounted(fs, gs, t)) \in Nat
<1>1. RecentAt(gs, t) \in Queue
  BY RecentQueue
<1>2. Uncounted(fs, gs, t) \in SUBSET RecentAt(gs, t)
  BY DEF Uncounted
<1>3. Uncounted(fs, gs, t) \in Queue
  BY <1>1, <1>2, QueueCount
<1> QED
  BY <1>3, QueueCount

(* Guesses still fit when connections of the peer are done looking up.     *)
LEMMA FewerPassed ==
  ASSUME NEW p, NEW cs, NEW cs2, NEW fs \in Queue, NEW gs \in Queue, NEW until \in Nat,
         NEW t \in Nat, GuessesFit(p, cs, fs, gs, until, t),
         Passed(cs2, p) \subseteq Passed(cs, p)
  PROVE  GuessesFit(p, cs2, fs, gs, until, t)
<1>1. Cardinality(Passed(cs2, p)) <= Cardinality(Passed(cs, p))
  BY PassedCount, FS_Subset
<1>2. /\ Cardinality(Passed(cs2, p)) \in Nat /\ Cardinality(Passed(cs, p)) \in Nat
      /\ Cardinality(Uncounted(fs, gs, t)) \in Nat /\ Cardinality(Addresses) \in Nat
  BY PassedCount, UncountedCount
<1>3. Cardinality(Uncounted(fs, gs, t)) + Cardinality(Passed(cs2, p)) <= Cardinality(Addresses)
  BY <1>1, <1>2 DEF GuessesFit
<1> QED
  BY <1>3 DEF GuessesFit

(* A peer that isn't locked out has no uncounted guess: any number of its  *)
(* connections may pass.                                                   *)
LEMMA Unlocked ==
  ASSUME NEW p, NEW cs, NEW cs2, NEW fs \in Queue, NEW gs \in Queue, NEW until \in Nat,
         NEW t \in Nat, GuessesFit(p, cs, fs, gs, until, t), until <= t
  PROVE  GuessesFit(p, cs2, fs, gs, 0, t)
<1>1. gs \subseteq HostDoor!Attempts
  BY DEF Queue
<1>2. \A e \in Uncounted(fs, gs, t) : e \in gs /\ t < e.at + Window
  BY DEF Uncounted, RecentAt
<1>3. Uncounted(fs, gs, t) = {}
  <2>1. SUFFICES ASSUME NEW e \in Uncounted(fs, gs, t) PROVE FALSE
    OBVIOUS
  <2>2. e.at \in Nat /\ t < e.at + Window
    BY <1>1, <1>2, AnAttempt
  <2>3. e.at + LockedFor <= until
    BY DEF GuessesFit
  <2> QED
    BY <2>2, <2>3, DoorLimits
<1>4. Cardinality(Uncounted(fs, gs, t)) + Cardinality(Passed(cs2, p)) <= Cardinality(Addresses)
  <2>1. Cardinality(Uncounted(fs, gs, t)) = 0
    BY <1>3, FS_EmptySet
  <2> QED
    BY <2>1, PassedCount
<1>5. 0 <= t + LockedFor /\ 0 # t + LockedFor
  BY DoorLimits
<1> QED
  BY <1>3, <1>4, <1>5 DEF GuessesFit

(* Time passes. *)
LEMMA GuessesLater ==
  ASSUME NEW p, NEW cs, NEW fs \in Queue, NEW gs \in Queue, NEW until \in Nat,
         NEW t \in Nat, GuessesFit(p, cs, fs, gs, until, t)
  PROVE  GuessesFit(p, cs, fs, gs, until, t + 1)
<1>1. gs \subseteq HostDoor!Attempts /\ t + 1 \in Nat
  BY DEF Queue
<1>2. RecentAt(fs, t + 1) \subseteq RecentAt(fs, t) /\ RecentAt(fs, t) \in Queue
  BY RecentQueue
<1>3. RecentAt(gs, t + 1) \subseteq RecentAt(gs, t)
  BY RecentQueue
<1>4. Cardinality(RecentAt(fs, t + 1)) <= MaxBad
  <2>1. /\ Cardinality(RecentAt(fs, t + 1)) <= Cardinality(RecentAt(fs, t))
        /\ Cardinality(RecentAt(fs, t + 1)) \in Nat /\ Cardinality(RecentAt(fs, t)) \in Nat
    BY <1>1, <1>2, RecentQueue, QueueCount
  <2> QED
    BY <2>1, DoorLimits DEF GuessesFit
<1>5. Uncounted(fs, gs, t + 1) \in SUBSET Uncounted(fs, gs, t)
  BY <1>3 DEF Uncounted
<1>6. Cardinality(Uncounted(fs, gs, t + 1)) + Cardinality(Passed(cs, p)) <= Cardinality(Addresses)
  <2>1. Cardinality(Uncounted(fs, gs, t + 1)) <= Cardinality(Uncounted(fs, gs, t))
    BY <1>5, UncountedCount, QueueCount
  <2>2. /\ Cardinality(Uncounted(fs, gs, t + 1)) \in Nat
        /\ Cardinality(Uncounted(fs, gs, t)) \in Nat
    BY <1>1, UncountedCount
  <2> QED
    BY <2>1, <2>2, PassedCount DEF GuessesFit
<1>7. \A e \in gs : e.at <= t + 1 /\ e.at # t + 1
  <2>1. \A e \in gs : e.at \in Nat
    BY <1>1, AnAttempt
  <2> QED
    BY <2>1 DEF GuessesFit
<1>8. until <= t + 1 + LockedFor /\ until # t + 1 + LockedFor
  BY DoorLimits DEF GuessesFit
<1> QED
  BY <1>2, <1>4, <1>5, <1>6, <1>7, <1>8 DEF GuessesFit

(* A bad token with room is counted. *)
LEMMA GuessCounted ==
  ASSUME NEW p, NEW cs, NEW cs2, NEW fs \in Queue, NEW gs \in Queue, NEW until \in Nat,
         NEW t \in Nat, GuessesFit(p, cs, fs, gs, until, t),
         NEW e \in HostDoor!Attempts, e.at = t, e.n = Cardinality(RecentAt(gs, t)),
         Cardinality(RecentAt(fs, t)) < MaxBad, Passed(cs2, p) \subseteq Passed(cs, p)
  PROVE  GuessesFit(p, cs2, RecentAt(fs, t) \cup {e}, RecentAt(gs, t) \cup {e}, until, t)
<1> DEFINE fs2 == RecentAt(fs, t) \cup {e}
           gs2 == RecentAt(gs, t) \cup {e}
<1>1. /\ RecentAt(fs, t) \in Queue /\ RecentAt(gs, t) \in Queue
      /\ RecentAt(gs, t) \subseteq gs /\ gs \subseteq HostDoor!Attempts
  BY RecentQueue DEF Queue
<1>2. RecentAt(fs2, t) = fs2 /\ RecentAt(gs2, t) = gs2 /\ gs2 \in Queue /\ fs2 \in Queue
  <2>1. RecentAt(fs2, t) = fs2
    BY RecentMore
  <2>2. RecentAt(gs2, t) = gs2
    BY RecentMore
  <2>3. gs2 \in Queue
    BY <1>1, OneMore
  <2>4. fs2 \in Queue
    BY <1>1, OneMore
  <2> QED
    BY <2>1, <2>2, <2>3, <2>4
<1>3. e \notin RecentAt(gs, t)
  <2>1. \A g \in gs : g.at = t => g.n < Cardinality(RecentAt(gs, t))
    BY DEF GuessesFit
  <2> QED
    BY <1>1, <2>1, QueueCount
<1>4. Cardinality(gs2) = Cardinality(RecentAt(gs, t)) + 1
  BY <1>1, <1>3, OneMore
<1>5. Cardinality(fs2) <= MaxBad
  <2>1. Cardinality(fs2) \in Nat /\ Cardinality(fs2) <= Cardinality(RecentAt(fs, t)) + 1
    BY <1>1, OneMore
  <2>2. Cardinality(RecentAt(fs, t)) \in Nat
    BY <1>1, QueueCount
  <2> QED
    BY <2>1, <2>2, DoorLimits
<1>6. \A g \in gs2 : g.at <= t /\ (g.at = t => g.n < Cardinality(gs2))
  <2>1. Cardinality(RecentAt(gs, t)) \in Nat
    BY <1>1, QueueCount
  <2>2. \A g \in gs : g.at <= t /\ (g.at = t => g.n < Cardinality(RecentAt(gs, t)))
    BY DEF GuessesFit
  <2>3. \A g \in gs : g.n \in Nat
    BY <1>1, AnAttempt
  <2> HIDE DEF gs2
  <2>4. \A g \in gs2 : g \in gs \/ g = e
    BY <1>1 DEF gs2
  <2> QED
    BY <1>4, <2>1, <2>2, <2>3, <2>4
<1>7. fs2 \subseteq gs2
  BY DEF GuessesFit, RecentAt
<1>8. Uncounted(fs2, gs2, t) \in SUBSET Uncounted(fs, gs, t)
  BY <1>2 DEF Uncounted, RecentAt
<1>9. Cardinality(Uncounted(fs2, gs2, t)) + Cardinality(Passed(cs2, p)) <= Cardinality(Addresses)
  <2>0. /\ Uncounted(fs, gs, t) \in Queue /\ Cardinality(Uncounted(fs, gs, t)) \in Nat
        /\ Cardinality(Uncounted(fs2, gs2, t)) \in Nat
    BY <1>2, UncountedCount
  <2>1. Cardinality(Uncounted(fs2, gs2, t)) <= Cardinality(Uncounted(fs, gs, t))
    BY <1>8, <2>0, QueueCount
  <2>2. Cardinality(Passed(cs2, p)) <= Cardinality(Passed(cs, p))
    BY PassedCount, FS_Subset
  <2> QED
    BY <2>0, <2>1, <2>2, PassedCount DEF GuessesFit
<1>10. until = t + LockedFor => Cardinality(gs2) > MaxBad
  <2>1. Cardinality(RecentAt(gs, t)) \in Nat
    BY <1>1, QueueCount
  <2> QED
    BY <1>4, <2>1, DoorLimits DEF GuessesFit
<1>11. until <= t + LockedFor /\ \A g \in Uncounted(fs, gs, t) : g.at + LockedFor <= until
  BY DEF GuessesFit
<1> HIDE DEF fs2, gs2
<1>12. GuessesFit(p, cs2, fs2, gs2, until, t)
  BY <1>2, <1>5, <1>6, <1>7, <1>8, <1>9, <1>10, <1>11 DEF GuessesFit
<1> QED
  BY <1>12 DEF fs2, gs2

(* A bad token without room locks the peer out. *)
LEMMA GuessLocks ==
  ASSUME NEW p, NEW cs, NEW cs2, NEW fs \in Queue, NEW gs \in Queue, NEW until \in Nat,
         NEW t \in Nat, GuessesFit(p, cs, fs, gs, until, t),
         NEW e \in HostDoor!Attempts, e.at = t, e.n = Cardinality(RecentAt(gs, t)),
         ~(Cardinality(RecentAt(fs, t)) < MaxBad),
         NEW c \in Passed(cs, p), Passed(cs2, p) = Passed(cs, p) \ {c}
  PROVE  GuessesFit(p, cs2, RecentAt(fs, t), RecentAt(gs, t) \cup {e}, t + LockedFor, t)
<1> DEFINE fs2 == RecentAt(fs, t)
           gs2 == RecentAt(gs, t) \cup {e}
<1>1. /\ fs2 \in Queue /\ RecentAt(gs, t) \in Queue
      /\ RecentAt(gs, t) \subseteq gs /\ gs \subseteq HostDoor!Attempts
  BY RecentQueue DEF Queue
<1>2. RecentAt(fs2, t) = fs2 /\ RecentAt(gs2, t) = gs2 /\ gs2 \in Queue
  <2>1. RecentAt(fs2, t) = fs2
    BY RecentQueue
  <2>2. RecentAt(gs2, t) = gs2
    BY RecentMore
  <2>3. gs2 \in Queue
    BY <1>1, OneMore
  <2> QED
    BY <2>1, <2>2, <2>3
<1>3. e \notin RecentAt(gs, t)
  <2>1. \A g \in gs : g.at = t => g.n < Cardinality(RecentAt(gs, t))
    BY DEF GuessesFit
  <2> QED
    BY <1>1, <2>1, QueueCount
<1>4. Cardinality(gs2) = Cardinality(RecentAt(gs, t)) + 1
  BY <1>1, <1>3, OneMore
<1>5. Cardinality(fs2) <= MaxBad
  BY DEF GuessesFit
<1>6. \A g \in gs2 : g.at <= t /\ (g.at = t => g.n < Cardinality(gs2))
  <2>1. Cardinality(RecentAt(gs, t)) \in Nat
    BY <1>1, QueueCount
  <2>2. \A g \in gs : g.at <= t /\ (g.at = t => g.n < Cardinality(RecentAt(gs, t)))
    BY DEF GuessesFit
  <2>3. \A g \in gs : g.n \in Nat
    BY <1>1, AnAttempt
  <2> HIDE DEF gs2
  <2>4. \A g \in gs2 : g \in gs \/ g = e
    BY <1>1 DEF gs2
  <2> QED
    BY <1>4, <2>1, <2>2, <2>3, <2>4
<1>7. fs2 \subseteq RecentAt(gs, t) /\ fs2 \subseteq gs2
  BY DEF GuessesFit, RecentAt
<1>8. Uncounted(fs2, gs2, t) \in SUBSET (Uncounted(fs, gs, t) \cup {e})
  BY <1>2 DEF Uncounted, RecentAt
<1>9. Cardinality(Uncounted(fs2, gs2, t)) + Cardinality(Passed(cs2, p)) <= Cardinality(Addresses)
  <2>1. Uncounted(fs, gs, t) \in Queue /\ Cardinality(Uncounted(fs, gs, t)) \in Nat
    BY UncountedCount
  <2>2. /\ Uncounted(fs, gs, t) \cup {e} \in Queue
        /\ Cardinality(Uncounted(fs, gs, t) \cup {e}) \in Nat
        /\ Cardinality(Uncounted(fs, gs, t) \cup {e}) <= Cardinality(Uncounted(fs, gs, t)) + 1
    BY <2>1, OneMore
  <2>3. /\ Cardinality(Uncounted(fs2, gs2, t)) \in Nat
        /\ Cardinality(Uncounted(fs2, gs2, t)) <= Cardinality(Uncounted(fs, gs, t) \cup {e})
    BY <1>2, <1>8, <2>2, UncountedCount, QueueCount
  <2>4. Cardinality(Passed(cs2, p)) = Cardinality(Passed(cs, p)) - 1
    BY PassedCount, FS_RemoveElement
  <2> QED
    BY <2>1, <2>2, <2>3, <2>4, PassedCount DEF GuessesFit
<1>10. Cardinality(gs2) > MaxBad
  <2>1. Cardinality(RecentAt(gs, t)) \in Nat /\ Cardinality(fs2) \in Nat
    BY <1>1, QueueCount
  <2>2. Cardinality(fs2) <= Cardinality(RecentAt(gs, t))
    BY <1>1, <1>7, QueueCount
  <2> QED
    BY <1>4, <2>1, <2>2, DoorLimits
<1>11. \A g \in Uncounted(fs2, gs2, t) : g.at + LockedFor <= t + LockedFor
  <2>1. \A g \in Uncounted(fs2, gs2, t) : g \in gs2
    BY <1>2 DEF Uncounted
  <2>2. \A g \in gs2 : g \in HostDoor!Attempts
    BY <1>1
  <2> HIDE DEF fs2, gs2
  <2>3. \A g \in gs2 : g.at \in Nat
    BY <2>2, AnAttempt
  <2> QED
    BY <1>6, <2>1, <2>3, DoorLimits
<1> HIDE DEF fs2, gs2
<1>12. t + LockedFor <= t + LockedFor
  BY DoorLimits
<1>13. GuessesFit(p, cs2, fs2, gs2, t + LockedFor, t)
  BY <1>2, <1>5, <1>6, <1>7, <1>9, <1>10, <1>11, <1>12 DEF GuessesFit
<1> QED
  BY <1>13 DEF fs2, gs2
-------------------------------------------------------------------------------
(* Time passes for what was counted of pairing. *)
LEMMA PairingLater ==
  ASSUME NEW all \in Queue, NEW let \in Queue, NEW t \in Nat, AllFit(all, let, t)
  PROVE  /\ AllFit(all, let, t + 1)
         /\ \A p, own : own \in Queue /\ PeerFits(p, own, let, t) => PeerFits(p, own, let, t + 1)
<1>1. /\ RecentAt(all, t + 1) \subseteq RecentAt(all, t)
      /\ RecentAt(let, t + 1) \subseteq RecentAt(let, t)
  BY RecentQueue
<1>2. RecentAt(all, t + 1) = RecentAt(let, t + 1)
  BY <1>1 DEF AllFit, RecentAt
<1>3. Cardinality(RecentAt(all, t + 1)) <= Overall
  <2>1. RecentAt(all, t) \in Queue /\ RecentAt(all, t + 1) \in Queue
    BY RecentQueue
  <2>2. /\ Cardinality(RecentAt(all, t + 1)) \in Nat /\ Cardinality(RecentAt(all, t)) \in Nat
        /\ Cardinality(RecentAt(all, t + 1)) <= Cardinality(RecentAt(all, t))
    BY <1>1, <2>1, QueueCount
  <2> QED
    BY <2>2, DoorLimits DEF AllFit
<1>4. ASSUME NEW p, NEW own \in Queue, PeerFits(p, own, let, t)
      PROVE  PeerFits(p, own, let, t + 1)
  <2>1. RecentAt(own, t) \in Queue /\ RecentAt(own, t + 1) \in Queue
        /\ RecentAt(own, t + 1) \subseteq RecentAt(own, t)
    BY RecentQueue
  <2>2. /\ Cardinality(RecentAt(own, t + 1)) \in Nat /\ Cardinality(RecentAt(own, t)) \in Nat
        /\ Cardinality(RecentAt(own, t + 1)) <= Cardinality(RecentAt(own, t))
    BY <2>1, QueueCount
  <2> QED
    BY <1>1, <1>4, <2>2, DoorLimits DEF PeerFits
<1> QED
  BY <1>2, <1>3, <1>4 DEF AllFit

(* A queue with room counts one more. *)
LEMMA RoomFor ==
  ASSUME NEW q \in Queue, NEW t \in Nat, NEW e \in HostDoor!Attempts, e.at = t,
         NEW max \in Nat, Cardinality(RecentAt(q, t)) < max
  PROVE  Cardinality(RecentAt(RecentAt(q, t) \cup {e}, t)) <= max
<1>1. RecentAt(q, t) \in Queue
  BY RecentQueue
<1>2. Cardinality(RecentAt(q, t)) \in Nat
  BY <1>1, QueueCount
<1>3. /\ Cardinality(RecentAt(q, t) \cup {e}) <= Cardinality(RecentAt(q, t)) + 1
      /\ Cardinality(RecentAt(q, t) \cup {e}) \in Nat
  BY <1>1, OneMore
<1>4. RecentAt(RecentAt(q, t) \cup {e}, t) = RecentAt(q, t) \cup {e}
  BY RecentMore
<1> QED
  BY <1>2, <1>3, <1>4

(* An attempt that is let through. *)
LEMMA LetThrough ==
  ASSUME NEW all \in Queue, NEW let \in Queue, NEW t \in Nat, AllFit(all, let, t),
         NEW e \in HostDoor!Attempts, e.at = t, NEW own \in Queue,
         PeerFits(e.peer, own, let, t),
         Cardinality(RecentAt(own, t)) < PerPeer, Cardinality(RecentAt(all, t)) < Overall
  PROVE  /\ AllFit(RecentAt(all, t) \cup {e}, RecentAt(let, t) \cup {e}, t)
         /\ PeerFits(e.peer, RecentAt(own, t) \cup {e}, RecentAt(let, t) \cup {e}, t)
         /\ \A p, q : p # e.peer /\ PeerFits(p, q, let, t)
                         => PeerFits(p, q, RecentAt(let, t) \cup {e}, t)
<1>1. /\ RecentAt(RecentAt(let, t) \cup {e}, t) = RecentAt(let, t) \cup {e}
      /\ RecentAt(RecentAt(all, t) \cup {e}, t) = RecentAt(all, t) \cup {e}
  BY RecentMore
<1>2. Cardinality(RecentAt(RecentAt(all, t) \cup {e}, t)) <= Overall
  BY RoomFor, DoorLimits
<1>3. Cardinality(RecentAt(RecentAt(own, t) \cup {e}, t)) <= PerPeer
  BY RoomFor, DoorLimits
<1>4. {x \in RecentAt(let, t) \cup {e} : x.peer = e.peer} \subseteq RecentAt(own, t) \cup {e}
  BY DEF PeerFits, RecentAt
<1>5. \A p, q : p # e.peer /\ PeerFits(p, q, let, t)
                  => PeerFits(p, q, RecentAt(let, t) \cup {e}, t)
  BY <1>1 DEF PeerFits
<1>6. AllFit(RecentAt(all, t) \cup {e}, RecentAt(let, t) \cup {e}, t)
  BY <1>1, <1>2 DEF AllFit
<1>7. PeerFits(e.peer, RecentAt(own, t) \cup {e}, RecentAt(let, t) \cup {e}, t)
  BY <1>1, <1>3, <1>4 DEF PeerFits
<1> QED
  BY <1>5, <1>6, <1>7

(* One that is counted for its peer and refused for all. *)
LEMMA RefusedForAll ==
  ASSUME NEW all \in Queue, NEW let \in Queue, NEW t \in Nat, AllFit(all, let, t),
         NEW e \in HostDoor!Attempts, e.at = t, NEW own \in Queue,
         PeerFits(e.peer, own, let, t),
         Cardinality(RecentAt(own, t)) < PerPeer, ~(Cardinality(RecentAt(all, t)) < Overall)
  PROVE  /\ AllFit(RecentAt(all, t), let, t)
         /\ PeerFits(e.peer, RecentAt(own, t) \cup {e}, let, t)
         /\ Cardinality(OfOthers(let, e.peer, t)) + PerPeer > Overall
<1>1. AllFit(RecentAt(all, t), let, t)
  BY RecentQueue DEF AllFit
<1>2. PeerFits(e.peer, RecentAt(own, t) \cup {e}, let, t)
  <2>1. Cardinality(RecentAt(RecentAt(own, t) \cup {e}, t)) <= PerPeer
    BY RoomFor, DoorLimits
  <2>2. {x \in RecentAt(let, t) : x.peer = e.peer} \subseteq RecentAt(own, t) \cup {e}
    BY DEF PeerFits, RecentAt
  <2> QED
    BY <2>1, <2>2 DEF PeerFits
<1>3. Cardinality(OfOthers(let, e.peer, t)) + PerPeer > Overall
  <2> DEFINE mine == {x \in RecentAt(let, t) : x.peer = e.peer}
             others == OfOthers(let, e.peer, t)
  <2>1. RecentAt(let, t) \in Queue /\ RecentAt(own, t) \in Queue
    BY RecentQueue
  <2>2. mine \in SUBSET RecentAt(let, t) /\ others \in SUBSET RecentAt(let, t)
    BY DEF OfOthers
  <2>3. mine \cup others = RecentAt(let, t) /\ mine \cap others = {}
    BY DEF OfOthers
  <2>4. mine \in SUBSET RecentAt(own, t)
    BY DEF PeerFits, RecentAt
  <2> HIDE DEF mine, others
  <2>5. IsFiniteSet(mine) /\ IsFiniteSet(others)
        /\ Cardinality(mine) \in Nat /\ Cardinality(others) \in Nat
    BY <2>1, <2>2, QueueCount
  <2>6. Cardinality(RecentAt(let, t)) = Cardinality(mine) + Cardinality(others)
    <3>1. Cardinality(mine \cup others)
            = Cardinality(mine) + Cardinality(others) - Cardinality(mine \cap others)
      BY <2>5, FS_Union
    <3>2. Cardinality(mine \cap others) = 0
      BY <2>3, FS_EmptySet
    <3>3. Cardinality(mine \cup others) = Cardinality(RecentAt(let, t))
      BY <2>3
    <3> QED
      BY <2>5, <3>1, <3>2, <3>3
  <2>7. Cardinality(mine) <= Cardinality(RecentAt(own, t))
        /\ Cardinality(RecentAt(own, t)) \in Nat /\ Cardinality(RecentAt(let, t)) \in Nat
    BY <2>1, <2>4, QueueCount
  <2>8. RecentAt(all, t) = RecentAt(let, t)
    BY DEF AllFit
  <2>9. Cardinality(others) + PerPeer > Overall
    BY <2>5, <2>6, <2>7, <2>8, DoorLimits
  <2> QED
    BY <2>9 DEF others
<1> QED
  BY <1>1, <1>2, <1>3

(* One that is refused for its peer. *)
LEMMA RefusedForPeer ==
  ASSUME NEW p, NEW own \in Queue, NEW let, NEW t \in Nat, PeerFits(p, own, let, t)
  PROVE  PeerFits(p, RecentAt(own, t), let, t)
<1>1. {x \in RecentAt(let, t) : x.peer = p} \subseteq RecentAt(own, t)
  BY DEF PeerFits, RecentAt
<1> QED
  BY <1>1, RecentQueue DEF PeerFits
-------------------------------------------------------------------------------
LEMMA DoorTyped ==
  ASSUME DoorInv
  PROVE  HostDoor!TypeOK
<1>1. \A q \in Queue : q \in SUBSET HostDoor!Attempts
  BY DEF Queue
<1>2. /\ perPeer \in [Tasks -> SUBSET HostDoor!Attempts]
      /\ failures \in [Tasks -> SUBSET HostDoor!Attempts]
      /\ guessed \in [Tasks -> SUBSET HostDoor!Attempts]
  BY <1>1 DEF DoorInv, DoorWorld
<1>3. overall \in SUBSET HostDoor!Attempts /\ tried \in SUBSET HostDoor!Attempts
  BY <1>1 DEF DoorInv, DoorWorld
<1> QED
  BY <1>2, <1>3 DEF DoorInv, DoorWorld, ConnsTyped, HostDoor!TypeOK

LEMMA DoorInit == HostDoor!Init => DoorInv
<1>1. SUFFICES ASSUME HostDoor!Init PROVE DoorInv
  OBVIOUS
<1>2. {} \in Queue /\ \A t : RecentAt({}, t) = {} /\ Cardinality({}) = 0
  BY FS_EmptySet DEF Queue, RecentAt
<1>3. DoorWorld
  <2>1. HostDoor!Closed \in [pc : HostDoor!Steps, peer : Tasks \cup {HostDoor!Nobody}]
        /\ HostDoor!Closed.pc = "closed"
    BY DEF HostDoor!Closed, HostDoor!Steps
  <2> QED
    BY <1>1, <1>2, <2>1, DoorLimits DEF HostDoor!Init, DoorWorld, ConnsTyped
<1>4. AllFit(overall, tried, now)
  BY <1>1, <1>2, DoorLimits DEF HostDoor!Init, AllFit
<1>5. \A p \in Tasks : PeerFits(p, perPeer[p], tried, now)
  BY <1>1, <1>2, DoorLimits DEF HostDoor!Init, PeerFits
<1>6. ASSUME NEW p \in Tasks
      PROVE  GuessesFit(p, conn, failures[p], guessed[p], locked[p], now)
  <2>1. failures[p] = {} /\ guessed[p] = {} /\ locked[p] = 0 /\ now = 0
    BY <1>1 DEF HostDoor!Init
  <2>2. Uncounted({}, {}, 0) = {}
    BY <1>2 DEF Uncounted
  <2>3. /\ Cardinality(Passed(conn, p)) <= Cardinality(Addresses)
        /\ Cardinality(Passed(conn, p)) \in Nat /\ Cardinality(Addresses) \in Nat
    BY PassedCount
  <2>4. Cardinality(RecentAt({}, 0)) = 0 /\ Cardinality(Uncounted({}, {}, 0)) = 0
        /\ RecentAt({}, 0) = {}
    BY <1>2, <2>2
  <2>5. GuessesFit(p, conn, {}, {}, 0, 0)
    BY <2>2, <2>3, <2>4, DoorLimits DEF GuessesFit
  <2> QED
    BY <2>1, <2>5
<1>7. shut = HostDoor!Nobody
  BY <1>1 DEF HostDoor!Init
<1> QED
  BY <1>3, <1>4, <1>5, <1>6, <1>7 DEF DoorInv, NotRefusedFor

(* A connection that comes to a step. *)
LEMMA ConnTo ==
  ASSUME DoorWorld, NEW c \in Addresses, NEW step \in HostDoor!Steps, HostDoor!To(c, step)
  PROVE  conn' = [conn EXCEPT ![c] = [pc |-> step, peer |-> conn[c].peer]]
<1>1. conn[c] \in [pc : HostDoor!Steps, peer : Tasks \cup {HostDoor!Nobody}]
  BY DEF DoorWorld, ConnsTyped
<1>2. [conn[c] EXCEPT !.pc = step] = [pc |-> step, peer |-> conn[c].peer]
  BY <1>1
<1> QED
  BY <1>2 DEF HostDoor!To

(* A connection that doesn't come to look up a token. *)
LEMMA ConnPassed ==
  ASSUME DoorWorld, NEW c \in Addresses, NEW r, r.pc # "token",
         conn' = [conn EXCEPT ![c] = r], NEW p
  PROVE  Passed(conn', p) = Passed(conn, p) \ {c}
BY DEF DoorWorld, ConnsTyped, Passed

LEMMA ConnTyped ==
  ASSUME DoorWorld, NEW c \in Addresses,
         NEW r \in [pc : HostDoor!Steps, peer : Tasks \cup {HostDoor!Nobody}],
         r.pc # "closed" => r.peer \in Tasks, conn' = [conn EXCEPT ![c] = r]
  PROVE  ConnsTyped(conn')
BY DEF DoorWorld, ConnsTyped

LEMMA ConnStep ==
  ASSUME DoorInv, NEW c \in Addresses,
         NEW r \in [pc : HostDoor!Steps, peer : Tasks \cup {HostDoor!Nobody}],
         r.pc # "closed" => r.peer \in Tasks, r.pc # "token",
         conn' = [conn EXCEPT ![c] = r], shut' = HostDoor!Nobody,
         UNCHANGED <<kind, now, perPeer, overall, failures, locked, tried, guessed>>
  PROVE  DoorInv'
<1>1. DoorWorld
  BY DEF DoorInv
<1>2. DoorWorld'
  BY <1>1, ConnTyped DEF DoorWorld
<1>3. ASSUME NEW p \in Tasks
      PROVE  GuessesFit(p, conn', failures'[p], guessed'[p], locked'[p], now')
  <2>1. Passed(conn', p) \subseteq Passed(conn, p)
    BY <1>1, ConnPassed
  <2>2. /\ failures[p] \in Queue /\ guessed[p] \in Queue /\ locked[p] \in Nat /\ now \in Nat
    BY <1>1, DoorLimits DEF DoorWorld
  <2>3. GuessesFit(p, conn, failures[p], guessed[p], locked[p], now)
    BY DEF DoorInv
  <2>4. GuessesFit(p, conn', failures[p], guessed[p], locked[p], now)
    BY <2>1, <2>2, <2>3, FewerPassed
  <2> QED
    BY <2>4
<1> QED
  BY <1>2, <1>3 DEF DoorInv, NotRefusedFor

LEMMA AcceptStep ==
  ASSUME DoorInv, NEW c \in Addresses, NEW p \in Tasks, HostDoor!Accept(c, p)
  PROVE  DoorInv'
BY ConnStep DEF HostDoor!Accept, HostDoor!Steps, HostDoor!limits

LEMMA HangsUpStep ==
  ASSUME DoorInv, NEW c \in Addresses, HostDoor!HangsUp(c)
  PROVE  DoorInv'
BY ConnStep DEF HostDoor!HangsUp, HostDoor!Closed, HostDoor!Steps, HostDoor!limits

(* The steps that only move a connection on. *)
LEMMA OnwardStep ==
  ASSUME DoorInv, NEW c \in Addresses, NEW step \in HostDoor!Steps \ {"closed", "token"},
         conn[c].pc # "closed", HostDoor!To(c, step), shut' = HostDoor!Nobody,
         UNCHANGED <<kind, now, perPeer, overall, failures, locked, tried, guessed>>
  PROVE  DoorInv'
<1>1. DoorWorld /\ conn[c].peer \in Tasks
  BY DEF DoorInv, DoorWorld, ConnsTyped
<1>2. conn' = [conn EXCEPT ![c] = [pc |-> step, peer |-> conn[c].peer]]
  BY <1>1, ConnTo
<1> DEFINE r == [pc |-> step, peer |-> conn[c].peer]
<1>3. /\ r \in [pc : HostDoor!Steps, peer : Tasks \cup {HostDoor!Nobody}]
      /\ r.pc = step /\ r.peer \in Tasks
  BY <1>1
<1> HIDE DEF r
<1>4. conn' = [conn EXCEPT ![c] = r]
  BY <1>2 DEF r
<1> QED
  BY <1>3, <1>4, ConnStep

LEMMA ShakesHandsStep ==
  ASSUME DoorInv, NEW c \in Addresses, HostDoor!ShakesHands(c)
  PROVE  DoorInv'
BY OnwardStep DEF HostDoor!ShakesHands, HostDoor!Steps, HostDoor!limits

LEMMA GoodTokenStep ==
  ASSUME DoorInv, NEW c \in Addresses, HostDoor!GoodToken(c)
  PROVE  DoorInv'
BY OnwardStep DEF HostDoor!GoodToken, HostDoor!Steps, HostDoor!limits

LEMMA AnsweredStep ==
  ASSUME DoorInv, NEW c \in Addresses, HostDoor!Answered(c)
  PROVE  DoorInv'
BY OnwardStep DEF HostDoor!Answered, HostDoor!Steps, HostDoor!limits

LEMMA TickStep ==
  ASSUME DoorInv, HostDoor!Tick
  PROVE  DoorInv'
<1>1. /\ DoorWorld /\ now \in Nat /\ now' = now + 1 /\ now < MaxTicks
      /\ shut' = HostDoor!Nobody
      /\ UNCHANGED <<kind, conn, perPeer, overall, failures, locked, tried, guessed>>
  BY DoorLimits DEF DoorInv, DoorWorld, HostDoor!Tick, HostDoor!limits
<1>2. DoorWorld'
  BY <1>1, DoorLimits DEF DoorWorld
<1>3. AllFit(overall, tried, now + 1)
  BY <1>1, PairingLater DEF DoorInv, DoorWorld
<1>4. \A p \in Tasks : PeerFits(p, perPeer[p], tried, now + 1)
  BY <1>1, PairingLater DEF DoorInv, DoorWorld
<1>5. ASSUME NEW p \in Tasks
      PROVE  GuessesFit(p, conn, failures[p], guessed[p], locked[p], now + 1)
  <2>1. failures[p] \in Queue /\ guessed[p] \in Queue /\ locked[p] \in Nat
    BY <1>1, DoorLimits DEF DoorWorld
  <2> QED
    BY <1>1, <2>1, GuessesLater DEF DoorInv
<1> QED
  BY <1>1, <1>2, <1>3, <1>4, <1>5 DEF DoorInv, NotRefusedFor

(* A peer that is locked out is refused; another's token is looked up, and *)
(* its lock forgotten.                                                     *)
LEMMA AsksStep ==
  ASSUME DoorInv, NEW c \in Addresses, HostDoor!Asks(c)
  PROVE  DoorInv'
<1> DEFINE p == conn[c].peer
           r == [pc |-> "token", peer |-> p]
<1>1. /\ DoorWorld /\ conn[c].pc = "waiting" /\ p \in Tasks /\ now \in Nat
      /\ shut' = HostDoor!Nobody
      /\ UNCHANGED <<kind, now, perPeer, overall, failures, tried, guessed>>
  BY DoorLimits DEF DoorInv, DoorWorld, ConnsTyped, HostDoor!Asks
<1>2. CASE HostDoor!IsLocked(p)
  <2>1. HostDoor!To(c, "answering") /\ UNCHANGED locked
    BY <1>2 DEF HostDoor!Asks
  <2> QED
    BY <1>1, <2>1, OnwardStep DEF HostDoor!Steps
<1>3. CASE ~HostDoor!IsLocked(p)
  <2>1. HostDoor!To(c, "token") /\ locked' = [locked EXCEPT ![p] = 0]
    BY <1>3 DEF HostDoor!Asks
  <2>2. locked[p] \in Nat /\ locked[p] <= now
    BY <1>1, <1>3, DoorLimits DEF HostDoor!IsLocked, DoorWorld
  <2>3. conn' = [conn EXCEPT ![c] = r]
    BY <1>1, <2>1, ConnTo DEF HostDoor!Steps
  <2>4. /\ r \in [pc : HostDoor!Steps, peer : Tasks \cup {HostDoor!Nobody}]
        /\ r.pc = "token" /\ r.peer = p
    BY <1>1 DEF HostDoor!Steps
  <2> HIDE DEF p, r
  <2>5. ConnsTyped(conn')
    BY <1>1, <2>3, <2>4, ConnTyped
  <2>6. locked' \in [Tasks -> 0..MaxTicks + LockedFor]
    BY <1>1, <2>1, DoorLimits DEF DoorWorld
  <2>7. DoorWorld'
    BY <1>1, <2>5, <2>6 DEF DoorWorld
  <2>8. ASSUME NEW q \in Tasks
        PROVE  GuessesFit(q, conn', failures[q], guessed[q], locked'[q], now)
    <3>1. /\ failures[q] \in Queue /\ guessed[q] \in Queue /\ locked[q] \in Nat
          /\ GuessesFit(q, conn, failures[q], guessed[q], locked[q], now)
      BY <1>1, DoorLimits DEF DoorInv, DoorWorld
    <3>2. CASE q = p
      <4>1. locked'[q] = 0
        BY <1>1, <2>1, <3>2 DEF DoorWorld
      <4> QED
        BY <1>1, <2>2, <3>1, <3>2, <4>1, Unlocked
    <3>3. CASE q # p
      <4>1. locked'[q] = locked[q]
        BY <1>1, <2>1, <3>3 DEF DoorWorld
      <4>2. Passed(conn', q) \subseteq Passed(conn, q)
        BY <1>1, <2>3, <2>4, <3>3 DEF Passed, DoorWorld, ConnsTyped
      <4> QED
        BY <1>1, <3>1, <4>1, <4>2, FewerPassed
    <3> QED
      BY <3>2, <3>3
  <2> QED
    BY <1>1, <2>7, <2>8 DEF DoorInv, NotRefusedFor
<1> QED
  BY <1>2, <1>3

(* A peer's next attempt. *)
LEMMA NextAttempt ==
  ASSUME NEW p \in Tasks, NEW q \in Queue, now \in Nat
  PROVE  /\ HostDoor!Attempt(p, q) \in HostDoor!Attempts
         /\ HostDoor!Attempt(p, q).peer = p /\ HostDoor!Attempt(p, q).at = now
         /\ HostDoor!Attempt(p, q).n = Cardinality(RecentAt(q, now))
<1>1. HostDoor!Cardinality(HostDoor!Recent(q)) = Cardinality(RecentAt(q, now))
  BY SameCount, RecentIs
<1>2. Cardinality(RecentAt(q, now)) \in Nat
  BY RecentQueue, QueueCount
<1> QED
  BY <1>1, <1>2 DEF HostDoor!Attempt, HostDoor!Attempts

LEMMA RoomIs ==
  ASSUME NEW q, NEW max
  PROVE  HostDoor!HasRoom(q, max) <=> Cardinality(RecentAt(q, now)) < max
BY SameCount, RecentIs DEF HostDoor!HasRoom

LEMMA CountedIs ==
  ASSUME NEW q, NEW max, NEW e
  PROVE  HostDoor!Counted(q, max, e) =
           IF HostDoor!HasRoom(q, max) THEN RecentAt(q, now) \cup {e} ELSE RecentAt(q, now)
BY RecentIs DEF HostDoor!Counted

LEMMA BadTokenStep ==
  ASSUME DoorInv, NEW c \in Addresses, HostDoor!BadToken(c)
  PROVE  DoorInv'
<1> DEFINE p == conn[c].peer
           guess == HostDoor!Attempt(p, guessed[p])
           r == [pc |-> "answering", peer |-> p]
           fs == HostDoor!Counted(failures[p], MaxBad, guess)
           gs == RecentAt(guessed[p], now) \cup {guess}
           until == IF HostDoor!HasRoom(failures[p], MaxBad) THEN locked[p] ELSE now + LockedFor
<1>1. /\ DoorWorld /\ conn[c].pc = "token" /\ p \in Tasks /\ now \in 0..MaxTicks /\ now \in Nat
      /\ failures[p] \in Queue /\ guessed[p] \in Queue /\ locked[p] \in 0..MaxTicks + LockedFor
      /\ locked[p] \in Nat
      /\ GuessesFit(p, conn, failures[p], guessed[p], locked[p], now)
  BY DoorLimits DEF DoorInv, DoorWorld, ConnsTyped, HostDoor!BadToken
<1>2. /\ failures' = [failures EXCEPT ![p] = fs]
      /\ locked' = [locked EXCEPT ![p] = until]
      /\ guessed' = [guessed EXCEPT ![p] = gs]
      /\ HostDoor!To(c, "answering") /\ shut' = HostDoor!Nobody
      /\ UNCHANGED <<kind, now, perPeer, overall, tried>>
  BY RecentIs DEF HostDoor!BadToken, HostDoor!Fails
<1>3. conn' = [conn EXCEPT ![c] = r]
  BY <1>1, <1>2, ConnTo DEF HostDoor!Steps
<1>4. /\ r \in [pc : HostDoor!Steps, peer : Tasks \cup {HostDoor!Nobody}]
      /\ r.pc = "answering" /\ r.peer = p
  BY <1>1 DEF HostDoor!Steps
<1>5. /\ guess \in HostDoor!Attempts /\ guess.at = now
      /\ guess.n = Cardinality(RecentAt(guessed[p], now))
  BY <1>1, NextAttempt
<1>6. c \in Passed(conn, p)
  BY <1>1 DEF Passed
<1> HIDE DEF r
<1>7. \A q : Passed(conn', q) = Passed(conn, q) \ {c}
  BY <1>1, <1>3, <1>4, ConnPassed
<1>8. ConnsTyped(conn')
  BY <1>1, <1>3, <1>4, ConnTyped
<1> HIDE DEF guess
<1>9. GuessesFit(p, conn', fs, gs, until, now)
  <2>1. CASE HostDoor!HasRoom(failures[p], MaxBad)
    <3>1. fs = RecentAt(failures[p], now) \cup {guess} /\ until = locked[p]
      BY <2>1, CountedIs
    <3>2. Cardinality(RecentAt(failures[p], now)) < MaxBad
      BY <2>1, RoomIs
    <3>3. Passed(conn', p) \subseteq Passed(conn, p)
      BY <1>7
    <3> HIDE DEF p, fs, until
    <3>4. GuessesFit(p, conn', RecentAt(failures[p], now) \cup {guess}, gs, locked[p], now)
      BY <1>1, <1>5, <3>2, <3>3, GuessCounted
    <3> QED
      BY <3>1, <3>4
  <2>2. CASE ~HostDoor!HasRoom(failures[p], MaxBad)
    <3>1. fs = RecentAt(failures[p], now) /\ until = now + LockedFor
      BY <2>2, CountedIs
    <3>2. ~(Cardinality(RecentAt(failures[p], now)) < MaxBad)
      BY <2>2, RoomIs
    <3>3. Passed(conn', p) = Passed(conn, p) \ {c}
      BY <1>7
    <3> HIDE DEF p, fs, until
    <3>4. GuessesFit(p, conn', RecentAt(failures[p], now), gs, now + LockedFor, now)
      BY <1>1, <1>5, <1>6, <3>2, <3>3, GuessLocks
    <3> QED
      BY <3>1, <3>4
  <2> QED
    BY <2>1, <2>2
<1>10. fs \in Queue /\ gs \in Queue /\ until \in 0..MaxTicks + LockedFor
  <2>1. RecentAt(failures[p], now) \in Queue /\ RecentAt(guessed[p], now) \in Queue
    BY <1>1, RecentQueue
  <2>2. RecentAt(failures[p], now) \cup {guess} \in Queue /\ gs \in Queue
    BY <1>5, <2>1, OneMore
  <2>3. fs \in Queue
    BY <2>1, <2>2, CountedIs
  <2>4. until \in 0..MaxTicks + LockedFor
    BY <1>1, DoorLimits
  <2> QED
    BY <2>2, <2>3, <2>4
<1> HIDE DEF p, fs, gs, until
<1>11. DoorWorld'
  <2>1. failures' \in [Tasks -> Queue] /\ guessed' \in [Tasks -> Queue]
    BY <1>1, <1>2, <1>10 DEF DoorWorld
  <2>2. locked' \in [Tasks -> 0..MaxTicks + LockedFor]
    BY <1>1, <1>2, <1>10 DEF DoorWorld
  <2> QED
    BY <1>1, <1>2, <1>8, <2>1, <2>2 DEF DoorWorld
<1>12. ASSUME NEW q \in Tasks
       PROVE  GuessesFit(q, conn', failures'[q], guessed'[q], locked'[q], now)
  <2>1. CASE q = p
    <3>1. failures'[q] = fs /\ guessed'[q] = gs /\ locked'[q] = until
      BY <1>1, <1>2, <2>1 DEF DoorWorld
    <3> QED
      BY <1>9, <2>1, <3>1
  <2>2. CASE q # p
    <3>1. failures'[q] = failures[q] /\ guessed'[q] = guessed[q] /\ locked'[q] = locked[q]
      BY <1>1, <1>2, <2>2 DEF DoorWorld
    <3>2. /\ failures[q] \in Queue /\ guessed[q] \in Queue /\ locked[q] \in Nat
          /\ GuessesFit(q, conn, failures[q], guessed[q], locked[q], now)
      BY <1>1, DoorLimits DEF DoorInv, DoorWorld
    <3>3. Passed(conn', q) \subseteq Passed(conn, q)
      BY <1>7
    <3>4. GuessesFit(q, conn', failures[q], guessed[q], locked[q], now)
      BY <1>1, <3>2, <3>3, FewerPassed
    <3> QED
      BY <3>1, <3>4
  <2> QED
    BY <2>1, <2>2
<1> QED
  BY <1>2, <1>11, <1>12 DEF DoorInv, NotRefusedFor

LEMMA PairsStep ==
  ASSUME DoorInv, NEW c \in Addresses, HostDoor!Pairs(c)
  PROVE  DoorInv'
<1> DEFINE p == conn[c].peer
           e == HostDoor!Attempt(p, perPeer[p])
           r == [pc |-> "answering", peer |-> p]
           own == HostDoor!Counted(perPeer[p], PerPeer, e)
           room == HostDoor!HasRoom(perPeer[p], PerPeer)
           roomForAll == HostDoor!HasRoom(overall, Overall)
           all == IF room THEN HostDoor!Counted(overall, Overall, e) ELSE overall
           let == IF room /\ roomForAll THEN RecentAt(tried, now) \cup {e} ELSE tried
           who == IF room /\ ~roomForAll THEN p ELSE HostDoor!Nobody
<1>1. /\ DoorWorld /\ conn[c].pc = "waiting" /\ p \in Tasks /\ now \in 0..MaxTicks /\ now \in Nat
      /\ perPeer[p] \in Queue /\ overall \in Queue /\ tried \in Queue
      /\ PeerFits(p, perPeer[p], tried, now) /\ AllFit(overall, tried, now)
  BY DoorLimits DEF DoorInv, DoorWorld, ConnsTyped, HostDoor!Pairs
<1>2. /\ perPeer' = [perPeer EXCEPT ![p] = own] /\ overall' = all /\ tried' = let
      /\ shut' = who /\ HostDoor!To(c, "answering")
      /\ UNCHANGED <<kind, now, failures, locked, guessed>>
  BY RecentIs DEF HostDoor!Pairs, HostDoor!MayPair
<1>3. conn' = [conn EXCEPT ![c] = r]
  BY <1>1, <1>2, ConnTo DEF HostDoor!Steps
<1>4. /\ r \in [pc : HostDoor!Steps, peer : Tasks \cup {HostDoor!Nobody}]
      /\ r.pc = "answering" /\ r.peer = p
  BY <1>1 DEF HostDoor!Steps
<1>5. e \in HostDoor!Attempts /\ e.at = now /\ e.peer = p
  BY <1>1, NextAttempt
<1> HIDE DEF r, e
<1>6. \A q : Passed(conn', q) \subseteq Passed(conn, q)
  BY <1>1, <1>3, <1>4, ConnPassed
<1>7. ConnsTyped(conn')
  BY <1>1, <1>3, <1>4, ConnTyped
<1>8. /\ room <=> Cardinality(RecentAt(perPeer[p], now)) < PerPeer
      /\ roomForAll <=> Cardinality(RecentAt(overall, now)) < Overall
  BY RoomIs
<1>9. /\ own = IF room THEN RecentAt(perPeer[p], now) \cup {e} ELSE RecentAt(perPeer[p], now)
      /\ HostDoor!Counted(overall, Overall, e) =
           IF roomForAll THEN RecentAt(overall, now) \cup {e} ELSE RecentAt(overall, now)
  BY CountedIs
<1>10. /\ own \in Queue /\ all \in Queue /\ let \in Queue
       /\ RecentAt(overall, now) \in Queue
  <2>1. /\ RecentAt(perPeer[p], now) \in Queue /\ RecentAt(overall, now) \in Queue
        /\ RecentAt(tried, now) \in Queue
    BY <1>1, RecentQueue
  <2>2. /\ RecentAt(perPeer[p], now) \cup {e} \in Queue /\ RecentAt(overall, now) \cup {e} \in Queue
        /\ RecentAt(tried, now) \cup {e} \in Queue
    BY <1>5, <2>1, OneMore
  <2> QED
    BY <1>1, <1>9, <2>1, <2>2
<1>11. /\ AllFit(all, let, now) /\ PeerFits(p, own, let, now)
       /\ \A q \in Tasks \ {p} : PeerFits(q, perPeer[q], let, now)
       /\ NotRefusedFor(who, let, now)
  <2>1. \A q \in Tasks : PeerFits(q, perPeer[q], tried, now)
    BY DEF DoorInv
  <2>2. CASE room /\ roomForAll
    <3>1. /\ own = RecentAt(perPeer[p], now) \cup {e} /\ all = RecentAt(overall, now) \cup {e}
          /\ let = RecentAt(tried, now) \cup {e} /\ who = HostDoor!Nobody
      BY <1>9, <2>2
    <3>2. /\ Cardinality(RecentAt(perPeer[p], now)) < PerPeer
          /\ Cardinality(RecentAt(overall, now)) < Overall
      BY <1>8, <2>2
    <3> HIDE DEF p, own, all, let, who, room, roomForAll
    <3>3. /\ AllFit(RecentAt(overall, now) \cup {e}, RecentAt(tried, now) \cup {e}, now)
          /\ PeerFits(e.peer, RecentAt(perPeer[p], now) \cup {e}, RecentAt(tried, now) \cup {e}, now)
          /\ \A x, q : x # e.peer /\ PeerFits(x, q, tried, now)
                          => PeerFits(x, q, RecentAt(tried, now) \cup {e}, now)
      BY <1>1, <1>5, <3>2, LetThrough
    <3> QED
      BY <1>5, <2>1, <3>1, <3>3 DEF NotRefusedFor
  <2>3. CASE room /\ ~roomForAll
    <3>1. /\ own = RecentAt(perPeer[p], now) \cup {e} /\ all = RecentAt(overall, now)
          /\ let = tried /\ who = p
      BY <1>9, <2>3
    <3>2. /\ Cardinality(RecentAt(perPeer[p], now)) < PerPeer
          /\ ~(Cardinality(RecentAt(overall, now)) < Overall)
      BY <1>8, <2>3
    <3> HIDE DEF p, own, all, let, who, room, roomForAll
    <3>3. /\ AllFit(RecentAt(overall, now), tried, now)
          /\ PeerFits(e.peer, RecentAt(perPeer[p], now) \cup {e}, tried, now)
          /\ Cardinality(OfOthers(tried, e.peer, now)) + PerPeer > Overall
      BY <1>1, <1>5, <3>2, RefusedForAll
    <3> QED
      BY <1>5, <2>1, <3>1, <3>3 DEF NotRefusedFor
  <2>4. CASE ~room
    <3>1. /\ own = RecentAt(perPeer[p], now) /\ all = overall
          /\ let = tried /\ who = HostDoor!Nobody
      BY <1>9, <2>4
    <3> HIDE DEF p, own, all, let, who, room, roomForAll
    <3>2. PeerFits(p, RecentAt(perPeer[p], now), tried, now)
      BY <1>1, RefusedForPeer
    <3> QED
      BY <1>1, <2>1, <3>1, <3>2 DEF NotRefusedFor
  <2> QED
    BY <2>2, <2>3, <2>4
<1>12. who \in Tasks \cup {HostDoor!Nobody}
  BY <1>1
<1> HIDE DEF p, own, all, let, who
<1>13. DoorWorld'
  <2>1. perPeer' \in [Tasks -> Queue]
    BY <1>1, <1>2, <1>10 DEF DoorWorld
  <2> QED
    BY <1>1, <1>2, <1>7, <1>10, <1>12, <2>1 DEF DoorWorld
<1>14. ASSUME NEW q \in Tasks
       PROVE  PeerFits(q, perPeer'[q], tried', now)
  <2>1. CASE q = p
    BY <1>1, <1>2, <1>11, <2>1 DEF DoorWorld
  <2>2. CASE q # p
    <3>1. perPeer'[q] = perPeer[q]
      BY <1>1, <1>2, <2>2 DEF DoorWorld
    <3> QED
      BY <1>2, <1>11, <2>2, <3>1
  <2> QED
    BY <2>1, <2>2
<1>15. ASSUME NEW q \in Tasks
       PROVE  GuessesFit(q, conn', failures[q], guessed[q], locked[q], now)
  <2>1. /\ failures[q] \in Queue /\ guessed[q] \in Queue /\ locked[q] \in Nat
        /\ GuessesFit(q, conn, failures[q], guessed[q], locked[q], now)
    BY <1>1, DoorLimits DEF DoorInv, DoorWorld
  <2> QED
    BY <1>1, <1>6, <2>1, FewerPassed
<1> QED
  BY <1>2, <1>11, <1>13, <1>14, <1>15 DEF DoorInv

LEMMA DoorStep == DoorInv /\ [HostDoor!Next]_doorVars => DoorInv'
<1>1. SUFFICES ASSUME DoorInv, [HostDoor!Next]_doorVars PROVE DoorInv'
  OBVIOUS
<1>2. CASE UNCHANGED doorVars
  BY <1>1, <1>2 DEF doorVars, DoorInv, DoorWorld
<1>3. CASE HostDoor!Tick
  BY <1>1, <1>3, TickStep
<1>4. ASSUME NEW c \in Addresses, NEW p \in Tasks, HostDoor!Accept(c, p) PROVE DoorInv'
  BY <1>1, <1>4, AcceptStep
<1>5. ASSUME NEW c \in Addresses,
             \/ HostDoor!ShakesHands(c) \/ HostDoor!HangsUp(c) \/ HostDoor!Asks(c)
             \/ HostDoor!GoodToken(c) \/ HostDoor!BadToken(c) \/ HostDoor!Pairs(c)
             \/ HostDoor!Answered(c)
      PROVE  DoorInv'
  BY <1>1, <1>5, ShakesHandsStep, HangsUpStep, AsksStep, GoodTokenStep, BadTokenStep,
     PairsStep, AnsweredStep
<1> QED
  BY <1>1, <1>2, <1>3, <1>4, <1>5 DEF HostDoor!Next

(* What the counts stand for is what the limits promise. *)
LEMMA DoorHolds == DoorInv => HostDoor!GuessesBounded /\ HostDoor!LockDeserved
<1>1. SUFFICES ASSUME DoorInv PROVE HostDoor!GuessesBounded /\ HostDoor!LockDeserved
  OBVIOUS
<1>2. /\ now \in Nat /\ overall \in Queue /\ tried \in Queue
      /\ perPeer \in [Tasks -> Queue] /\ failures \in [Tasks -> Queue]
      /\ guessed \in [Tasks -> Queue]
  BY <1>1, DoorLimits DEF DoorInv, DoorWorld
<1>3. ASSUME NEW p \in Tasks
      PROVE  Cardinality({e \in RecentAt(tried, now) : e.peer = p}) <= PerPeer
  <2> DEFINE mine == {e \in RecentAt(tried, now) : e.peer = p}
  <2>1. mine \subseteq RecentAt(perPeer[p], now)
    BY <1>1 DEF DoorInv, PeerFits, RecentAt
  <2>2. RecentAt(perPeer[p], now) \in Queue
    BY <1>2, RecentQueue
  <2>3. /\ mine \in Queue /\ Cardinality(mine) <= Cardinality(RecentAt(perPeer[p], now))
        /\ Cardinality(RecentAt(perPeer[p], now)) \in Nat
    BY <2>1, <2>2, QueueCount
  <2>4. Cardinality(mine) \in Nat
    BY <2>3, QueueCount
  <2>5. Cardinality(RecentAt(perPeer[p], now)) <= PerPeer
    BY <1>1 DEF DoorInv, PeerFits
  <2> HIDE DEF mine
  <2>6. Cardinality(mine) <= PerPeer
    BY <2>3, <2>4, <2>5, DoorLimits
  <2> QED
    BY <2>6 DEF mine
<1>4. Cardinality(RecentAt(tried, now)) <= Overall
  BY <1>1 DEF DoorInv, AllFit
<1>5. ASSUME NEW p \in Tasks
      PROVE  Cardinality(RecentAt(guessed[p], now)) <= MaxBad + Cardinality(Addresses)
  <2> DEFINE gs == guessed[p]
             counted == RecentAt(failures[p], now)
             rest == Uncounted(failures[p], guessed[p], now)
  <2>1. GuessesFit(p, conn, failures[p], guessed[p], locked[p], now)
    BY <1>1 DEF DoorInv
  <2>2. counted \in Queue /\ rest \in Queue /\ RecentAt(guessed[p], now) \in Queue
    BY <1>2, RecentQueue, UncountedCount
  <2>3. RecentAt(guessed[p], now) \subseteq counted \cup rest
    BY DEF RecentAt, Uncounted
  <2>4. /\ Cardinality(counted) <= MaxBad
        /\ Cardinality(rest) + Cardinality(Passed(conn, p)) <= Cardinality(Addresses)
    BY <2>1 DEF GuessesFit
  <2> HIDE DEF counted, rest
  <2>5. /\ IsFiniteSet(counted) /\ IsFiniteSet(rest)
        /\ Cardinality(counted) \in Nat /\ Cardinality(rest) \in Nat
    BY <2>2, QueueCount
  <2>6. /\ IsFiniteSet(counted \cup rest)
        /\ Cardinality(counted \cup rest)
             = Cardinality(counted) + Cardinality(rest) - Cardinality(counted \cap rest)
    BY <2>5, FS_Union
  <2>7. Cardinality(counted \cap rest) \in Nat
    BY <2>5, FS_Intersection, FS_CardinalityType
  <2>8. Cardinality(RecentAt(guessed[p], now)) <= Cardinality(counted \cup rest)
    BY <2>3, <2>6, FS_Subset
  <2>9. Cardinality(RecentAt(guessed[p], now)) \in Nat
    BY <2>2, QueueCount
  <2> QED
    BY <2>4, <2>5, <2>6, <2>7, <2>8, <2>9, PassedCount, DoorLimits
<1>6. HostDoor!GuessesBounded
  BY <1>3, <1>4, <1>5, SameCount, RecentIs DEF HostDoor!GuessesBounded
<1>7. \A p \in Tasks : locked[p] = now + LockedFor
                          => Cardinality(RecentAt(guessed[p], now)) > MaxBad
  BY <1>1 DEF DoorInv, GuessesFit
<1>8. shut # HostDoor!Nobody
        => Cardinality({e \in RecentAt(tried, now) : e.peer # shut}) + PerPeer > Overall
  BY <1>1 DEF DoorInv, NotRefusedFor, OfOthers
<1> QED
  BY <1>6, <1>7, <1>8, SameCount, RecentIs DEF HostDoor!LockDeserved

LEMMA DoorAlways == AllSpec => [](AtDoor => DoorInv)
<1>1. AllInit => (AtDoor => DoorInv)
  BY DoorInit DEF AllInit, AtStore, AtDoor, OnMac, AtSetup, Called
<1>2. (AtDoor => DoorInv) /\ [AllNext]_allVars => (AtDoor => DoorInv)'
  <2>1. SUFFICES ASSUME AtDoor => DoorInv, [AllNext]_allVars, AtDoor' PROVE DoorInv'
    OBVIOUS
  <2>2. UNCHANGED part
    BY <2>1 DEF AllNext, allVars
  <2>3. AtDoor /\ DoorInv
    BY <2>1, <2>2 DEF AtDoor
  <2>4. [HostDoor!Next]_doorVars
    BY <2>1, <2>3 DEF AllNext, allVars, AtStore, AtDoor, OnMac, AtSetup, Called
  <2> QED
    BY <2>3, <2>4, DoorStep
<1> QED
  BY <1>1, <1>2, PTL DEF AllSpec

(* However a peer spreads its guesses over connections and over time, it   *)
(* has no more of them than the limits say, and nobody is locked out or    *)
(* refused for what another peer did (limits.rs): for any number of peers  *)
(* and connections, and any limits.                                        *)
THEOREM LimitsAlwaysHold == AllSpec => []LimitsHold
<1>1. (AtDoor => DoorInv) => LimitsHold
  BY DoorHolds DEF LimitsHold
<1> QED
  BY <1>1, DoorAlways, PTL

(***************************************************************************)
(* Setting a host up, and reaching it (Setup).                             *)
(***************************************************************************)

(* The bounds, for what follows. *)
USE BoundsAssumption, KillsAssumption

(* Where a process may be, and where the service may. *)
Turns == {"idle", "check", "adopt config", "adopt state", "load", "ensure", "identity",
          "stage", "key", "empty", "cert", "read", "up", "issue", "wait", "unit", "start",
          "default", "network", "lans", "retire", "remove"}
ServerTurns == {"idle", "check", "adopt config", "adopt state", "load", "ensure", "identity",
                "stage", "key", "empty", "cert", "read", "up"}
(* Steps a process reaches only once the new folder is there. *)
HasFolder == {"identity", "stage", "key", "empty", "cert", "read", "up", "issue", "wait"}
Proc == [kind : Host!Kinds \cup {"none"}, at : Turns, key : 0..MaxKeys,
         allow : SUBSET (Looks \cup Addresses), asked : SUBSET Addresses]

(* What each variable holds. *)
HostWorld ==
  /\ procs \in [Host!Processes -> Proc]
  /\ units \in [old : {"none", "off", "on", "orphan"}, new : {"none", "off", "on"}]
  /\ states \in [old : Host!Folder \cup {None}, new : Host!Folder \cup {None}]
  /\ configs \in [old : Host!Config \cup {None}, new : Host!Config \cup {None}]
  /\ pins \in [Tasks -> 0..MaxKeys] /\ accepted \subseteq Addresses
  /\ spoiled \subseteq {"early", "race", "torn"}
  /\ keys \in 0..MaxKeys /\ started \in 0..MaxCommands /\ cuts \in 0..MaxKills

(* The service only serves, and is up only where the old one is not. *)
Roles ==
  /\ procs[NoProcess].kind \in {"serve", "none"} /\ procs[NoProcess].at \in ServerTurns
  /\ procs[NoProcess].at = "up" => ~Host!OldRuns

(* A process that writes an identity has drawn it, one that reads finds it. *)
KeyDrawn(p) ==
  /\ procs[p].at \in {"key", "empty", "cert", "issue"} => procs[p].key # 0
  /\ procs[p].at = "read" => states.new.cert # 0

(* The old folder holds the first identity, and is there while the old     *)
(* service runs; of the old and the new one there is one, unless two       *)
(* processes were about it at once.                                        *)
FoldersHeld ==
  /\ Host!OldRuns =>
       /\ states.old # None
       /\ \A p \in Host!Processes : procs[p].at \notin {"adopt config", "adopt state"}
  /\ states.old # None => states.old.key = 1 /\ states.old.cert = 1
  /\ spoiled = {} => states.old = None \/ states.new = None
  /\ \A p \in Host!Processes : procs[p].at \in HasFolder => states.new # None
  /\ \A p \in Host!Processes : KeyDrawn(p)

(* Until two processes make an identity at once: one makes it at a time,   *)
(* its files hold what it drew so far, and a whole one is one key's.       *)
MakesAlone ==
  \A p, q \in Host!Processes :
    procs[p].at \in Host!Making /\ procs[q].at \in Host!Making => p = q

MadeBy(p) ==
  LET new == states.new  key == procs[p].key IN
  /\ procs[p].at \in {"stage", "key", "empty"} => new.cert = 0
  /\ procs[p].at = "key" => new.staged = key /\ key # 0
  /\ procs[p].at \in {"empty", "cert"} => new.key = key /\ key # 0
  /\ procs[p].at = "cert" => new.cert = Host!Emptied
  /\ procs[p].at = "read" => new.cert # 0
  /\ procs[p].at = "up" => new.cert \notin {0, Host!Emptied} /\ new.cert = key

Whole ==
  states.new # None =>
    /\ states.new.cert \notin {0, Host!Emptied} => states.new.cert = states.new.key
    /\ states.new.cert = Host!Emptied => \E p \in Host!Processes : procs[p].at = "cert"

OneIdentity == spoiled = {} => MakesAlone /\ Whole /\ \A p \in Host!Processes : MadeBy(p)

Current(folders) == IF folders.new # None THEN folders.new ELSE folders.old

(* What a Mac pinned is the key and the certificate of the folder in use,  *)
(* which knows the Mac.                                                    *)
PinsKnown ==
  spoiled = {} => \A m \in Tasks : pins[m] # 0 =>
    /\ Current(states) # None
    /\ Current(states).key = pins[m] /\ Current(states).cert = pins[m]
    /\ m \in Current(states).clients

SetupInv == HostWorld /\ Roles /\ FoldersHeld /\ OneIdentity /\ PinsKnown

LEMMA NewFolders ==
  /\ Host!NewFolder \in Host!Folder /\ Host!NewFolder # None
  /\ Host!NewConfig \in Host!Config /\ Host!NewConfig # None
<1>1. Host!NewFolder \in Host!Folder
  BY DEF Host!NewFolder, Host!Folder, Host!Emptied
<1>2. Host!NewConfig \in Host!Config
  BY DEF Host!NewConfig, Host!Config
<1> QED
  BY <1>1, <1>2, NoneAssumption

LEMMA IdleProc == Host!Idle \in Proc /\ Host!Idle.at = "idle" /\ Host!Idle.kind = "none"
BY DEF Host!Idle, Proc, Turns, Host!Kinds

LEMMA SetupStarts == ASSUME Host!Init PROVE SetupInv
<1>1. procs = [p \in Host!Processes |-> Host!Idle] /\ spoiled = {} /\ started = 0 /\ cuts = 0
      /\ NoProcess \in Host!Processes
  BY DEF Host!Init, Host!Processes
<1>2. procs \in [Host!Processes -> Proc]
  BY <1>1, IdleProc
<1>3. CASE /\ units = [old |-> "none", new |-> "none"]
           /\ states = [old |-> None, new |-> None] /\ configs = states
           /\ pins = [m \in Tasks |-> 0] /\ accepted = {} /\ keys = 0
  <2>1. HostWorld
    BY <1>1, <1>2, <1>3 DEF HostWorld
  <2> QED
    BY <1>1, <1>3, <2>1, IdleProc DEF SetupInv, Roles, FoldersHeld, KeyDrawn, OneIdentity, PinsKnown, Host!OldRuns,
       MakesAlone, Whole, MadeBy, HasFolder, ServerTurns, Host!Making
<1>4. ASSUME NEW m \in Tasks, NEW lans \in SUBSET Addresses,
             units = [old |-> "on", new |-> "none"],
             states = [new |-> None, old |->
                    [Host!NewFolder EXCEPT !.key = 1, !.cert = 1, !.clients = {m}]],
             pins = [n \in Tasks |-> IF n = m THEN 1 ELSE 0],
             configs = [new |-> None, old |-> [default |-> TRUE, allow |->
                    IF lans = {} THEN {} ELSE Looks \cup lans]],
             accepted = lans, keys = 1
      PROVE  SetupInv
  <2>1. /\ states.old = [key |-> 1, cert |-> 1, staged |-> 0, clients |-> {m}, codes |-> {}]
        /\ states.new = None /\ states \in [old : {states.old}, new : {None}]
    BY <1>4 DEF Host!NewFolder
  <2>2. states.old \in Host!Folder
    BY <2>1 DEF Host!Folder, Host!Emptied
  <2>3. configs.old \in Host!Config /\ configs \in [old : {configs.old}, new : {None}]
    BY <1>4 DEF Host!Config
  <2>4. HostWorld
    BY <1>1, <1>2, <1>4, <2>1, <2>2, <2>3 DEF HostWorld
  <2> QED
    BY ZenonT(60), <1>1, <1>4, <2>1, <2>2, <2>4, IdleProc, NoneAssumption
       DEF SetupInv, Roles, FoldersHeld, KeyDrawn, OneIdentity, PinsKnown, Host!OldRuns, Current,
       MakesAlone, Whole, MadeBy, HasFolder, ServerTurns, Host!Making
<1> QED
  BY <1>3, <1>4 DEF Host!Init

(* Processes go on, and the folders stay as they are. *)
HasTurned(p) ==
  LET r == procs'[p] IN
  /\ r.at \in Host!Making => procs[p].at = r.at /\ procs[p].key = r.key
  /\ r.at \in HasFolder => states.new # None
  /\ r.at \in {"adopt config", "adopt state"} => ~Host!OldRuns
  /\ r.at = "issue" => r.key # 0
  /\ r.at = "read" => states.new.cert # 0
  /\ spoiled' = {} =>
       /\ procs[p].at = "cert" => r.at = "cert"
       /\ r.at = "up" => states.new.cert \notin {0, Host!Emptied} /\ states.new.cert = r.key
  /\ p = NoProcess => /\ r.kind \in {"serve", "none"} /\ r.at \in ServerTurns
                      /\ r.at = "up" => ~Host!OldRuns

Settings ==
  /\ units' \in [old : {"none", "off", "on", "orphan"}, new : {"none", "off", "on"}]
  /\ Host!OldRuns' => Host!OldRuns
  /\ configs' \in [old : Host!Config \cup {None}, new : Host!Config \cup {None}]
  /\ accepted' \subseteq Addresses
  /\ spoiled \subseteq spoiled' /\ spoiled' \subseteq {"early", "race", "torn"}
  /\ started' \in 0..MaxCommands /\ cuts' \in 0..MaxKills

LEMMA FoldersStay ==
  ASSUME SetupInv, procs' \in [Host!Processes -> Proc],
         \A p \in Host!Processes : procs'[p] = procs[p] \/ HasTurned(p),
         Settings, UNCHANGED <<states, pins, keys>>
  PROVE  SetupInv'
<1>1. HostWorld'
  BY DEF SetupInv, HostWorld, Settings
<1>2. NoProcess \in Host!Processes
  BY DEF Host!Processes
<1>3. Roles'
  BY <1>2 DEF SetupInv, Roles, HasTurned, Settings
<1>4. FoldersHeld'
  <2>1. ASSUME NEW p \in Host!Processes PROVE KeyDrawn(p)'
    BY DEF SetupInv, FoldersHeld, HasTurned, KeyDrawn, Host!Making
  <2> QED
    BY <2>1 DEF SetupInv, FoldersHeld, HasTurned, Settings
<1>5. ASSUME spoiled' = {} PROVE MakesAlone' /\ Whole' /\ \A p \in Host!Processes : MadeBy(p)'
  <2>1. MakesAlone /\ Whole /\ \A p \in Host!Processes : MadeBy(p)
    BY <1>5 DEF SetupInv, OneIdentity, Settings
  <2>2. MakesAlone'
    BY <2>1 DEF MakesAlone, HasTurned
  <2>3. Whole'
    BY <1>5, <2>1 DEF Whole, Host!Emptied, HasTurned
  <2>4. ASSUME NEW p \in Host!Processes PROVE MadeBy(p)'
    <3>1. CASE procs'[p] = procs[p]
      BY <2>1, <3>1 DEF MadeBy, Host!Emptied
    <3>2. CASE HasTurned(p)
      BY <1>5, <2>1, <3>2 DEF MadeBy, Host!Emptied, Host!Making, HasTurned
    <3> QED
      BY <3>1, <3>2
  <2> QED
    BY <2>2, <2>3, <2>4
<1>6. PinsKnown'
  BY DEF SetupInv, PinsKnown, Current, Settings
<1> QED
  BY <1>1, <1>3, <1>4, <1>5, <1>6 DEF SetupInv, OneIdentity

LEMMA TurnsOver ==
  ASSUME SetupInv, NEW p \in Host!Processes, NEW r \in Proc, procs' = [procs EXCEPT ![p] = r],
         HasTurned(p), Settings, UNCHANGED <<states, pins, keys>>
  PROVE  SetupInv'
<1>1. procs \in [Host!Processes -> Proc]
  BY DEF SetupInv, HostWorld
<1>2. procs' \in [Host!Processes -> Proc] /\ \A q \in Host!Processes : q # p => procs'[q] = procs[q]
  BY <1>1
<1> QED
  BY <1>2, FoldersStay

LEMMA Going ==
  ASSUME SetupInv, NEW p \in Host!Processes, NEW at \in Turns, Host!Goto(p, at)
  PROVE  \E r \in Proc : /\ procs' = [procs EXCEPT ![p] = r]
                         /\ r = procs'[p] /\ r = [procs[p] EXCEPT !.at = at]
<1>1. procs \in [Host!Processes -> Proc]
  BY DEF SetupInv, HostWorld
<1>2. procs' = [procs EXCEPT ![p] = [procs[p] EXCEPT !.at = at]]
  BY <1>1 DEF Host!Goto
<1>3. [procs[p] EXCEPT !.at = at] \in Proc
  BY <1>1 DEF Proc
<1> QED
  BY <1>1, <1>2, <1>3

LEMMA Ending ==
  ASSUME SetupInv, NEW p \in Host!Processes, Host!Ends(p)
  PROVE  Host!Idle \in Proc /\ procs' = [procs EXCEPT ![p] = Host!Idle] /\ procs'[p] = Host!Idle
BY IdleProc DEF SetupInv, HostWorld, Host!Ends

LEMMA SettingsStay ==
  ASSUME SetupInv, UNCHANGED <<units, configs, accepted, spoiled, started, cuts>>
  PROVE  Settings
BY DEF SetupInv, HostWorld, Settings, Host!OldRuns

(* An end of a process, whole or not, loses nothing if it isn't torn. *)
LEMMA EndsWell ==
  ASSUME SetupInv, NEW p \in Host!Processes, Host!Ends(p), procs[p].at # "cert" \/ spoiled' # {},
         Settings, UNCHANGED <<states, pins, keys>>
  PROVE  SetupInv'
<1>1. HasTurned(p)
  BY Ending, IdleProc DEF HasTurned, Host!Making, HasFolder, ServerTurns
<1> QED
  BY <1>1, Ending, TurnsOver

LEMMA GoesWell ==
  ASSUME SetupInv, NEW p \in Host!Processes, NEW at \in Turns, Host!Goto(p, at),
         procs[p].at # "cert",
         at \notin Host!Making \cup {"up", "read", "issue"},
         at \in HasFolder => procs[p].at \in HasFolder,
         at \in {"adopt config", "adopt state"} => ~Host!OldRuns,
         p = NoProcess => at \in ServerTurns,
         Settings, UNCHANGED <<states, pins, keys>>
  PROVE  SetupInv'
<1>1. PICK r \in Proc : /\ procs' = [procs EXCEPT ![p] = r]
                        /\ r = procs'[p] /\ r = [procs[p] EXCEPT !.at = at]
  BY Going
<1>2. r.at = at /\ r.kind = procs[p].kind
  BY <1>1 DEF SetupInv, HostWorld, Proc
<1>3. HasTurned(p)
  BY <1>1, <1>2 DEF HasTurned, SetupInv, Roles, FoldersHeld, ServerTurns
<1> QED
  BY <1>1, <1>3, TurnsOver

LEMMA StartKeeps ==
  ASSUME SetupInv, NEW p \in Host!Processes, NEW does \in Host!Kinds, Host!Start(p, does),
         p = NoProcess => does = "serve",
         UNCHANGED <<units, states, configs, pins, accepted, spoiled, keys, cuts>>,
         started' \in 0..MaxCommands
  PROVE  SetupInv'
<1> DEFINE at == IF does \in {"install", "setup"} THEN "retire" ELSE "check"
           r == [Host!Idle EXCEPT !.kind = does, !.at = at]
<1>1. r \in Proc /\ r.at = at /\ r.kind = does /\ procs' = [procs EXCEPT ![p] = r]
  BY IdleProc DEF Proc, Turns, Host!Start
<1>2. procs'[p] = r /\ procs[p].at = "idle"
  BY <1>1 DEF SetupInv, HostWorld, Host!Start
<1> HIDE DEF r
<1>3. HasTurned(p)
  BY <1>1, <1>2 DEF HasTurned, Host!Making, HasFolder, ServerTurns
<1>4. Settings
  BY DEF SetupInv, HostWorld, Settings, Host!OldRuns
<1> QED
  BY <1>1, <1>3, <1>4, TurnsOver

LEMMA CommandsKeep ==
  ASSUME SetupInv, NEW p \in Host!Processes, Host!CommandRuns(p)
  PROVE  SetupInv'
<1>1. PICK does \in Host!Kinds \ {"serve"} : Host!Start(p, does)
  BY DEF Host!CommandRuns
<1>2. p # NoProcess /\ started' \in 0..MaxCommands
  BY LoneAssumption DEF Host!CommandRuns, SetupInv, HostWorld
<1> QED
  BY <1>1, <1>2, StartKeeps DEF Host!CommandRuns

LEMMA ServeKeeps == ASSUME SetupInv, Host!Serve PROVE SetupInv'
<1>1. NoProcess \in Host!Processes /\ "serve" \in Host!Kinds /\ started' \in 0..MaxCommands
  BY DEF Host!Processes, Host!Kinds, Host!Serve, Host!bounds, SetupInv, HostWorld
<1> QED
  BY <1>1, StartKeeps DEF Host!Serve, Host!bounds

(* What a process at these places is not. *)
LEMMA CommandHere ==
  ASSUME SetupInv, NEW p \in Host!Processes, procs[p].at \notin ServerTurns
  PROVE  p # NoProcess
BY DEF SetupInv, Roles

LEMMA StopsOldKeep ==
  ASSUME SetupInv, NEW p \in Host!Processes, Host!StopOld(p)
  PROVE  SetupInv'
<1>1. /\ procs[p].at = "retire" /\ p # NoProcess
      /\ UNCHANGED <<states, configs, pins, accepted, spoiled, keys, started>>
  BY CommandHere DEF Host!StopOld, ServerTurns
<1>2. PICK at \in {"check", "remove"} : Host!Goto(p, at)
  BY DEF Host!StopOld
<1>3. units' = units \/ (units' = [units EXCEPT !.old = "off"] /\ units.old \in {"on", "off"})
  BY DEF Host!StopOld
<1>4. cuts' \in 0..MaxKills
  BY DEF Host!StopOld, Host!Kill, SetupInv, HostWorld
<1>5. Settings
  BY <1>1, <1>3, <1>4 DEF Settings, SetupInv, HostWorld, Host!OldRuns
<1>6. at \in Turns /\ at \notin Host!Making \cup {"up", "read", "issue"} \cup HasFolder
  BY <1>2 DEF Turns, Host!Making, HasFolder
<1> QED
  BY <1>1, <1>2, <1>5, <1>6, GoesWell

LEMMA RemovesOldKeep ==
  ASSUME SetupInv, NEW p \in Host!Processes, Host!RemoveOld(p)
  PROVE  SetupInv'
<1>1. /\ procs[p].at = "remove" /\ p # NoProcess /\ Host!Goto(p, "check")
      /\ units' = [units EXCEPT !.old = IF Host!OldRuns THEN "orphan" ELSE "none"]
      /\ UNCHANGED <<states, configs, pins, accepted, spoiled, keys, started, cuts>>
  BY CommandHere DEF Host!RemoveOld, ServerTurns, Host!bounds
<1>2. Settings
  BY <1>1 DEF Settings, SetupInv, HostWorld, Host!OldRuns
<1>3. "check" \in Turns /\ "check" \notin Host!Making \cup {"up", "read", "issue"} \cup HasFolder
  BY DEF Turns, Host!Making, HasFolder
<1> QED
  BY <1>1, <1>2, <1>3, GoesWell

LEMMA ChecksKeep ==
  ASSUME SetupInv, NEW p \in Host!Processes, Host!Check(p)
  PROVE  SetupInv'
<1>1. /\ procs[p].at = "check"
      /\ UNCHANGED <<units, states, configs, pins, accepted, spoiled, keys, started, cuts>>
  BY DEF Host!Check, Host!bounds
<1>2. PICK at \in {"load", "adopt config"} : Host!Goto(p, at) /\ (at = "adopt config" => ~Host!OldRuns)
  BY DEF Host!Check
<1>3. /\ at \in Turns /\ at \notin Host!Making \cup {"up", "read", "issue"} \cup HasFolder
      /\ at \in ServerTurns
  BY DEF Turns, Host!Making, HasFolder, ServerTurns
<1> QED
  BY <1>1, <1>2, <1>3, GoesWell, SettingsStay

LEMMA LoadsKeep ==
  ASSUME SetupInv, NEW p \in Host!Processes, Host!Load(p)
  PROVE  SetupInv'
<1> DEFINE at == CASE procs[p].kind = "install" -> "unit"
                   [] procs[p].kind = "setup"   -> "default"
                   [] OTHER                     -> "ensure"
           r == [procs[p] EXCEPT !.allow = Host!Allowed(Host!Settings), !.at = at]
<1>1. procs[p] \in Proc /\ procs[p].at = "load"
  BY DEF SetupInv, HostWorld, Host!Load
<1>2. Host!Allowed(Host!Settings) \in SUBSET (Looks \cup Addresses)
  BY NewFolders DEF Host!Allowed, Host!Settings, SetupInv, HostWorld, Host!NewConfig, Host!Config
<1>3. at \in {"unit", "default", "ensure"} /\ (p = NoProcess => at = "ensure")
  BY DEF SetupInv, Roles
<1>4. procs' = [procs EXCEPT ![p] = r]
  BY DEF Host!Load, SetupInv, HostWorld
<1> HIDE DEF at
<1>5. r \in Proc /\ r.at = at /\ r.kind = procs[p].kind
  BY <1>1, <1>2, <1>3 DEF Proc, Turns
<1> HIDE DEF r
<1>6. procs'[p] = r
  BY <1>4 DEF SetupInv, HostWorld
<1>7. HasTurned(p)
  BY <1>1, <1>3, <1>5, <1>6 DEF HasTurned, Host!Making, HasFolder, ServerTurns, SetupInv, Roles
<1> QED
  BY <1>4, <1>5, <1>7, TurnsOver, SettingsStay DEF Host!Load, Host!bounds

LEMMA AdoptsKeep ==
  ASSUME SetupInv, NEW p \in Host!Processes, Host!Adopt(p)
  PROVE  SetupInv'
<1>1. /\ procs[p].at \in {"adopt config", "adopt state"} /\ ~Host!OldRuns
      /\ UNCHANGED <<units, pins, accepted, spoiled, keys, started, cuts>>
  BY DEF Host!Adopt, Host!bounds, SetupInv, FoldersHeld
<1>2. CASE /\ configs' = Host!Adopted(configs)
           /\ Host!Goto(p, "adopt state") /\ UNCHANGED states
  <2>1. Settings
    BY <1>1, <1>2 DEF Settings, SetupInv, HostWorld, Host!OldRuns, Host!Adopted
  <2>2. /\ "adopt state" \in Turns /\ "adopt state" \in ServerTurns
        /\ "adopt state" \notin Host!Making \cup {"up", "read", "issue"} \cup HasFolder
    BY DEF Turns, Host!Making, HasFolder, ServerTurns
  <2> QED
    BY <1>1, <1>2, <2>1, <2>2, GoesWell
<1>3. CASE /\ states' = Host!Adopted(states)
           /\ Host!Goto(p, "load") /\ UNCHANGED configs
  <2>1. Settings
    BY <1>1, <1>3, SettingsStay
  <2>2. /\ "load" \in Turns /\ "load" \in ServerTurns
        /\ "load" \notin Host!Making \cup {"up", "read", "issue"} \cup HasFolder
    BY DEF Turns, Host!Making, HasFolder, ServerTurns
  <2>3. CASE states.new # None
    BY <1>1, <1>3, <2>1, <2>2, <2>3, GoesWell DEF Host!Adopted
  <2>4. CASE states.new = None
    <3>1. states' = [old |-> None, new |-> states.old]
      BY <1>3, <2>4 DEF Host!Adopted
    <3>2. PICK r \in Proc : /\ procs' = [procs EXCEPT ![p] = r]
                            /\ r = procs'[p] /\ r = [procs[p] EXCEPT !.at = "load"]
      BY <1>3, <2>2, Going
    <3>3. procs' \in [Host!Processes -> Proc] /\ procs'[p].at = "load"
          /\ procs'[p].kind = procs[p].kind
          /\ \A q \in Host!Processes : q # p => procs'[q] = procs[q]
      BY <3>2 DEF SetupInv, HostWorld, Proc
    <3>4. HostWorld'
      <4>1. states' \in [old : Host!Folder \cup {None}, new : Host!Folder \cup {None}]
        BY <3>1 DEF SetupInv, HostWorld
      <4> QED
        BY <1>1, <1>3, <3>3, <4>1 DEF SetupInv, HostWorld
    <3>5. Roles'
      <4>1. NoProcess \in Host!Processes
        BY DEF Host!Processes
      <4> QED
        BY <1>1, <2>2, <3>3, <4>1 DEF SetupInv, Roles, Host!OldRuns
    <3>6. \A q \in Host!Processes : procs'[q].at \notin HasFolder
      BY <2>2, <2>4, <3>3 DEF SetupInv, FoldersHeld
    <3>7. FoldersHeld'
      BY <1>1, <3>1, <3>6 DEF SetupInv, FoldersHeld, Host!OldRuns, KeyDrawn, HasFolder
    <3>8. states.old # None => states.old.key = 1 /\ states.old.cert = 1
      BY DEF SetupInv, FoldersHeld
    <3>9. OneIdentity'
      BY <3>1, <3>6, <3>8 DEF OneIdentity, Whole, MakesAlone, MadeBy, HasFolder, Host!Making, Host!Emptied
    <3>10. PinsKnown'
      BY <1>1, <2>4, <3>1 DEF SetupInv, PinsKnown, Current
    <3> QED
      BY <3>4, <3>5, <3>7, <3>9, <3>10 DEF SetupInv
  <2> QED
    BY <2>3, <2>4
<1> QED
  BY <1>2, <1>3 DEF Host!Adopt

LEMMA LooksForKeep ==
  ASSUME SetupInv, NEW p \in Host!Processes, Host!LookForIdentity(p)
  PROVE  SetupInv'
<1>1. /\ procs[p].at = "identity" /\ states.new # None
      /\ UNCHANGED <<units, states, configs, pins, accepted, keys, started, cuts>>
  BY DEF Host!LookForIdentity, Host!bounds, SetupInv, FoldersHeld, HasFolder
<1>2. CASE /\ states.new.key # 0 /\ states.new.cert # 0
           /\ Host!Goto(p, "read") /\ UNCHANGED spoiled
  <2>1. PICK r \in Proc : /\ procs' = [procs EXCEPT ![p] = r]
                          /\ r = procs'[p] /\ r = [procs[p] EXCEPT !.at = "read"]
    BY <1>2, Going DEF Turns
  <2>2. r.at = "read" /\ r.kind = procs[p].kind
    BY <2>1 DEF SetupInv, HostWorld, Proc
  <2>3. HasTurned(p)
    BY <1>1, <1>2, <2>1, <2>2 DEF HasTurned, SetupInv, Roles, Host!Making, ServerTurns
  <2> QED
    BY <1>1, <1>2, <2>1, <2>3, TurnsOver, SettingsStay
<1>3. CASE /\ ~(states.new.key # 0 /\ states.new.cert # 0)
           /\ Host!Goto(p, "stage")
           /\ spoiled' = spoiled \cup
                 IF \E q \in Host!Processes : procs[q].at \in Host!Making THEN {"race"} ELSE {}
  <2>1. PICK r \in Proc : /\ procs' = [procs EXCEPT ![p] = r]
                          /\ r = procs'[p] /\ r = [procs[p] EXCEPT !.at = "stage"]
    BY <1>3, Going DEF Turns
  <2>2. r.at = "stage" /\ r.kind = procs[p].kind /\ r.key = procs[p].key
    BY <2>1 DEF SetupInv, HostWorld, Proc
  <2>3. procs' \in [Host!Processes -> Proc] /\ procs'[p] = r /\ NoProcess \in Host!Processes
        /\ \A q \in Host!Processes : q # p => procs'[q] = procs[q]
    BY <2>1 DEF SetupInv, HostWorld, Host!Processes
  <2>4. HostWorld'
    BY <1>1, <1>3, <2>3 DEF SetupInv, HostWorld
  <2>5. Roles'
    BY <1>1, <2>2, <2>3 DEF SetupInv, Roles, ServerTurns, Host!OldRuns
  <2>6. FoldersHeld'
    BY <1>1, <1>3, <2>2, <2>3 DEF SetupInv, FoldersHeld, Host!OldRuns, KeyDrawn
  <2>7. ASSUME spoiled' = {} PROVE MakesAlone' /\ Whole' /\ \A q \in Host!Processes : MadeBy(q)'
    <3>1. /\ spoiled = {} /\ MakesAlone /\ Whole /\ \A q \in Host!Processes : MadeBy(q)
          /\ \A q \in Host!Processes : procs[q].at \notin Host!Making
      BY <1>3, <2>7 DEF SetupInv, OneIdentity
    <3>2. states.new.cert = 0
      BY <1>1, <1>3, <3>1 DEF Whole, Host!Making
    <3>3. MakesAlone'
      BY <2>2, <2>3, <3>1 DEF MakesAlone
    <3>4. Whole'
      BY <1>1, <3>2 DEF Whole, Host!Emptied
    <3>5. MadeBy(p)'
      BY <1>1, <2>2, <2>3, <3>2 DEF MadeBy
    <3>6. ASSUME NEW q \in Host!Processes, q # p PROVE MadeBy(q)'
      BY <1>1, <2>3, <3>1, <3>6 DEF MadeBy, Host!Emptied
    <3> QED
      BY <3>3, <3>4, <3>5, <3>6
  <2>8. PinsKnown'
    BY <1>1, <1>3 DEF SetupInv, PinsKnown, Current
  <2> QED
    BY <2>4, <2>5, <2>6, <2>7, <2>8 DEF SetupInv, OneIdentity
<1> QED
  BY <1>2, <1>3 DEF Host!LookForIdentity

LEMMA EnsuresKeep ==
  ASSUME SetupInv, NEW p \in Host!Processes, Host!Ensure(p)
  PROVE  SetupInv'
<1>1. /\ procs[p].at = "ensure"
      /\ UNCHANGED <<units, configs, pins, accepted, keys, started, cuts>>
      /\ Host!Goto(p, "identity") \/ Host!Ends(p)
  BY DEF Host!Ensure, Host!bounds
<1>2. CASE states.new # None
  <2>1. UNCHANGED <<states, spoiled>>
    BY <1>2 DEF Host!Ensure
  <2>2. CASE Host!Ends(p)
    BY <1>1, <2>1, <2>2, EndsWell, SettingsStay
  <2>3. CASE Host!Goto(p, "identity")
    <3>1. PICK r \in Proc : /\ procs' = [procs EXCEPT ![p] = r]
                            /\ r = procs'[p] /\ r = [procs[p] EXCEPT !.at = "identity"]
      BY <2>3, Going DEF Turns
    <3>2. r.at = "identity" /\ r.kind = procs[p].kind
      BY <3>1 DEF SetupInv, HostWorld, Proc
    <3>3. HasTurned(p)
      BY <1>1, <1>2, <3>1, <3>2 DEF HasTurned, SetupInv, Roles, Host!Making, ServerTurns
    <3> QED
      BY <1>1, <2>1, <3>1, <3>3, TurnsOver, SettingsStay
  <2> QED
    BY <1>1, <2>2, <2>3
<1>3. CASE states.new = None
  <2>1. /\ states' = [states EXCEPT !.new = Host!NewFolder]
        /\ spoiled' = spoiled \cup IF states.old # None THEN {"early"} ELSE {}
    BY <1>3 DEF Host!Ensure
  <2>2. PICK r \in Proc : /\ procs' = [procs EXCEPT ![p] = r]
                          /\ r.at \in {"idle", "identity"}
                          /\ r.kind \in {procs[p].kind, "none"}
    <3>1. CASE Host!Ends(p)
      BY <3>1, Ending, IdleProc
    <3>2. CASE Host!Goto(p, "identity")
      <4>1. PICK r \in Proc : /\ procs' = [procs EXCEPT ![p] = r]
                              /\ r = procs'[p] /\ r = [procs[p] EXCEPT !.at = "identity"]
        BY <3>2, Going DEF Turns
      <4>2. r.at = "identity" /\ r.kind = procs[p].kind
        BY <4>1 DEF SetupInv, HostWorld, Proc
      <4> QED
        BY <4>1, <4>2
    <3> QED
      BY <1>1, <3>1, <3>2
  <2>3. procs' \in [Host!Processes -> Proc] /\ procs'[p] = r /\ NoProcess \in Host!Processes
        /\ \A q \in Host!Processes : q # p => procs'[q] = procs[q]
    BY <2>2 DEF SetupInv, HostWorld, Host!Processes
  <2>4. /\ states' \in [old : Host!Folder \cup {None}, new : Host!Folder \cup {None}]
        /\ states'.new = Host!NewFolder /\ states'.old = states.old /\ states'.new # None
    BY <2>1, NewFolders DEF SetupInv, HostWorld
  <2>5. HostWorld'
    BY <1>1, <2>1, <2>3, <2>4 DEF SetupInv, HostWorld
  <2>6. Roles'
    BY <1>1, <2>2, <2>3 DEF SetupInv, Roles, ServerTurns, Host!OldRuns
  <2>7. \A q \in Host!Processes : procs'[q].at \notin HasFolder \ {"identity"}
    BY <1>3, <2>2, <2>3 DEF SetupInv, FoldersHeld, HasFolder
  <2>8. FoldersHeld'
    BY <1>1, <2>1, <2>2, <2>3, <2>4, <2>7 DEF SetupInv, FoldersHeld, Host!OldRuns, KeyDrawn, HasFolder
  <2>9. OneIdentity'
    BY <2>4, <2>7 DEF OneIdentity, Whole, MakesAlone, MadeBy, HasFolder, Host!Making, Host!Emptied,
       Host!NewFolder
  <2>10. PinsKnown'
    BY <1>1, <1>3, <2>1 DEF SetupInv, PinsKnown, Current
  <2> QED
    BY <2>5, <2>6, <2>8, <2>9, <2>10 DEF SetupInv
<1> QED
  BY <1>2, <1>3

(* What is true while no identity is spoiled. *)
LEMMA Unspoiled ==
  ASSUME SetupInv, spoiled = {}
  PROVE  MakesAlone /\ Whole /\ \A q \in Host!Processes : MadeBy(q)
BY DEF SetupInv, OneIdentity

(* An identity is made in steps, and as long as it isn't whole no Mac has  *)
(* pinned a key.                                                           *)
Makes(p, r, new) ==
  /\ r.at # "read" => r.key # 0
  /\ new.cert = 0 => states.new.cert = 0 /\ r.at # "read"
  /\ procs[p].at \in {"stage", "key", "empty", "cert"}
  /\ procs' = [procs EXCEPT ![p] = r] /\ r.kind = procs[p].kind
  /\ states' = [states EXCEPT !.new = new] /\ new.clients = states.new.clients
  /\ \/ procs[p].at = "stage" /\ r.at = "key"
     \/ procs[p].at = "key" /\ r.at = "empty"
     \/ procs[p].at = "empty" /\ r.at = "cert"
     \/ procs[p].at = "cert" /\ r.at = "read"
  /\ UNCHANGED <<units, configs, pins, accepted, spoiled, started, cuts>> /\ keys' \in 0..MaxKeys
  /\ spoiled = {} =>
       /\ new.cert \notin {0, Host!Emptied} => new.cert = new.key
       /\ new.cert = Host!Emptied => r.at = "cert"
       /\ MadeBy(p)'

LEMMA MakingKeeps ==
  ASSUME SetupInv, NEW p \in Host!Processes, NEW r \in Proc, NEW new \in Host!Folder,
         Makes(p, r, new)
  PROVE  SetupInv'
<1>0. /\ procs' = [procs EXCEPT ![p] = r] /\ states' = [states EXCEPT !.new = new]
      /\ r.kind = procs[p].kind /\ new.clients = states.new.clients
      /\ procs[p].at \in {"stage", "key", "empty", "cert"}
      /\ UNCHANGED <<units, configs, pins, accepted, spoiled, started, cuts>> /\ keys' \in 0..MaxKeys
  BY DEF Makes
<1>1. /\ procs'[p] = r /\ r.at \in {"key", "empty", "cert", "read"}
      /\ procs[p].at = "cert" => r.at = "read"
  BY DEF SetupInv, HostWorld, Makes
<1>2. spoiled = {} =>
        /\ new.cert \notin {0, Host!Emptied} => new.cert = new.key
        /\ new.cert = Host!Emptied => r.at = "cert"
        /\ MadeBy(p)'
  BY DEF Makes
<1>3. procs' \in [Host!Processes -> Proc] /\ NoProcess \in Host!Processes
      /\ \A q \in Host!Processes : q # p => procs'[q] = procs[q]
  BY <1>0, <1>1 DEF SetupInv, HostWorld, Host!Processes
<1>4. /\ states' \in [old : Host!Folder \cup {None}, new : Host!Folder \cup {None}]
      /\ states'.new = new /\ states'.old = states.old /\ new # None /\ states.new # None
  BY <1>0, NoneAssumption DEF SetupInv, HostWorld, FoldersHeld, HasFolder
<1>5. HostWorld'
  BY <1>0, <1>2, <1>3, <1>4 DEF SetupInv, HostWorld
<1>6. Roles'
  BY <1>0, <1>1, <1>2, <1>3 DEF SetupInv, Roles, ServerTurns, Host!OldRuns
<1>7. FoldersHeld'
  BY ZenonT(60), <1>0, <1>1, <1>2, <1>3, <1>4 DEF SetupInv, FoldersHeld, Host!OldRuns, KeyDrawn, Makes
<1>8. ASSUME spoiled = {} PROVE MakesAlone' /\ Whole' /\ \A q \in Host!Processes : MadeBy(q)'
  <2>1. MakesAlone'
    BY <1>0, <1>1, <1>2, <1>3, <1>8, Unspoiled DEF MakesAlone, Host!Making
  <2>2. Whole'
    BY <1>0, <1>1, <1>2, <1>4, <1>8 DEF Whole, Host!Emptied
  <2>3. states.new.cert \in {0, Host!Emptied}
    BY <1>0, <1>2, <1>8, Unspoiled DEF MadeBy
  <2>4. ASSUME NEW q \in Host!Processes, q # p PROVE MadeBy(q)'
    <3>1. procs[q].at \notin Host!Making /\ procs[q].at # "up"
      BY <1>0, <1>2, <1>8, <2>3, <2>4, Unspoiled DEF MakesAlone, MadeBy, Host!Making
    <3>2. procs[q].at = "read" => states.new.cert # 0
      BY <1>8, Unspoiled DEF MadeBy
    <3>3. procs[q].at = "read" => new.cert # 0
      BY <1>0, <1>1, <1>2, <1>4, <1>8, <3>2, Unspoiled DEF MadeBy
    <3> QED
      BY <1>0, <1>3, <1>4, <2>4, <3>1, <3>3 DEF MadeBy, Host!Making
  <2> QED
    BY <1>0, <1>2, <1>8, <2>1, <2>2, <2>4
<1>9. PinsKnown'
  <2> SUFFICES ASSUME spoiled = {}, NEW m \in Tasks, pins[m] # 0 PROVE FALSE
    BY <1>0, <1>2 DEF PinsKnown
  <2>1. states.new.cert = pins[m] /\ pins[m] \in 0..MaxKeys
    BY <1>0, <1>4 DEF SetupInv, PinsKnown, Current, HostWorld
  <2> QED
    BY <1>0, <1>2, <2>1, Unspoiled DEF MadeBy, Host!Emptied
<1> QED
  BY <1>0, <1>2, <1>5, <1>6, <1>7, <1>8, <1>9 DEF SetupInv, OneIdentity

LEMMA Makings ==
  ASSUME SetupInv, NEW p \in Host!Processes, procs[p].at \in {"stage", "key", "empty", "cert"}
  PROVE  /\ states.new \in Host!Folder /\ procs[p] \in Proc /\ KeyDrawn(p)
         /\ spoiled = {} => MadeBy(p) /\ Whole
BY Unspoiled DEF SetupInv, HostWorld, FoldersHeld, HasFolder

LEMMA StagesKeep ==
  ASSUME SetupInv, NEW p \in Host!Processes, Host!Stage(p)
  PROVE  SetupInv'
<1> DEFINE new == [states.new EXCEPT !.staged = keys + 1]
           r == [procs[p] EXCEPT !.key = keys + 1, !.at = "key"]
<1>1. /\ procs[p].at = "stage" /\ keys + 1 \in 0..MaxKeys /\ keys + 1 # 0 /\ keys' = keys + 1
      /\ UNCHANGED <<units, configs, pins, accepted, spoiled, started, cuts>>
  BY DEF Host!Stage, SetupInv, HostWorld
<1>2. /\ new \in Host!Folder /\ new.clients = states.new.clients
      /\ new.cert = states.new.cert /\ new.key = states.new.key /\ new.staged = keys + 1
  BY <1>1, Makings DEF Host!Folder
<1>3. states' = [states EXCEPT !.new = new]
  BY <1>1 DEF Host!Stage, SetupInv, HostWorld
<1>4. r \in Proc /\ r.at = "key" /\ r.key = keys + 1 /\ r.kind = procs[p].kind
  BY <1>1, Makings DEF Proc, Turns
<1>5. procs' = [procs EXCEPT ![p] = r]
  BY <1>1 DEF Host!Stage, SetupInv, HostWorld
<1> HIDE DEF new, r
<1>6. procs'[p] = r /\ states'.new = new
  BY <1>3, <1>5 DEF SetupInv, HostWorld
<1>7. spoiled = {} => new.cert = 0
  BY <1>1, <1>2, Makings DEF MadeBy
<1>8. spoiled = {} => MadeBy(p)'
  BY <1>1, <1>2, <1>4, <1>6, <1>7 DEF MadeBy
<1>9. Makes(p, r, new)
  BY <1>1, <1>2, <1>3, <1>4, <1>5, <1>7, <1>8 DEF Makes, Host!Emptied
<1> QED
  BY <1>2, <1>4, <1>9, MakingKeeps

LEMMA KeysKeep ==
  ASSUME SetupInv, NEW p \in Host!Processes, Host!PutKey(p)
  PROVE  SetupInv'
<1>1. /\ procs[p].at = "key"
      /\ UNCHANGED <<units, configs, pins, accepted, spoiled, keys, started, cuts>>
  BY DEF Host!PutKey, Host!bounds
<1>2. CASE states.new.staged = 0
  BY <1>1, <1>2, EndsWell, SettingsStay DEF Host!PutKey
<1>3. CASE states.new.staged # 0
  <2> DEFINE new == [states.new EXCEPT !.key = states.new.staged, !.staged = 0]
  <2>1. states' = [states EXCEPT !.new = new] /\ Host!Goto(p, "empty")
    BY <1>3 DEF Host!PutKey, SetupInv, HostWorld
  <2>2. /\ new \in Host!Folder /\ new.clients = states.new.clients
        /\ new.cert = states.new.cert /\ new.key = states.new.staged
    <3>1. states.new \in Host!Folder /\ 0 \in 0..MaxKeys
      BY <1>1, Makings
    <3> QED
      BY <3>1 DEF Host!Folder
  <2> HIDE DEF new
  <2>3. PICK r \in Proc : /\ procs' = [procs EXCEPT ![p] = r]
                          /\ r = procs'[p] /\ r = [procs[p] EXCEPT !.at = "empty"]
    BY <2>1, Going DEF Turns
  <2>4. r.at = "empty" /\ r.kind = procs[p].kind /\ r.key = procs[p].key
    BY <1>1, <2>3, Makings DEF Proc
  <2>5. states'.new = new
    BY <2>1 DEF SetupInv, HostWorld
  <2>6. spoiled = {} => new.cert = 0 /\ states.new.staged = procs[p].key
    BY <1>1, <2>2, Makings DEF MadeBy
  <2>7. spoiled = {} => MadeBy(p)'
    BY <1>3, <2>2, <2>3, <2>4, <2>5, <2>6 DEF MadeBy
  <2>8. keys' \in 0..MaxKeys
    BY <1>1 DEF SetupInv, HostWorld
  <2>9. Makes(p, r, new)
    <3>1. r.key # 0
      BY <1>1, <2>4, Makings DEF KeyDrawn
    <3> QED
    BY <3>1, <1>1, <2>1, <2>2, <2>3, <2>4, <2>6, <2>7, <2>8 DEF Makes, Host!Emptied
  <2> QED
    BY <2>2, <2>3, <2>9, MakingKeeps
<1> QED
  BY <1>2, <1>3

LEMMA CertsKeep ==
  ASSUME SetupInv, NEW p \in Host!Processes, Host!WriteCert(p)
  PROVE  SetupInv'
<1>1. PICK cert \in 0..Host!Emptied, at \in {"cert", "read"} :
        /\ states' = [states EXCEPT !.new.cert = cert] /\ Host!Goto(p, at)
        /\ procs[p].at = "empty" => cert = Host!Emptied /\ at = "cert"
        /\ procs[p].at = "cert" => cert = procs[p].key /\ at = "read"
  <2>1. procs[p] \in Proc /\ Host!Emptied = MaxKeys + 1
    BY DEF SetupInv, HostWorld, Host!Emptied
  <2>2. CASE procs[p].at = "empty"
    BY <2>1, <2>2 DEF Host!WriteCert
  <2>3. CASE procs[p].at = "cert"
    BY <2>1, <2>3 DEF Host!WriteCert, Proc
  <2> QED
    BY <2>2, <2>3 DEF Host!WriteCert
<1> DEFINE new == [states.new EXCEPT !.cert = cert]
<1>2. /\ procs[p].at \in {"empty", "cert"}
      /\ UNCHANGED <<units, configs, pins, accepted, spoiled, keys, started, cuts>>
  BY DEF Host!WriteCert, Host!bounds
<1>3. states' = [states EXCEPT !.new = new]
  BY <1>1 DEF SetupInv, HostWorld
<1>4. /\ new \in Host!Folder /\ new.clients = states.new.clients
      /\ new.cert = cert /\ new.key = states.new.key
  BY <1>2, Makings DEF Host!Folder
<1> HIDE DEF new
<1>5. PICK r \in Proc : /\ procs' = [procs EXCEPT ![p] = r]
                        /\ r = procs'[p] /\ r = [procs[p] EXCEPT !.at = at]
  <2>1. at \in Turns /\ Host!Goto(p, at)
    BY <1>1 DEF Turns
  <2> QED
    BY <2>1, Going
<1>6. r.at = at /\ r.kind = procs[p].kind /\ r.key = procs[p].key /\ procs[p].key \in 0..MaxKeys
  <2>1. procs[p] \in Proc
    BY <1>2, Makings
  <2> QED
    BY <1>5, <2>1 DEF Proc
<1>7. states'.new = new
  BY <1>3 DEF SetupInv, HostWorld
<1>8. spoiled = {} => states.new.key = procs[p].key /\ procs[p].key # 0
  BY <1>2, Makings DEF MadeBy
<1>9. spoiled = {} => MadeBy(p)'
  BY <1>1, <1>2, <1>4, <1>5, <1>6, <1>7, <1>8 DEF MadeBy, Host!Emptied
<1>10. keys' \in 0..MaxKeys
  BY <1>2 DEF SetupInv, HostWorld
<1>11. Makes(p, r, new)
  <2>1. r.key # 0
    BY <1>2, <1>6, Makings DEF KeyDrawn
  <2> QED
  BY <2>1, <1>1, <1>2, <1>3, <1>4, <1>5, <1>6, <1>8, <1>9, <1>10 DEF Makes, Host!Emptied
<1> QED
  BY <1>4, <1>5, <1>11, MakingKeeps

LEMMA ReadsIdentityKeep ==
  ASSUME SetupInv, NEW p \in Host!Processes, Host!ReadIdentity(p)
  PROVE  SetupInv'
<1>1. /\ procs[p].at = "read" /\ states.new \in Host!Folder /\ states.new # None /\ procs[p] \in Proc
      /\ UNCHANGED <<units, states, configs, pins, accepted, spoiled, keys, started, cuts>>
  BY DEF Host!ReadIdentity, Host!bounds, SetupInv, HostWorld, FoldersHeld, HasFolder
<1>2. CASE Host!Ends(p)
  BY <1>1, <1>2, EndsWell, SettingsStay
<1>3. CASE ~Host!Ends(p)
  <2> DEFINE at == IF p = NoProcess THEN "up" ELSE "issue"
             r == [procs[p] EXCEPT !.key = states.new.cert, !.at = at]
  <2>1. /\ states.new.cert # Host!Emptied /\ states.new.cert \in 0..MaxKeys
        /\ procs' = [procs EXCEPT ![p] = r]
        /\ p = NoProcess => ~Host!OldRuns
    <3>1. /\ states.new.cert # Host!Emptied /\ (p = NoProcess => ~Host!OldRuns)
          /\ procs' = [procs EXCEPT ![p].key = states.new.cert,
                 ![p].at = IF p = NoProcess THEN "up" ELSE "issue"]
      BY <1>3 DEF Host!ReadIdentity
    <3>2. states.new.cert \in 0..MaxKeys
      BY <1>1, <3>1 DEF Host!Folder, Host!Emptied
    <3>3. procs' = [procs EXCEPT ![p] = r]
      BY <3>1 DEF SetupInv, HostWorld
    <3> QED
      BY <3>1, <3>2, <3>3
  <2>0. at \in {"up", "issue"} /\ procs[p] \in Proc
    BY <1>1
  <2> HIDE DEF at
  <2>2. r \in Proc /\ r.at = at /\ r.key = states.new.cert /\ r.kind = procs[p].kind
    BY <2>0, <2>1 DEF Proc, Turns
  <2> HIDE DEF r
  <2>3. procs'[p] = r
    BY <2>1 DEF SetupInv, HostWorld
  <2>4. states.new.cert # 0
    BY <1>1 DEF SetupInv, FoldersHeld, KeyDrawn
  <2>5. HasTurned(p)
    BY <1>1, <2>1, <2>2, <2>3, <2>4 DEF at, HasTurned, Host!Making, ServerTurns, SetupInv, Roles
  <2> QED
    BY <1>1, <2>1, <2>2, <2>5, TurnsOver, SettingsStay
<1> QED
  BY <1>2, <1>3

(* Only who is known in a folder changes, and what its codes name. *)
LEMMA FoldersKeptWhole ==
  ASSUME SetupInv, NEW folders,
         folders \in [old : Host!Folder \cup {None}, new : Host!Folder \cup {None}],
         states' = folders,
         \A n \in {"old", "new"} :
           /\ states[n] = None <=> folders[n] = None
           /\ states[n] # None => /\ folders[n].key = states[n].key
                                  /\ folders[n].cert = states[n].cert
                                  /\ folders[n].staged = states[n].staged
                                  /\ states[n].clients \subseteq folders[n].clients,
         UNCHANGED <<procs, units, configs, accepted, spoiled, keys, started, cuts>>,
         pins' \in [Tasks -> 0..MaxKeys],
         spoiled = {} => \A m \in Tasks : pins'[m] = pins[m] \/
           /\ Current(folders) # None
           /\ Current(folders).key = pins'[m] /\ Current(folders).cert = pins'[m]
           /\ m \in Current(folders).clients
  PROVE  SetupInv'
<1>1. /\ states.old = None <=> folders.old = None
      /\ states.new = None <=> folders.new = None
      /\ states.old # None => /\ folders.old.key = states.old.key
                              /\ folders.old.cert = states.old.cert
                              /\ states.old.clients \subseteq folders.old.clients
      /\ states.new # None => /\ folders.new.key = states.new.key
                              /\ folders.new.cert = states.new.cert
                              /\ folders.new.staged = states.new.staged
                              /\ states.new.clients \subseteq folders.new.clients
  OBVIOUS
<1>2. HostWorld'
  BY DEF SetupInv, HostWorld
<1>3. Roles'
  BY DEF SetupInv, Roles, Host!OldRuns
<1>4. FoldersHeld'
  <2>1. ASSUME NEW p \in Host!Processes PROVE KeyDrawn(p)'
    BY <1>1 DEF SetupInv, FoldersHeld, KeyDrawn, HasFolder
  <2> QED
    BY <1>1, <2>1 DEF SetupInv, FoldersHeld, Host!OldRuns
<1>5. ASSUME spoiled = {} PROVE MakesAlone' /\ Whole' /\ \A p \in Host!Processes : MadeBy(p)'
  <2>1. MakesAlone' /\ Whole'
    BY <1>1, <1>5, Unspoiled DEF MakesAlone, Whole, Host!Emptied
  <2>2. ASSUME NEW p \in Host!Processes PROVE MadeBy(p)'
    <3>1. MadeBy(p) /\ (procs[p].at \in HasFolder => states.new # None)
      BY <1>5, Unspoiled DEF SetupInv, FoldersHeld
    <3> QED
      BY <1>1, <3>1 DEF MadeBy, HasFolder, Host!Emptied
  <2> QED
    BY <2>1, <2>2
<1>6. PinsKnown'
  BY <1>1 DEF SetupInv, PinsKnown, Current
<1> QED
  BY <1>2, <1>3, <1>4, <1>5, <1>6 DEF SetupInv, OneIdentity

LEMMA PairsKeep == ASSUME SetupInv, NEW m \in Tasks, Host!Pair(m) PROVE SetupInv'
<1> DEFINE new == [states.new EXCEPT !.clients = @ \cup {m}]
           folders == [states EXCEPT !.new = new]
<1>1. /\ procs[NoProcess].at = "up" /\ NoProcess \in Host!Processes
      /\ pins' = [pins EXCEPT ![m] = procs[NoProcess].key]
      /\ UNCHANGED <<procs, units, configs, accepted, spoiled, keys, started, cuts>>
  BY DEF Host!Pair, Host!bounds, Host!Processes
<1>2. states.new \in Host!Folder /\ states.new # None /\ procs[NoProcess] \in Proc
  BY <1>1 DEF SetupInv, HostWorld, FoldersHeld, HasFolder
<1>3. /\ new \in Host!Folder /\ new.key = states.new.key /\ new.cert = states.new.cert
      /\ new.staged = states.new.staged /\ new.clients = states.new.clients \cup {m}
  BY <1>2 DEF Host!Folder
<1>4. states' = folders
  BY DEF Host!Pair, SetupInv, HostWorld
<1> HIDE DEF new
<1>5. /\ folders \in [old : Host!Folder \cup {None}, new : Host!Folder \cup {None}]
      /\ folders.old = states.old /\ folders.new = new /\ new # None
  BY <1>3, NoneAssumption DEF SetupInv, HostWorld
<1> HIDE DEF folders
<1>6. pins' \in [Tasks -> 0..MaxKeys]
  BY <1>1, <1>2 DEF SetupInv, HostWorld, Proc
<1>7. ASSUME spoiled = {}, NEW n \in Tasks, pins'[n] # pins[n]
      PROVE  /\ Current(folders) = new /\ new.key = pins'[n] /\ new.cert = pins'[n]
             /\ n \in new.clients
  <2>1. n = m /\ pins'[n] = procs[NoProcess].key
    BY <1>1, <1>7 DEF SetupInv, HostWorld
  <2>2. states.new.cert = procs[NoProcess].key /\ states.new.key = states.new.cert
    BY <1>1, <1>2, <1>7, Unspoiled DEF MadeBy, Whole
  <2> QED
    BY <1>3, <1>5, <2>1, <2>2 DEF Current
<1>8. \A n \in {"old", "new"} :
           /\ states[n] = None <=> folders[n] = None
           /\ states[n] # None => /\ folders[n].key = states[n].key
                                  /\ folders[n].cert = states[n].cert
                                  /\ folders[n].staged = states[n].staged
                                  /\ states[n].clients \subseteq folders[n].clients
  BY <1>2, <1>3, <1>5
<1> QED
  BY <1>1, <1>4, <1>5, <1>6, <1>7, <1>8, FoldersKeptWhole

LEMMA PairsWithOldKeep == ASSUME SetupInv, NEW m \in Tasks, Host!PairWithOld(m) PROVE SetupInv'
<1> DEFINE old == [states.old EXCEPT !.clients = @ \cup {m}]
           folders == [states EXCEPT !.old = old]
<1>1. /\ Host!OldRuns /\ pins' = [pins EXCEPT ![m] = 1]
      /\ UNCHANGED <<procs, units, configs, accepted, spoiled, keys, started, cuts>>
  BY DEF Host!PairWithOld, Host!bounds
<1>2. /\ states.old \in Host!Folder /\ states.old # None
      /\ states.old.key = 1 /\ states.old.cert = 1
  BY <1>1 DEF SetupInv, HostWorld, FoldersHeld
<1>3. /\ old \in Host!Folder /\ old.key = states.old.key /\ old.cert = states.old.cert
      /\ old.staged = states.old.staged /\ old.clients = states.old.clients \cup {m}
  BY <1>2 DEF Host!Folder
<1>4. states' = folders
  <2> DEFINE was == IF states.old = None THEN Host!NewFolder ELSE states.old
  <2>1. was = states.old
    BY <1>2
  <2>2. states' = [states EXCEPT !.old = [was EXCEPT !.clients = was.clients \cup {m}]]
    BY DEF Host!PairWithOld, SetupInv, HostWorld
  <2> HIDE DEF was
  <2> QED
    BY <2>1, <2>2
<1> HIDE DEF old
<1>5. /\ folders \in [old : Host!Folder \cup {None}, new : Host!Folder \cup {None}]
      /\ folders.new = states.new /\ folders.old = old /\ old # None
  BY <1>3, NoneAssumption DEF SetupInv, HostWorld
<1> HIDE DEF folders
<1>6. pins' \in [Tasks -> 0..MaxKeys]
  BY <1>1 DEF SetupInv, HostWorld
<1>7. ASSUME spoiled = {}, NEW n \in Tasks, pins'[n] # pins[n]
      PROVE  /\ Current(folders) = old /\ old.key = pins'[n] /\ old.cert = pins'[n]
             /\ n \in old.clients
  <2>1. n = m /\ pins'[n] = 1
    BY <1>1, <1>7 DEF SetupInv, HostWorld
  <2>2. states.new = None
    BY <1>2, <1>7 DEF SetupInv, FoldersHeld
  <2> QED
    BY <1>2, <1>3, <1>5, <2>1, <2>2 DEF Current
<1>8. \A n \in {"old", "new"} :
           /\ states[n] = None <=> folders[n] = None
           /\ states[n] # None => /\ folders[n].key = states[n].key
                                  /\ folders[n].cert = states[n].cert
                                  /\ folders[n].staged = states[n].staged
                                  /\ states[n].clients \subseteq folders[n].clients
  BY <1>2, <1>3, <1>5
<1> QED
  BY <1>1, <1>4, <1>5, <1>6, <1>7, <1>8, FoldersKeptWhole

LEMMA IssuesKeep ==
  ASSUME SetupInv, NEW p \in Host!Processes, Host!Issue(p)
  PROVE  SetupInv'
<1> DEFINE new == [states.new EXCEPT !.codes = @ \cup {procs[p].key}]
<1>1. /\ procs[p].at = "issue" /\ p # NoProcess
      /\ UNCHANGED <<units, configs, pins, accepted, spoiled, keys, started, cuts>>
  BY CommandHere DEF Host!Issue, Host!bounds, ServerTurns
<1>2. states.new \in Host!Folder /\ states.new # None /\ procs[p] \in Proc /\ procs[p].key # 0
  BY <1>1 DEF SetupInv, HostWorld, FoldersHeld, HasFolder, KeyDrawn
<1>3. /\ new \in Host!Folder /\ new.key = states.new.key /\ new.cert = states.new.cert
      /\ new.staged = states.new.staged /\ new.clients = states.new.clients
  <2>1. procs[p].key \in 1..MaxKeys
    BY <1>2 DEF Proc
  <2> QED
    BY <1>2, <2>1 DEF Host!Folder
<1>4. states' = [states EXCEPT !.new = new]
  BY DEF Host!Issue, SetupInv, HostWorld
<1> HIDE DEF new
<1>5. PICK r \in Proc : procs' = [procs EXCEPT ![p] = r] /\ r.at \in {"wait", "idle"}
  <2>1. CASE Host!Ends(p)
    BY <2>1, Ending, IdleProc
  <2>2. CASE Host!Goto(p, "wait")
    <3>1. PICK r \in Proc : /\ procs' = [procs EXCEPT ![p] = r]
                            /\ r = procs'[p] /\ r = [procs[p] EXCEPT !.at = "wait"]
      BY <2>2, Going DEF Turns
    <3> QED
      BY <1>2, <3>1 DEF Proc
  <2> QED
    BY <2>1, <2>2 DEF Host!Issue
<1>6. /\ procs' \in [Host!Processes -> Proc] /\ procs'[p] = r /\ NoProcess \in Host!Processes
      /\ \A q \in Host!Processes : q # p => procs'[q] = procs[q]
  BY <1>5 DEF SetupInv, HostWorld, Host!Processes
<1>7. /\ states' \in [old : Host!Folder \cup {None}, new : Host!Folder \cup {None}]
      /\ states'.old = states.old /\ states'.new = new /\ new # None
  BY <1>3, <1>4, NoneAssumption DEF SetupInv, HostWorld
<1>8. HostWorld'
  BY <1>1, <1>6, <1>7 DEF SetupInv, HostWorld
<1>9. Roles'
  BY <1>1, <1>6 DEF SetupInv, Roles, Host!OldRuns
<1>10. FoldersHeld'
  <2>1. ASSUME NEW q \in Host!Processes PROVE KeyDrawn(q)'
    BY <1>3, <1>5, <1>6, <1>7 DEF SetupInv, FoldersHeld, KeyDrawn
  <2> QED
    BY <1>1, <1>2, <1>5, <1>6, <1>7, <2>1 DEF SetupInv, FoldersHeld, Host!OldRuns
<1>11. ASSUME spoiled = {} PROVE MakesAlone' /\ Whole' /\ \A q \in Host!Processes : MadeBy(q)'
  <2>1. MakesAlone'
    BY <1>5, <1>6, <1>11, Unspoiled DEF MakesAlone, Host!Making
  <2>2. Whole'
    <3>1. states.new.cert = Host!Emptied => \E q \in Host!Processes : q # p /\ procs[q].at = "cert"
      BY <1>1, <1>2, <1>11, Unspoiled DEF Whole
    <3>2. states.new.cert \notin {0, Host!Emptied} => states.new.cert = states.new.key
      BY <1>2, <1>11, Unspoiled DEF Whole
    <3> QED
      BY <1>3, <1>6, <1>7, <3>1, <3>2 DEF Whole, Host!Emptied
  <2>3. ASSUME NEW q \in Host!Processes PROVE MadeBy(q)'
    <3>1. MadeBy(q)
      BY <1>11, Unspoiled
    <3> QED
      BY <1>3, <1>5, <1>6, <1>7, <3>1 DEF MadeBy, Host!Emptied
  <2> QED
    BY <2>1, <2>2, <2>3
<1>12. PinsKnown'
  BY <1>1, <1>2, <1>3, <1>7 DEF SetupInv, PinsKnown, Current
<1> QED
  BY <1>1, <1>8, <1>9, <1>10, <1>11, <1>12 DEF SetupInv, OneIdentity

LEMMA WaitsEndKeep ==
  ASSUME SetupInv, NEW p \in Host!Processes, Host!Waited(p)
  PROVE  SetupInv'
BY EndsWell, SettingsStay DEF Host!Waited, Host!bounds

LEMMA UnitsKeep ==
  ASSUME SetupInv, NEW p \in Host!Processes, Host!WriteUnit(p)
  PROVE  SetupInv'
<1>1. /\ procs[p].at = "unit" /\ p # NoProcess
      /\ units' = [units EXCEPT !.new = IF @ = "none" THEN "off" ELSE @]
      /\ UNCHANGED <<states, configs, pins, accepted, spoiled, keys, started, cuts>>
      /\ Host!Goto(p, "start") \/ Host!Ends(p)
  BY CommandHere DEF Host!WriteUnit, Host!bounds, ServerTurns
<1>2. Settings
  BY <1>1 DEF Settings, SetupInv, HostWorld, Host!OldRuns
<1>3. "start" \in Turns /\ "start" \notin Host!Making \cup {"up", "read", "issue"} \cup HasFolder
  BY DEF Turns, Host!Making, HasFolder
<1> QED
  BY <1>1, <1>2, <1>3, GoesWell, EndsWell

LEMMA RestartsServerKeep ==
  ASSUME SetupInv, NEW p \in Host!Processes, Host!Restart(p)
  PROVE  SetupInv'
<1>1. /\ procs[p].at = "start" /\ p # NoProcess
      /\ units' = [units EXCEPT !.new = "on"]
      /\ procs' = [procs EXCEPT ![NoProcess] = Host!Idle, ![p] =
         IF @.kind = "setup" THEN [@ EXCEPT !.at = "ensure"] ELSE Host!Idle]
      /\ spoiled' = spoiled \cup Host!Torn(NoProcess)
      /\ UNCHANGED <<states, configs, pins, accepted, keys, started, cuts>>
  BY CommandHere DEF Host!Restart, Host!bounds, ServerTurns
<1>2. Settings
  BY <1>1 DEF Settings, SetupInv, HostWorld, Host!OldRuns, Host!Torn
<1>3. [procs[p] EXCEPT !.at = "ensure"] \in Proc
  <2>1. procs[p] \in Proc
    BY DEF SetupInv, HostWorld
  <2> QED
    BY <2>1 DEF Proc, Turns
<1>4. PICK r \in Proc : /\ procs' = [procs EXCEPT ![NoProcess] = Host!Idle, ![p] = r]
                        /\ r.at \in {"ensure", "idle"}
  <2>1. [procs[p] EXCEPT !.at = "ensure"].at = "ensure"
    BY DEF SetupInv, HostWorld, Proc
  <2>2. procs' = [procs EXCEPT ![NoProcess] = Host!Idle, ![p] =
         IF procs[p].kind = "setup" THEN [procs[p] EXCEPT !.at = "ensure"] ELSE Host!Idle]
    BY <1>1 DEF SetupInv, HostWorld
  <2> QED
    BY <1>3, <2>1, <2>2, IdleProc
<1>5. /\ procs' \in [Host!Processes -> Proc] /\ procs'[p] = r /\ procs'[NoProcess] = Host!Idle
      /\ \A q \in Host!Processes : q # p /\ q # NoProcess => procs'[q] = procs[q]
  <2>1. NoProcess \in Host!Processes /\ procs \in [Host!Processes -> Proc]
    BY DEF SetupInv, HostWorld, Host!Processes
  <2> QED
    BY <1>1, <1>4, <2>1, IdleProc
<1>6. HasTurned(p)
  BY <1>1, <1>4, <1>5 DEF HasTurned, Host!Making, HasFolder
<1>7. HasTurned(NoProcess)
  BY <1>1, <1>5, IdleProc DEF HasTurned, Host!Making, HasFolder, ServerTurns, Host!Torn
<1> QED
  BY <1>1, <1>2, <1>5, <1>6, <1>7, FoldersStay

(* Settings that are asked for. *)
LEMMA SetKeeps ==
  ASSUME SetupInv, NEW config \in Host!Config, Host!Set(config),
         accepted' \subseteq Addresses, UNCHANGED <<units, started, cuts>>
  PROVE  Settings
BY DEF Settings, SetupInv, HostWorld, Host!OldRuns, Host!Set

LEMMA SettingsTyped == ASSUME SetupInv PROVE Host!Settings \in Host!Config
BY NewFolders DEF SetupInv, HostWorld, Host!Settings

LEMMA DefaultsKeep ==
  ASSUME SetupInv, NEW p \in Host!Processes, Host!AskDefault(p)
  PROVE  SetupInv'
<1>1. /\ procs[p].at = "default" /\ p # NoProcess /\ Host!Goto(p, "network")
      /\ UNCHANGED <<units, states, pins, accepted, keys, started, cuts>>
  BY CommandHere DEF Host!AskDefault, Host!bounds, ServerTurns
<1>2. [Host!Settings EXCEPT !.default = TRUE] \in Host!Config
  BY SettingsTyped DEF Host!Config
<1>3. accepted' \subseteq Addresses
  BY <1>1 DEF SetupInv, HostWorld
<1>4. Settings
  BY <1>1, <1>2, <1>3, SetKeeps, SettingsStay DEF Host!AskDefault
<1>5. "network" \in Turns /\ "network" \notin Host!Making \cup {"up", "read", "issue"} \cup HasFolder
  BY DEF Turns, Host!Making, HasFolder
<1> QED
  BY <1>1, <1>4, <1>5, GoesWell

LEMMA NetworksKeep ==
  ASSUME SetupInv, NEW p \in Host!Processes, Host!LoadNetworks(p)
  PROVE  SetupInv'
<1> DEFINE r == [procs[p] EXCEPT !.at = "lans", !.allow = Host!Allowed(Host!Settings),
                                 !.asked = Addresses \ Host!Allowed(Host!Settings)]
<1>1. /\ procs[p].at = "network" /\ p # NoProcess
      /\ UNCHANGED <<units, states, configs, pins, accepted, spoiled, keys, started, cuts>>
  BY CommandHere DEF Host!LoadNetworks, Host!bounds, ServerTurns
<1>2. Host!Allowed(Host!Settings) \in SUBSET (Looks \cup Addresses)
  BY SettingsTyped DEF Host!Allowed, Host!Config
<1>3. r \in Proc /\ r.at = "lans"
  BY ZenonT(60), <1>2 DEF SetupInv, HostWorld, Proc, Turns
<1>4. procs' = [procs EXCEPT ![p] = r]
  BY DEF Host!LoadNetworks, SetupInv, HostWorld
<1> HIDE DEF r
<1>5. procs'[p] = r
  BY <1>4 DEF SetupInv, HostWorld
<1>6. HasTurned(p)
  BY <1>1, <1>3, <1>5 DEF HasTurned, Host!Making, HasFolder
<1> QED
  BY <1>1, <1>3, <1>4, <1>6, TurnsOver, SettingsStay

LEMMA LansKeep ==
  ASSUME SetupInv, NEW p \in Host!Processes, Host!AskLan(p)
  PROVE  SetupInv'
<1>1. /\ procs[p].at = "lans" /\ p # NoProcess
      /\ UNCHANGED <<units, states, pins, keys, started, cuts>>
  BY CommandHere DEF Host!AskLan, Host!bounds, ServerTurns
<1>2. procs[p] \in Proc
  BY DEF SetupInv, HostWorld
<1>3. PICK lan \in procs[p].asked :
         \/ /\ procs' = [procs EXCEPT ![p].asked = @ \ {lan}, ![p].allow = @ \cup {lan}]
            /\ Host!Set([Host!Settings EXCEPT !.allow = procs[p].allow \cup {lan}])
            /\ accepted' = accepted \cup {lan}
         \/ /\ procs' = [procs EXCEPT ![p].asked = @ \ {lan}]
            /\ UNCHANGED <<configs, accepted, spoiled>>
  BY DEF Host!AskLan
<1>4. lan \in Addresses
  BY <1>2, <1>3 DEF Proc
<1>5. PICK r \in Proc : procs' = [procs EXCEPT ![p] = r] /\ r.at = "lans" /\ r.kind = procs[p].kind
  <2>1. CASE procs' = [procs EXCEPT ![p].asked = @ \ {lan}, ![p].allow = @ \cup {lan}]
    <3> DEFINE r == [procs[p] EXCEPT !.asked = @ \ {lan}, !.allow = @ \cup {lan}]
    <3>1. procs' = [procs EXCEPT ![p] = r]
      BY <2>1 DEF SetupInv, HostWorld
    <3>2. r \in Proc /\ r.at = "lans" /\ r.kind = procs[p].kind
      BY <1>1, <1>2, <1>4 DEF Proc
    <3> QED
      BY <3>1, <3>2
  <2>2. CASE procs' = [procs EXCEPT ![p].asked = @ \ {lan}]
    <3> DEFINE r == [procs[p] EXCEPT !.asked = @ \ {lan}]
    <3>1. procs' = [procs EXCEPT ![p] = r]
      BY <2>2 DEF SetupInv, HostWorld
    <3>2. r \in Proc /\ r.at = "lans" /\ r.kind = procs[p].kind
      BY <1>1, <1>2 DEF Proc
    <3> QED
      BY <3>1, <3>2
  <2> QED
    BY <1>3, <2>1, <2>2
<1>6. procs'[p] = r
  BY <1>5 DEF SetupInv, HostWorld
<1>7. HasTurned(p)
  BY <1>1, <1>5, <1>6 DEF HasTurned, Host!Making, HasFolder
<1>8. Settings
  <2>1. CASE /\ Host!Set([Host!Settings EXCEPT !.allow = procs[p].allow \cup {lan}])
             /\ accepted' = accepted \cup {lan}
    <3>1. [Host!Settings EXCEPT !.allow = procs[p].allow \cup {lan}] \in Host!Config
      BY <1>2, <1>4, SettingsTyped DEF Host!Config, Proc
    <3>2. accepted' \subseteq Addresses
      BY <1>4, <2>1 DEF SetupInv, HostWorld
    <3> QED
      BY <1>1, <2>1, <3>1, <3>2, SetKeeps
  <2>2. CASE UNCHANGED <<configs, accepted, spoiled>>
    BY <1>1, <2>2, SettingsStay
  <2> QED
    BY <1>3, <2>1, <2>2
<1> QED
  BY <1>1, <1>5, <1>7, <1>8, TurnsOver

LEMMA ServicesKeep ==
  ASSUME SetupInv, NEW p \in Host!Processes, Host!AskService(p)
  PROVE  SetupInv'
<1>1. /\ procs[p].at = "lans" /\ p # NoProcess
      /\ UNCHANGED <<units, states, configs, pins, accepted, spoiled, keys, started, cuts>>
  BY CommandHere DEF Host!AskService, Host!bounds, ServerTurns
<1>2. PICK at \in {"unit", "ensure"} : Host!Goto(p, at)
  BY DEF Host!AskService
<1>3. at \in Turns /\ at \notin Host!Making \cup {"up", "read", "issue"} \cup HasFolder
  BY <1>2 DEF Turns, Host!Making, HasFolder
<1> QED
  BY <1>1, <1>2, <1>3, GoesWell, SettingsStay

LEMMA KillsKeep ==
  ASSUME SetupInv, NEW p \in Host!Processes, Host!Killed(p)
  PROVE  SetupInv'
<1>1. /\ Host!Ends(p) /\ spoiled' = spoiled \cup Host!Torn(p) /\ cuts' \in 0..MaxKills
      /\ UNCHANGED <<units, states, configs, pins, accepted, keys, started>>
  BY DEF Host!Killed, Host!Kill, SetupInv, HostWorld
<1>2. Settings
  BY <1>1 DEF Settings, SetupInv, HostWorld, Host!OldRuns, Host!Torn
<1>3. procs[p].at # "cert" \/ spoiled' # {}
  BY <1>1 DEF Host!Torn
<1> QED
  BY <1>1, <1>2, <1>3, EndsWell

LEMMA SetupStays == ASSUME SetupInv, UNCHANGED setupVars PROVE SetupInv'
BY ZenonT(60)
   DEF setupVars, SetupInv, HostWorld, Roles, FoldersHeld, KeyDrawn, OneIdentity, MakesAlone,
       MadeBy, Whole, PinsKnown, Current, Host!OldRuns

LEMMA EverySetupStep == ASSUME SetupInv, Host!Next PROVE SetupInv'
<1>1. ASSUME NEW p \in Host!Processes, Host!Step(p) PROVE SetupInv'
  BY <1>1, CommandsKeep, StopsOldKeep, RemovesOldKeep, ChecksKeep, AdoptsKeep, LoadsKeep,
     EnsuresKeep, LooksForKeep, StagesKeep, KeysKeep, CertsKeep, ReadsIdentityKeep, IssuesKeep,
     WaitsEndKeep, UnitsKeep, RestartsServerKeep, DefaultsKeep, NetworksKeep, LansKeep,
     ServicesKeep, KillsKeep DEF Host!Step
<1> QED
  BY <1>1, ServeKeeps, PairsKeep, PairsWithOldKeep DEF Host!Next

(* What the user accepted, for one command at a time. *)
OneCommand == \A p, q \in Lone : p = q

(* Steps of a command that adopts, reads or asks for the settings. *)
Settling == {"adopt state", "load", "default", "network", "lans"}

Config == IF Current(configs) = None THEN Host!NewConfig ELSE Current(configs)

(* Every network accepted is in the config in use, and in what a command   *)
(* is about to write over it.                                              *)
ConfigKept ==
  spoiled = {} =>
    /\ configs.old = None \/ configs.new = None
    /\ accepted \subseteq Host!Allowed(Config)
    /\ \A p \in Lone : procs[p].at \in Settling => Host!OldRuns \/ configs.old = None
    /\ \A p \in Lone :
         procs[p].at = "lans" /\ (configs.new # None \/ configs.old = None) =>
           accepted \subseteq procs[p].allow

LEMMA ConfigStarts == ASSUME Host!Init PROVE ConfigKept
<1>1. procs = [p \in Host!Processes |-> Host!Idle] /\ Lone \subseteq Host!Processes
  BY DEF Host!Init, Host!Processes
<1>2. \A p \in Lone : procs[p].at \notin Settling /\ procs[p].at # "lans"
  BY <1>1, IdleProc DEF Settling
<1>3. \/ configs = [old |-> None, new |-> None] /\ accepted = {}
      \/ \E lans \in SUBSET Addresses :
           /\ configs = [new |-> None, old |-> [default |-> TRUE, allow |->
                IF lans = {} THEN {} ELSE Looks \cup lans]]
           /\ accepted = lans
  BY DEF Host!Init
<1>4. CASE configs = [old |-> None, new |-> None] /\ accepted = {}
  BY <1>2, <1>4 DEF ConfigKept
<1>5. ASSUME NEW lans \in SUBSET Addresses,
             configs = [new |-> None, old |-> [default |-> TRUE, allow |->
                IF lans = {} THEN {} ELSE Looks \cup lans]],
             accepted = lans
      PROVE  ConfigKept
  <2>1. configs.old \in Host!Config /\ configs.new = None
    BY <1>5 DEF Host!Config
  <2>2. Config = configs.old
    BY <2>1, NoneAssumption DEF Config, Current
  <2> QED
    BY <1>2, <1>5, <2>1, <2>2 DEF ConfigKept, Host!Allowed
<1> QED
  BY <1>3, <1>4, <1>5

(* Steps that change no setting, and begin no questions. *)
LEMMA ConfigStays ==
  ASSUME ConfigKept, UNCHANGED <<configs, accepted>>, spoiled \subseteq spoiled',
         Host!OldRuns => Host!OldRuns',
         \A p \in Lone : procs'[p].at \in Settling =>
           /\ procs[p].at \in Settling
           /\ procs'[p].at = "lans" => procs[p].at = "lans" /\ procs[p].allow \subseteq procs'[p].allow
  PROVE  ConfigKept'
BY DEF ConfigKept, Config, Current, Settling

(* Commands are processes, and so is the service. *)
LEMMA LoneRuns == Lone \subseteq Host!Processes /\ NoProcess \in Host!Processes
BY DEF Host!Processes

(* One process goes elsewhere than to where questions are asked. *)
LEMMA ConfigGoesOn ==
  ASSUME SetupInv, ConfigKept, NEW p \in Host!Processes, NEW r \in Proc,
         procs' = [procs EXCEPT ![p] = r],
         p \in Lone /\ r.at \in Settling =>
           /\ procs[p].at \in Settling
           /\ r.at = "lans" => procs[p].at = "lans" /\ procs[p].allow \subseteq r.allow,
         UNCHANGED <<configs, accepted>>, spoiled \subseteq spoiled', Host!OldRuns => Host!OldRuns'
  PROVE  ConfigKept'
<1>1. procs'[p] = r /\ \A q \in Host!Processes : q # p => procs'[q] = procs[q]
  BY DEF SetupInv, HostWorld
<1> QED
  BY <1>1, LoneRuns, ConfigStays

LEMMA ConfigGoes ==
  ASSUME SetupInv, ConfigKept, NEW p \in Host!Processes, NEW at \in Turns, Host!Goto(p, at),
         at \in Settling => procs[p].at \in Settling, at # "lans",
         UNCHANGED <<configs, accepted>>, spoiled \subseteq spoiled', Host!OldRuns => Host!OldRuns'
  PROVE  ConfigKept'
<1>1. PICK r \in Proc : /\ procs' = [procs EXCEPT ![p] = r]
                        /\ r = procs'[p] /\ r = [procs[p] EXCEPT !.at = at]
  BY Going
<1>2. r.at = at
  BY <1>1 DEF SetupInv, HostWorld, Proc
<1> QED
  BY <1>1, <1>2, ConfigGoesOn

LEMMA ConfigEnds ==
  ASSUME SetupInv, ConfigKept, NEW p \in Host!Processes, Host!Ends(p),
         UNCHANGED <<configs, accepted>>, spoiled \subseteq spoiled', Host!OldRuns => Host!OldRuns'
  PROVE  ConfigKept'
<1>1. Host!Idle.at \notin Settling
  BY IdleProc DEF Settling
<1> QED
  BY <1>1, Ending, ConfigGoesOn

(* Steps of one process that leave the settings as they are. *)
LEMMA ConfigNotTouched ==
  ASSUME SetupInv, ConfigKept, NEW p \in Host!Processes,
         \/ Host!CommandRuns(p) \/ Host!Ensure(p) \/ Host!LookForIdentity(p) \/ Host!Stage(p)
         \/ Host!PutKey(p) \/ Host!WriteCert(p) \/ Host!ReadIdentity(p) \/ Host!Issue(p)
         \/ Host!Waited(p) \/ Host!WriteUnit(p) \/ Host!Killed(p)
  PROVE  ConfigKept'
<1>1. /\ UNCHANGED <<configs, accepted>> /\ spoiled \subseteq spoiled'
      /\ Host!OldRuns => Host!OldRuns'
  BY DEF SetupInv, HostWorld, Host!OldRuns, Host!CommandRuns, Host!Ensure, Host!LookForIdentity, Host!Stage,
     Host!PutKey, Host!WriteCert, Host!ReadIdentity, Host!Issue, Host!Waited, Host!WriteUnit,
     Host!Killed, Host!bounds
<1>2. CASE Host!Ends(p)
  BY <1>1, <1>2, ConfigEnds
<1>3. CASE \E at \in {"identity", "read", "stage", "empty", "cert", "wait", "start"} : Host!Goto(p, at)
  <2>1. PICK at \in {"identity", "read", "stage", "empty", "cert", "wait", "start"} : Host!Goto(p, at)
    BY <1>3
  <2>2. at \in Turns /\ at \notin Settling
    BY DEF Turns, Settling
  <2>3. at # "lans"
    OBVIOUS
  <2> QED
    BY <1>1, <2>1, <2>2, <2>3, ConfigGoes
<1>4. ASSUME procs' = [procs EXCEPT ![p] = procs'[p]], procs'[p] \in Proc,
             procs'[p].at \notin Settling
      PROVE  ConfigKept'
  BY <1>1, <1>4, ConfigGoesOn
<1>5. procs \in [Host!Processes -> Proc]
  BY DEF SetupInv, HostWorld
<1>6. CASE Host!CommandRuns(p)
  <2>1. PICK does \in Host!Kinds \ {"serve"} : Host!Start(p, does)
    BY <1>6 DEF Host!CommandRuns
  <2> DEFINE at == IF does \in {"install", "setup"} THEN "retire" ELSE "check"
             r == [Host!Idle EXCEPT !.kind = does, !.at = at]
  <2>2. r \in Proc /\ r.at = at /\ procs' = [procs EXCEPT ![p] = r]
    BY <2>1, IdleProc DEF Proc, Turns, Host!Start
  <2> HIDE DEF r
  <2>3. at \notin Settling
    BY DEF Settling
  <2> QED
    BY <1>4, <1>5, <2>2, <2>3
<1>7. CASE Host!Stage(p)
  <2> DEFINE r == [procs[p] EXCEPT !.key = keys + 1, !.at = "key"]
  <2>1. keys + 1 \in 0..MaxKeys /\ keys' = keys + 1
    BY <1>7 DEF Host!Stage, SetupInv, HostWorld
  <2>2. procs' = [procs EXCEPT ![p] = r]
    BY <1>5, <1>7, <2>1 DEF Host!Stage
  <2>3. r \in Proc /\ r.at = "key"
    BY <1>5, <2>1 DEF Proc, Turns
  <2> QED
    BY <1>4, <1>5, <2>2, <2>3 DEF Settling
<1>8. CASE Host!ReadIdentity(p) /\ ~Host!Ends(p)
  <2> DEFINE at == IF p = NoProcess THEN "up" ELSE "issue"
             r == [procs[p] EXCEPT !.key = states.new.cert, !.at = at]
  <2>1. /\ states.new.cert # Host!Emptied
        /\ procs' = [procs EXCEPT ![p].key = states.new.cert,
               ![p].at = IF p = NoProcess THEN "up" ELSE "issue"]
    BY <1>8 DEF Host!ReadIdentity
  <2>2. states.new \in Host!Folder
    BY <1>8 DEF Host!ReadIdentity, SetupInv, HostWorld, FoldersHeld, HasFolder
  <2>3. states.new.cert \in 0..MaxKeys
    BY <2>1, <2>2 DEF Host!Folder, Host!Emptied
  <2>4. at \in {"up", "issue"} /\ procs[p] \in Proc
    BY <1>5
  <2>5. procs' = [procs EXCEPT ![p] = r]
    BY <1>5, <2>1
  <2> HIDE DEF at
  <2>6. r \in Proc /\ r.at = at
    BY <2>3, <2>4 DEF Proc, Turns
  <2> HIDE DEF r
  <2> QED
    BY <1>4, <1>5, <2>4, <2>5, <2>6 DEF Settling
<1> QED
  BY <1>2, <1>3, <1>6, <1>7, <1>8 DEF Host!Ensure, Host!LookForIdentity, Host!PutKey,
     Host!WriteCert, Host!ReadIdentity, Host!Issue, Host!Waited, Host!WriteUnit, Host!Killed

(* The old service goes: only its command can be about to ask. *)
LEMMA ConfigOutlivesOld ==
  ASSUME SetupInv, ConfigKept, OneCommand, NEW p \in Host!Processes,
         Host!StopOld(p) \/ Host!RemoveOld(p) \/ Host!Check(p)
  PROVE  ConfigKept'
<1>1. PICK at \in {"check", "remove", "load", "adopt config"} :
        /\ Host!Goto(p, at)
        /\ Host!StopOld(p) \/ Host!RemoveOld(p) => at \in {"check", "remove"}
        /\ Host!Check(p) => at = "adopt config" \/ (at = "load" /\ Host!OldRuns)
  <2>1. CASE Host!StopOld(p)
    BY <2>1 DEF Host!StopOld, Host!RemoveOld, Host!Check
  <2>2. CASE Host!RemoveOld(p)
    BY <2>2 DEF Host!StopOld, Host!RemoveOld, Host!Check
  <2>3. CASE Host!Check(p)
    BY <2>3 DEF Host!StopOld, Host!RemoveOld, Host!Check
  <2> QED
    BY <2>1, <2>2, <2>3
<1>2. PICK r \in Proc : /\ procs' = [procs EXCEPT ![p] = r]
                        /\ r = procs'[p] /\ r = [procs[p] EXCEPT !.at = at]
  <2>1. at \in Turns /\ Host!Goto(p, at)
    BY <1>1 DEF Turns
  <2> QED
    BY <2>1, Going
<1>3. r.at = at /\ procs'[p] = r /\ \A q \in Host!Processes : q # p => procs'[q] = procs[q]
  <2>1. procs \in [Host!Processes -> Proc]
    BY DEF SetupInv, HostWorld
  <2>2. r.at = at
    BY <1>2, <2>1 DEF Proc
  <2> QED
    BY <1>2, <2>1, <2>2
<1>4. UNCHANGED <<configs, accepted, spoiled>>
  BY DEF Host!StopOld, Host!RemoveOld, Host!Check
<1>5. CASE Host!StopOld(p) \/ Host!RemoveOld(p)
  <2>1. p # NoProcess /\ at \notin Settling
    BY <1>1, <1>5, CommandHere DEF Host!StopOld, Host!RemoveOld, ServerTurns, Settling
  <2>2. \A q \in Lone : q = p
    BY <2>1 DEF OneCommand, Host!Processes
  <2> QED
    BY <1>3, <1>4, <2>1, <2>2 DEF ConfigKept, Config, Current, Settling
<1>6. CASE Host!Check(p)
  <2>1. UNCHANGED units
    BY <1>6 DEF Host!Check
  <2> QED
    BY <1>1, <1>3, <1>4, <1>6, <2>1, LoneRuns DEF ConfigKept, Config, Current, Settling, Host!OldRuns
<1> QED
  BY <1>5, <1>6

LEMMA ConfigAdopted ==
  ASSUME SetupInv, ConfigKept, NEW p \in Host!Processes, Host!Adopt(p)
  PROVE  ConfigKept'
<1>1. UNCHANGED <<units, accepted, spoiled>> /\ ~Host!OldRuns
  BY DEF Host!Adopt, SetupInv, FoldersHeld
<1>2. CASE /\ procs[p].at = "adopt state" /\ Host!Goto(p, "load") /\ UNCHANGED configs
  BY <1>1, <1>2, ConfigGoes DEF Turns, Settling, Host!OldRuns
<1>3. CASE /\ configs' = Host!Adopted(configs) /\ Host!Goto(p, "adopt state")
  <2>1. PICK r \in Proc : /\ procs' = [procs EXCEPT ![p] = r]
                          /\ r = procs'[p] /\ r = [procs[p] EXCEPT !.at = "adopt state"]
    BY <1>3, Going DEF Turns
  <2>2. procs'[p].at = "adopt state" /\ \A q \in Host!Processes : q # p => procs'[q] = procs[q]
    <3>1. procs \in [Host!Processes -> Proc]
      BY DEF SetupInv, HostWorld
    <3> QED
      BY <2>1, <3>1 DEF Proc
  <2>3. CASE configs.new # None
    BY <1>1, <1>3, <2>2, <2>3, LoneRuns DEF Host!Adopted, ConfigKept, Config, Current, Settling
  <2>4. CASE configs.new = None
    <3>1. configs'.new = configs.old /\ configs'.old = None
      BY <1>3, <2>4 DEF Host!Adopted
    <3> QED
      BY <1>1, <2>2, <2>4, <3>1, LoneRuns DEF ConfigKept, Config, Current, Settling
  <2> QED
    BY <2>3, <2>4
<1> QED
  BY <1>2, <1>3 DEF Host!Adopt

LEMMA ConfigLoaded ==
  ASSUME SetupInv, ConfigKept, NEW p \in Host!Processes, Host!Load(p)
  PROVE  ConfigKept'
<1> DEFINE at == CASE procs[p].kind = "install" -> "unit"
                   [] procs[p].kind = "setup"   -> "default"
                   [] OTHER                     -> "ensure"
           r == [procs[p] EXCEPT !.allow = Host!Allowed(Host!Settings), !.at = at]
<1>1. procs \in [Host!Processes -> Proc] /\ procs[p].at = "load"
      /\ UNCHANGED <<units, configs, accepted, spoiled>>
  BY DEF SetupInv, HostWorld, Host!Load
<1>2. Host!Allowed(Host!Settings) \in SUBSET (Looks \cup Addresses)
  BY SettingsTyped DEF Host!Allowed, Host!Config
<1>3. at \in {"unit", "default", "ensure"}
  OBVIOUS
<1>4. procs' = [procs EXCEPT ![p] = r]
  BY <1>1 DEF Host!Load
<1> HIDE DEF at
<1>5. r \in Proc /\ r.at = at
  BY <1>1, <1>2, <1>3 DEF Proc, Turns
<1> HIDE DEF r
<1> QED
  BY <1>1, <1>3, <1>4, <1>5, ConfigGoesOn DEF Settling, Host!OldRuns

(* Setup asks from the settings that hold, and writes them with what it   *)
(* was told.                                                               *)
LEMMA SettingsAreConfig ==
  ASSUME SetupInv, configs.old = None \/ configs.new # None
  PROVE  Host!Settings = Config
BY DEF Host!Settings, Config, Current

LEMMA ConfigAsked ==
  ASSUME SetupInv, ConfigKept, OneCommand, NEW p \in Host!Processes,
         Host!AskDefault(p) \/ Host!LoadNetworks(p) \/ Host!AskLan(p) \/ Host!AskService(p)
  PROVE  ConfigKept'
<1>1. procs \in [Host!Processes -> Proc] /\ UNCHANGED units
  BY DEF SetupInv, HostWorld, Host!AskDefault, Host!LoadNetworks, Host!AskLan, Host!AskService
<1>2. p # NoProcess /\ procs[p].at \in Settling
  BY CommandHere DEF Host!AskDefault, Host!LoadNetworks, Host!AskLan, Host!AskService, ServerTurns,
     Settling
<1>3. p \in Lone /\ \A q \in Lone : q = p
  BY <1>2 DEF OneCommand, Host!Processes
<1>4. CASE Host!AskService(p)
  <2>1. PICK at \in {"unit", "ensure"} : Host!Goto(p, at)
    BY <1>4 DEF Host!AskService
  <2> QED
    BY <1>1, <1>4, <2>1, ConfigGoes DEF Host!AskService, Turns, Settling, Host!OldRuns
<1>5. CASE Host!AskDefault(p) /\ UNCHANGED configs
  <2>1. UNCHANGED accepted /\ spoiled \subseteq spoiled'
    BY <1>5 DEF Host!AskDefault, Host!Set
  <2> QED
    BY <1>1, <1>2, <1>5, <2>1, ConfigGoes DEF Host!AskDefault, Turns, Settling, Host!OldRuns
<1>6. CASE Host!AskDefault(p) /\ ~UNCHANGED configs
  <2>1. Host!Set([Host!Settings EXCEPT !.default = TRUE]) /\ Host!Goto(p, "network") /\ UNCHANGED accepted
    BY <1>6 DEF Host!AskDefault
  <2>2. configs'.new = [Host!Settings EXCEPT !.default = TRUE] /\ configs'.old = configs.old
        /\ (spoiled' = {} => configs.old = None \/ configs.new # None) /\ spoiled \subseteq spoiled'
    BY <2>1 DEF Host!Set, SetupInv, HostWorld
  <2>3. configs'.new \in Host!Config /\ configs'.new.allow = Host!Settings.allow
    BY <2>2, SettingsTyped DEF Host!Config
  <2>4. Host!Allowed(configs'.new) = Host!Allowed(Host!Settings)
    BY <2>3 DEF Host!Allowed
  <2>5. procs'[p].at = "network"
    BY <1>1, <2>1 DEF Host!Goto, Proc
  <2> QED
    BY <1>1, <1>3, <2>1, <2>2, <2>3, <2>4, <2>5, NoneAssumption, SettingsAreConfig
       DEF ConfigKept, Config, Current, Host!OldRuns
<1>7. CASE Host!LoadNetworks(p)
  <2>1. procs'[p].at = "lans" /\ procs'[p].allow = Host!Allowed(Host!Settings)
        /\ UNCHANGED <<configs, accepted, spoiled>>
    BY <1>1, <1>7 DEF Host!LoadNetworks, Proc
  <2> QED
    BY <1>1, <1>2, <1>3, <2>1, SettingsAreConfig DEF ConfigKept, Config, Current, Host!OldRuns
<1>8. CASE Host!AskLan(p)
  <2>1. PICK lan \in procs[p].asked :
         \/ /\ procs' = [procs EXCEPT ![p].asked = @ \ {lan}, ![p].allow = @ \cup {lan}]
            /\ Host!Set([Host!Settings EXCEPT !.allow = procs[p].allow \cup {lan}])
            /\ accepted' = accepted \cup {lan}
         \/ /\ procs' = [procs EXCEPT ![p].asked = @ \ {lan}]
            /\ UNCHANGED <<configs, accepted, spoiled>>
    BY <1>8 DEF Host!AskLan
  <2>2. procs[p].at = "lans" /\ lan \in Addresses
    BY <1>1, <1>8, <2>1 DEF Host!AskLan, Proc
  <2>3. CASE /\ procs' = [procs EXCEPT ![p].asked = @ \ {lan}]
             /\ UNCHANGED <<configs, accepted, spoiled>>
    <3>1. procs'[p].at = "lans" /\ procs'[p].allow = procs[p].allow
      BY <1>1, <2>2, <2>3 DEF Proc
    <3> QED
      BY <1>1, <1>3, <2>2, <2>3, <3>1 DEF ConfigKept, Config, Current, Settling, Host!OldRuns
  <2>4. CASE /\ procs' = [procs EXCEPT ![p].asked = @ \ {lan}, ![p].allow = @ \cup {lan}]
             /\ Host!Set([Host!Settings EXCEPT !.allow = procs[p].allow \cup {lan}])
             /\ accepted' = accepted \cup {lan}
    <3>1. procs'[p].at = "lans" /\ procs'[p].allow = procs[p].allow \cup {lan}
      BY <1>1, <2>2, <2>4 DEF Proc
    <3>2. /\ configs'.new = [Host!Settings EXCEPT !.allow = procs[p].allow \cup {lan}]
          /\ configs'.old = configs.old /\ spoiled \subseteq spoiled'
          /\ spoiled' = {} => configs.old = None \/ configs.new # None
      BY <2>4 DEF Host!Set, SetupInv, HostWorld
    <3>3. configs'.new \in Host!Config /\ configs'.new.allow = procs[p].allow \cup {lan}
      BY <1>1, <2>2, <3>2, SettingsTyped DEF Host!Config, Proc
    <3>4. Host!Allowed(configs'.new) = procs[p].allow \cup {lan}
      BY <3>3 DEF Host!Allowed
    <3>5. spoiled' = {} => accepted \subseteq procs[p].allow
      BY <1>3, <2>2, <3>2 DEF ConfigKept
    <3> QED
      BY <1>1, <1>3, <2>4, <3>1, <3>2, <3>3, <3>4, <3>5, NoneAssumption
         DEF ConfigKept, Config, Current, Host!OldRuns
  <2> QED
    BY <2>1, <2>3, <2>4
<1> QED
  BY <1>4, <1>5, <1>6, <1>7, <1>8

LEMMA ConfigRestarted ==
  ASSUME SetupInv, ConfigKept, NEW p \in Host!Processes, Host!Restart(p)
  PROVE  ConfigKept'
<1>1. /\ procs[p].at = "start" /\ p # NoProcess /\ UNCHANGED <<configs, accepted>>
      /\ units' = [units EXCEPT !.new = "on"] /\ spoiled \subseteq spoiled'
      /\ procs' = [procs EXCEPT ![NoProcess] = Host!Idle, ![p] =
         IF @.kind = "setup" THEN [@ EXCEPT !.at = "ensure"] ELSE Host!Idle]
  BY CommandHere DEF Host!Restart, Host!bounds, ServerTurns
<1>2. procs \in [Host!Processes -> Proc] /\ NoProcess \in Host!Processes
  BY DEF SetupInv, HostWorld, Host!Processes
<1>3. procs'[p].at \in {"ensure", "idle"}
  BY <1>1, <1>2, IdleProc DEF Proc
<1>4. \A q \in Host!Processes : q # p /\ q # NoProcess => procs'[q] = procs[q]
  BY <1>1, <1>2
<1>5. Host!OldRuns => Host!OldRuns'
  BY <1>1 DEF Host!OldRuns, SetupInv, HostWorld
<1>6. \A q \in Lone : q # NoProcess
  BY LoneAssumption
<1> QED
  BY <1>1, <1>3, <1>4, <1>5, <1>6, LoneRuns, ConfigStays DEF Settling

LEMMA EveryConfigStep == ASSUME SetupInv, ConfigKept, OneCommand, Host!Next PROVE ConfigKept'
<1>1. ASSUME NEW p \in Host!Processes, Host!Step(p) PROVE ConfigKept'
  BY <1>1, ConfigNotTouched, ConfigOutlivesOld, ConfigAdopted, ConfigLoaded, ConfigAsked,
     ConfigRestarted DEF Host!Step
<1>2. ASSUME NEW m \in Tasks, Host!Pair(m) \/ Host!PairWithOld(m) PROVE ConfigKept'
  BY <1>2, ConfigStays DEF Host!Pair, Host!PairWithOld, Host!bounds, Host!OldRuns
<1>3. CASE Host!Serve
  <2> DEFINE r == [Host!Idle EXCEPT !.kind = "serve", !.at = "check"]
  <2>1. r \in Proc /\ r.at = "check" /\ procs' = [procs EXCEPT ![NoProcess] = r]
    BY <1>3, IdleProc DEF Proc, Turns, Host!Serve, Host!Start, Host!Kinds
  <2>2. UNCHANGED <<units, configs, accepted, spoiled>>
    BY <1>3 DEF Host!Serve
  <2> HIDE DEF r
  <2> QED
    BY <2>1, <2>2, LoneRuns, ConfigGoesOn DEF Settling, Host!OldRuns
<1> QED
  BY <1>1, <1>2, <1>3 DEF Host!Next

LEMMA SetupTyped == ASSUME SetupInv PROVE Host!TypeOK
BY DEF SetupInv, HostWorld, Host!TypeOK, Proc

LEMMA SetupAlways == AllSpec => [](AtSetup => SetupInv)
<1>1. AllInit => (AtSetup => SetupInv)
  BY SetupStarts DEF AllInit, AtStore, AtDoor, OnMac, AtSetup, Called
<1>2. (AtSetup => SetupInv) /\ [AllNext]_allVars => (AtSetup => SetupInv)'
  <2> SUFFICES ASSUME AtSetup => SetupInv, [AllNext]_allVars, AtSetup' PROVE SetupInv'
    OBVIOUS
  <2>1. SetupInv
    BY DEF AllNext, allVars, AtSetup
  <2> QED
    BY <2>1, SetupStays, EverySetupStep
       DEF AllNext, allVars, AtStore, AtDoor, OnMac, AtSetup, Called
<1> QED
  BY <1>1, <1>2, PTL DEF AllSpec

(* A Mac that paired finds the key it pinned, and itself known, whenever   *)
(* the server is up, however many commands run and wherever they are       *)
(* killed, short of the three things the code doesn't survive (certs.rs,   *)
(* service.rs).                                                            *)
THEOREM PinsAlwaysHeld == AllSpec => [](AtSetup => Host!PinsHeld)
<1>1. ASSUME AtSetup => SetupInv, AtSetup PROVE Host!PinsHeld
  <2> SUFFICES ASSUME spoiled = {}, procs[NoProcess].at = "up", NEW m \in Tasks, pins[m] # 0
               PROVE  Host!Knows(m)
    BY DEF Host!PinsHeld
  <2>1. NoProcess \in Host!Processes
    BY DEF Host!Processes
  <2>2. states.new # None /\ states.new.cert = procs[NoProcess].key
    BY <1>1, <2>1, Unspoiled DEF SetupInv, FoldersHeld, HasFolder, MadeBy
  <2> QED
    BY <1>1, <2>2 DEF SetupInv, PinsKnown, Current, Host!Knows
<1> QED
  BY <1>1, SetupAlways, PTL

(* The same, and that a network once accepted stays accepted, when         *)
(* commands on the terminal run one at a time: two that ask at once        *)
(* overwrite each other's answers.                                         *)
THEOREM SetupAlwaysHolds == ASSUME OneCommand PROVE AllSpec => []SetupHolds
<1>1. AllInit => (AtSetup => ConfigKept)
  BY ConfigStarts DEF AllInit, AtStore, AtDoor, OnMac, AtSetup, Called
<1>2. (AtSetup => SetupInv) /\ (AtSetup => ConfigKept) /\ [AllNext]_allVars => (AtSetup => ConfigKept)'
  <2> SUFFICES ASSUME AtSetup => SetupInv, AtSetup => ConfigKept, [AllNext]_allVars, AtSetup'
               PROVE  ConfigKept'
    OBVIOUS
  <2>1. SetupInv /\ ConfigKept
    BY DEF AllNext, allVars, AtSetup
  <2>2. CASE Host!Next
    BY <2>1, <2>2, OneCommand, EveryConfigStep
  <2>3. CASE UNCHANGED setupVars
    BY <2>1, <2>3, ConfigStays DEF setupVars, Host!OldRuns
  <2> QED
    BY <2>2, <2>3 DEF AllNext, allVars, AtStore, AtDoor, OnMac, AtSetup, Called
<1>3. (AtSetup => ConfigKept) => (AtSetup => Host!AcceptedHeld)
  BY DEF ConfigKept, Host!AcceptedHeld, Config, Current
<1>4. (AtSetup => Host!PinsHeld) /\ (AtSetup => Host!AcceptedHeld) => SetupHolds
  BY DEF SetupHolds
<1> QED
  BY <1>1, <1>2, <1>3, <1>4, SetupAlways, PinsAlwaysHeld, PTL DEF AllSpec

(***************************************************************************)
(* What sessions are called (SessionNames).                                *)
(***************************************************************************)

Listing == [at : {"idle", "look", "read", "keep", "answer"}, stamp : 0..MaxWrites, info : 0..MaxWrites]
Renaming == [at : {"idle", "append", "write", "screen", "refuse", "type", "enter", "poll",
                   "done"},
             name : Naming!AnyName, before : Naming!AnyName, answer : Naming!AnyName,
             whole : BOOLEAN]

NamesWorld ==
  /\ lines \in Seq(Naming!Line) /\ Len(lines) <= version
  /\ open \in BOOLEAN /\ version \in 0..MaxWrites
  /\ claude \in [up : BOOLEAN, ours : BOOLEAN, name : Naming!AnyName]
  /\ window \in BOOLEAN
  /\ prompt \in [other : BOOLEAN, new : Naming!AnyName, sent : BOOLEAN]
  /\ seen \in [stamp : 0..MaxWrites, info : 0..MaxWrites]
  /\ lists \in [Tasks -> Listing]
  /\ rename \in Renaming
  /\ rename.at # "idle" => rename.name \in Lone
  /\ nameLock \in BOOLEAN
  /\ named \in Naming!AnyName /\ merged \in BOOLEAN

(* No list and no cache knows a version younger than the file it came with. *)
KnowsEnough ==
  /\ seen.stamp <= seen.info /\ seen.info <= version
  /\ \A l \in Tasks :
       /\ lists[l].stamp <= version /\ lists[l].info <= version
       /\ lists[l].at \in {"keep", "answer"} => lists[l].stamp <= lists[l].info

(* Of the lines with a name one is the last. *)
NamedLines == {i \in DOMAIN lines : lines[i].kind = "custom"}
IsLast(m) == \A i \in NamedLines : i <= m
LastLine ==
  NamedLines # {} => \E m \in NamedLines : IsLast(m) /\ (merged \/ lines[m].name = named)
Unnamed == NamedLines = {} /\ ~merged => named = None

NamesInv == NamesWorld /\ LastLine /\ Unnamed /\ KnowsEnough

LEMMA LastIs ==
  ASSUME NEW S \in SUBSET Nat, NEW m \in S, \A i \in S : i <= m
  PROVE  Naming!Max(S) = m
<1>1. \A i \in S : m >= i
  OBVIOUS
<1>2. \A k \in S : (\A i \in S : k >= i) => k = m
  OBVIOUS
<1> QED
  BY <1>1, <1>2 DEF Naming!Max

LEMMA LastWritten == ASSUME NamesInv PROVE Naming!NameWritten
<1>1. NamedLines \subseteq Nat
  BY DEF NamedLines, NamesInv, NamesWorld
<1>2. CASE NamedLines = {}
  BY <1>2 DEF Naming!NameWritten, Naming!Latest, NamesInv, Unnamed, NamedLines
<1>3. CASE NamedLines # {}
  <2>1. PICK m \in NamedLines : IsLast(m) /\ (merged \/ lines[m].name = named)
    BY <1>3 DEF NamesInv, LastLine
  <2>2. Naming!Max(NamedLines) = m
    BY <1>1, <2>1, LastIs DEF IsLast
  <2> QED
    BY <1>3, <2>1, <2>2 DEF Naming!NameWritten, Naming!Latest, NamedLines
<1> QED
  BY <1>2, <1>3

(* What is written leaves the transcript in order. *)
FileKept ==
  /\ lines' \in Seq(Naming!Line) /\ Len(lines') <= version' /\ open' \in BOOLEAN
  /\ version' \in 0..MaxWrites /\ version <= version'
  /\ named' \in Naming!AnyName /\ merged' \in BOOLEAN
  /\ LastLine' /\ Unnamed'

LEMMA WriteKeeps ==
  ASSUME NamesWorld, LastLine, Unnamed, NEW line \in Naming!Line, Naming!Write(line),
         named' \in Naming!AnyName, merged' \in BOOLEAN,
         ~merged' => named' = IF line.kind = "custom" THEN line.name ELSE named,
         line.kind # "custom" /\ ~merged' => ~merged
  PROVE  FileKept
<1> DEFINE n == Len(lines) + 1
<1>1. lines \in Seq(Naming!Line) /\ version \in 0..MaxWrites /\ lines' = Append(lines, line)
      /\ version' = version + 1 /\ version < MaxWrites
  BY DEF NamesWorld, Naming!Write
<1>2. n \in Nat /\ Len(lines') = n /\ DOMAIN lines' = 1..n /\ DOMAIN lines = 1..Len(lines)
      /\ lines' \in Seq(Naming!Line)
  BY <1>1
<1>3. lines'[n] = line /\ \A i \in DOMAIN lines : lines'[i] = lines[i]
  BY <1>1
<1>4. CASE line.kind = "custom"
  <2>1. n \in NamedLines' /\ \A i \in NamedLines' : i <= n
    BY <1>2, <1>3, <1>4 DEF NamedLines
  <2>3. merged' \/ lines'[n].name = named'
    BY <1>3, <1>4
  <2>2. LastLine' /\ Unnamed'
    BY <2>1, <2>3 DEF LastLine, Unnamed, IsLast
  <2> QED
    BY <1>1, <1>2, <1>4, <2>2 DEF FileKept, NamesWorld, Naming!Write, Naming!Line
<1>5. CASE line.kind # "custom"
  <2>1. NamedLines' = NamedLines
    BY <1>2, <1>3, <1>5 DEF NamedLines
  <2>2. \A i \in NamedLines : lines'[i] = lines[i]
    BY <1>3 DEF NamedLines
  <2>3. LastLine' /\ Unnamed'
    BY <1>5, <2>1, <2>2 DEF LastLine, Unnamed, IsLast
  <2> QED
    BY <1>1, <1>2, <1>5, <2>3 DEF FileKept, NamesWorld, Naming!Write, Naming!Line
<1> QED
  BY <1>4, <1>5

LEMMA Unwritten ==
  ASSUME NamesInv, UNCHANGED <<lines, version, named, merged>>, open' \in BOOLEAN
  PROVE  FileKept
<1>1. NamedLines' = NamedLines
  BY DEF NamedLines
<1>2. version <= version'
  BY DEF NamesInv, NamesWorld
<1> QED
  BY <1>1, <1>2 DEF FileKept, NamesInv, NamesWorld, LastLine, Unnamed, IsLast

ClaudeFits == claude \in [up : BOOLEAN, ours : BOOLEAN, name : Naming!AnyName] /\ window \in BOOLEAN
PromptFits == prompt \in [other : BOOLEAN, new : Naming!AnyName, sent : BOOLEAN]
RenameFits ==
  /\ rename \in Renaming
  /\ rename.at # "idle" => rename.name \in Lone
  /\ nameLock \in BOOLEAN

LEMMA NamesTyped == ASSUME NamesInv PROVE ClaudeFits /\ PromptFits /\ RenameFits
BY DEF NamesInv, NamesWorld, ClaudeFits, PromptFits, RenameFits

LEMMA Listless ==
  ASSUME NamesInv, FileKept, ClaudeFits', PromptFits', RenameFits', UNCHANGED <<seen, lists>>
  PROVE  NamesInv'
<1>1. NamesWorld'
  BY DEF NamesInv, NamesWorld, FileKept, ClaudeFits, PromptFits, RenameFits
<1>2. KnowsEnough'
  <2>1. /\ seen \in [stamp : 0..MaxWrites, info : 0..MaxWrites] /\ version \in 0..MaxWrites /\ version' \in 0..MaxWrites
        /\ lists \in [Tasks -> Listing] /\ version <= version'
    BY DEF NamesInv, NamesWorld, FileKept
  <2>2. seen.info \in 0..MaxWrites /\ seen.stamp \in 0..MaxWrites
    BY <2>1
  <2>3. \A l \in Tasks : lists[l].stamp \in 0..MaxWrites /\ lists[l].info \in 0..MaxWrites
    BY <2>1 DEF Listing
  <2> QED
    BY <2>1, <2>2, <2>3 DEF NamesInv, KnowsEnough
<1> QED
  BY <1>1, <1>2 DEF NamesInv, FileKept

LEMMA NamesOf == /\ None \in Naming!AnyName /\ Other \in Naming!AnyName
                 /\ \A n \in Lone : n \in Naming!AnyName
BY DEF Naming!AnyName

LEMMA NamesStart == ASSUME Naming!Init PROVE NamesInv
<1>1. /\ lines = <<>> /\ open = FALSE /\ version = 0 /\ named = None /\ merged = FALSE
      /\ claude = Naming!Stopped /\ window = FALSE /\ prompt = Naming!Empty
      /\ seen = [stamp |-> 0, info |-> 0]
      /\ lists = [l \in Tasks |-> Naming!NotAsked]
      /\ rename = Naming!NoRename /\ nameLock = FALSE
  BY DEF Naming!Init
<1>2. None \in Naming!AnyName /\ 0 \in 0..MaxWrites
  BY DEF Naming!AnyName
<1>3. NamesWorld
  <2>1. lines \in Seq(Naming!Line) /\ Len(lines) = 0
    BY <1>1
  <2>2. ClaudeFits
    BY <1>1, <1>2 DEF ClaudeFits, Naming!Stopped
  <2>3. PromptFits
    BY <1>1, <1>2 DEF PromptFits, Naming!Empty
  <2>4. RenameFits
    BY <1>1, <1>2 DEF RenameFits, Renaming, Naming!NoRename
  <2>5. Naming!NotAsked \in Listing
    BY <1>2 DEF Naming!NotAsked, Listing
  <2>6. seen \in [stamp : 0..MaxWrites, info : 0..MaxWrites]
    BY <1>1, <1>2
  <2>7. lists \in [Tasks -> Listing]
    BY <1>1, <2>5
  <2>8. lines \in Seq(Naming!Line) /\ Len(lines) <= version
    BY <1>1, <2>1
  <2>9. open \in BOOLEAN /\ window \in BOOLEAN /\ version \in 0..MaxWrites
        /\ named \in Naming!AnyName /\ merged \in BOOLEAN
    BY <1>1, <1>2
  <2> QED
    BY <2>2, <2>3, <2>4, <2>6, <2>7, <2>8, <2>9 DEF NamesWorld, ClaudeFits, PromptFits, RenameFits
<1>4. NamedLines = {}
  BY <1>1 DEF NamedLines
<1>5. KnowsEnough
  <2>1. \A l \in Tasks : lists[l] = Naming!NotAsked
    BY <1>1
  <2> QED
    BY <1>1, <2>1 DEF KnowsEnough, Naming!NotAsked
<1> QED
  BY <1>1, <1>3, <1>4, <1>5 DEF NamesInv, LastLine, Unnamed

LEMMA NamesOpen == ASSUME NamesInv, Naming!OpenWindow PROVE NamesInv'
<1>1. ClaudeFits' /\ PromptFits' /\ RenameFits'
  BY NamesTyped DEF ClaudeFits, PromptFits, RenameFits, Naming!OpenWindow
<1>2. FileKept
  BY Unwritten DEF NamesInv, NamesWorld, Naming!OpenWindow, Naming!file
<1> QED
  BY <1>1, <1>2, Listless DEF Naming!OpenWindow

LEMMA NamedSo == ASSUME NamesInv PROVE Naming!Latest("custom") \in Naming!AnyName
<1>1. NamedLines \subseteq Nat /\ None \in Naming!AnyName
  BY NamesOf DEF NamedLines, NamesInv, NamesWorld
<1>2. CASE NamedLines # {}
  <2>1. PICK m \in NamedLines : IsLast(m)
    BY <1>2 DEF NamesInv, LastLine
  <2>2. Naming!Max(NamedLines) = m
    BY <1>1, <2>1, LastIs DEF IsLast
  <2>3. m \in DOMAIN lines /\ lines \in Seq(Naming!Line)
    BY <2>1 DEF NamedLines, NamesInv, NamesWorld
  <2>4. lines[m] \in Naming!Line
    BY <2>3
  <2>5. lines[m].name \in Naming!AnyName
    BY <2>4 DEF Naming!Line
  <2> QED
    BY <1>2, <2>2, <2>5 DEF Naming!Latest, NamedLines
<1> QED
  BY <1>1, <1>2 DEF Naming!Latest, NamedLines

LEMMA NamesRegister == ASSUME NamesInv, Naming!Register PROVE NamesInv'
<1>1. ClaudeFits'
  BY NamesTyped, NamedSo DEF ClaudeFits, Naming!Register
<1>2. PromptFits' /\ RenameFits'
  BY NamesTyped, NamesOf DEF PromptFits, RenameFits, Naming!Register, Naming!Empty
<1>3. FileKept
  BY Unwritten DEF Naming!Register
<1> QED
  BY <1>1, <1>2, <1>3, Listless DEF Naming!Register

LEMMA Renamed ==
  ASSUME NamesInv, NEW n \in Naming!AnyName, claude' = [claude EXCEPT !.name = n],
         UNCHANGED window
  PROVE  ClaudeFits'
BY NamesTyped DEF ClaudeFits

LEMMA NamesTitle == ASSUME NamesInv, Naming!Title PROVE NamesInv'
<1>1. PromptFits' /\ RenameFits'
  BY NamesTyped DEF PromptFits, RenameFits, Naming!Title
<1>2. PICK name \in Lone :
        \/ /\ Naming!Write([kind |-> "ai", name |-> name])
           /\ UNCHANGED <<claude, named, merged>>
        \/ /\ Naming!WriteName(name)
           /\ claude' = [claude EXCEPT !.name = name]
  BY DEF Naming!Title
<1>3. CASE Naming!Write([kind |-> "ai", name |-> name]) /\ UNCHANGED <<claude, named, merged>>
  <2>1. [kind |-> "ai", name |-> name] \in Naming!Line
    BY NamesOf DEF Naming!Line, Naming!Kinds
  <2>2. FileKept
    BY <1>3, <2>1, WriteKeeps DEF NamesInv, NamesWorld
  <2>3. ClaudeFits'
    BY <1>3, NamesTyped DEF ClaudeFits, Naming!Title
  <2> QED
    BY <1>1, <2>2, <2>3, Listless DEF Naming!Title
<1>4. CASE Naming!WriteName(name) /\ claude' = [claude EXCEPT !.name = name]
  <2>1. [kind |-> "custom", name |-> name] \in Naming!Line
    BY NamesOf DEF Naming!Line, Naming!Kinds
  <2>2. FileKept
    BY <1>4, <2>1, NamesOf, WriteKeeps DEF NamesInv, Naming!WriteName
  <2>3. ClaudeFits'
    BY <1>4, NamesOf, Renamed DEF Naming!Title
  <2> QED
    BY <1>1, <2>2, <2>3, Listless DEF Naming!Title
<1> QED
  BY <1>2, <1>3, <1>4

LEMMA NamesUse == ASSUME NamesInv, Naming!Use PROVE NamesInv'
<1>1. ClaudeFits' /\ RenameFits'
  BY NamesTyped DEF ClaudeFits, RenameFits, Naming!Use
<1>2. PromptFits'
  BY NamesTyped, NamesOf DEF PromptFits, Naming!Use, Naming!Empty
<1>3. FileKept
  BY Unwritten DEF NamesInv, NamesWorld, Naming!Use, Naming!file
<1> QED
  BY <1>1, <1>2, <1>3, Listless DEF Naming!Use

LEMMA NamesTake == ASSUME NamesInv, Naming!TakeSent PROVE NamesInv'
<1>1. PromptFits' /\ RenameFits' /\ window' = window /\ UNCHANGED <<seen, lists>>
  BY NamesTyped, NamesOf DEF PromptFits, RenameFits, Naming!TakeSent, Naming!Empty
<1>2. CASE UNCHANGED <<lines, open, version, claude, named, merged>>
  BY <1>1, <1>2, NamesTyped, Unwritten, Listless DEF NamesInv, NamesWorld, ClaudeFits
<1>3. ASSUME NEW name \in {prompt.new, Other} \ {None}, Naming!WriteName(name),
             claude' = [claude EXCEPT !.name = name]
      PROVE  NamesInv'
  <2>1. name \in Naming!AnyName
    BY <1>3, NamesOf, NamesTyped DEF PromptFits
  <2>2. [kind |-> "custom", name |-> name] \in Naming!Line
    BY <2>1 DEF Naming!Line, Naming!Kinds
  <2>3. FileKept
    BY <1>3, <2>1, <2>2, WriteKeeps DEF NamesInv, Naming!WriteName
  <2>4. ClaudeFits'
    BY <1>1, <1>3, <2>1, Renamed
  <2> QED
    BY <1>1, <2>3, <2>4, Listless
<1> QED
  BY <1>2, <1>3 DEF Naming!TakeSent, Naming!file

LEMMA NamesEnd == ASSUME NamesInv, Naming!End PROVE NamesInv'
<1>1. ClaudeFits' /\ PromptFits' /\ RenameFits' /\ UNCHANGED <<seen, lists, named, merged>>
  BY NamesTyped, NamesOf DEF ClaudeFits, PromptFits, RenameFits, Naming!End, Naming!Empty, Naming!Stopped
<1>2. CASE UNCHANGED Naming!file
  BY <1>1, <1>2, Unwritten, Listless DEF NamesInv, NamesWorld, Naming!file
<1>3. CASE Naming!Write([kind |-> "cut", name |-> None])
  <2>1. [kind |-> "cut", name |-> None] \in Naming!Line
    BY NamesOf DEF Naming!Line, Naming!Kinds
  <2>2. FileKept
    BY <1>1, <1>3, <2>1, WriteKeeps DEF NamesInv, NamesWorld
  <2> QED
    BY <1>1, <2>2, Listless
<1> QED
  BY <1>2, <1>3 DEF Naming!End
LEMMA NamesListing ==
  ASSUME NamesInv, NEW l \in Tasks,
         NEW r \in Listing, lists' = [lists EXCEPT ![l] = r],
         r.stamp <= version, r.info <= version,
         r.at \in {"keep", "answer"} => r.stamp <= r.info,
         seen' \in [stamp : 0..MaxWrites, info : 0..MaxWrites],
         seen'.stamp <= seen'.info, seen'.info <= version,
         UNCHANGED Naming!NotListing
  PROVE  NamesInv'
<1>1. UNCHANGED <<lines, open, version, claude, window, prompt, rename, nameLock, named, merged>>
  BY DEF Naming!NotListing, Naming!file
<1>2. lists' \in [Tasks -> Listing]
  BY DEF NamesInv, NamesWorld
<1>3. NamesWorld'
  BY <1>1, <1>2 DEF NamesInv, NamesWorld
<1>4. NamedLines' = NamedLines
  BY <1>1 DEF NamedLines
<1>5. LastLine' /\ Unnamed'
  BY <1>1, <1>4 DEF NamesInv, LastLine, Unnamed, IsLast
<1>6. \A k \in Tasks : lists'[k] = IF k = l THEN r ELSE lists[k]
  BY DEF NamesInv, NamesWorld
<1>7. KnowsEnough'
  BY <1>1, <1>6 DEF NamesInv, KnowsEnough
<1> QED
  BY <1>3, <1>5, <1>7 DEF NamesInv

LEMMA ListsAre ==
  ASSUME NamesInv, NEW l \in Tasks
  PROVE  /\ lists[l] \in Listing /\ version \in 0..MaxWrites /\ seen \in [stamp : 0..MaxWrites, info : 0..MaxWrites]
         /\ lists[l].stamp \in 0..MaxWrites /\ lists[l].info \in 0..MaxWrites
         /\ seen.stamp <= seen.info /\ seen.info <= version
         /\ lists[l].stamp <= version /\ lists[l].info <= version
         /\ lists[l].at \in {"keep", "answer"} => lists[l].stamp <= lists[l].info
<1>1. lists[l] \in Listing /\ version \in 0..MaxWrites /\ seen \in [stamp : 0..MaxWrites, info : 0..MaxWrites]
  BY DEF NamesInv, NamesWorld
<1>2. lists[l].stamp \in 0..MaxWrites /\ lists[l].info \in 0..MaxWrites
  BY <1>1 DEF Listing
<1> QED
  BY <1>1, <1>2 DEF NamesInv, KnowsEnough

LEMMA NamesLists ==
  ASSUME NamesInv, NEW l \in Tasks,
         Naming!Ask(l) \/ Naming!Look(l) \/ Naming!Read(l) \/ Naming!Answer(l)
  PROVE  NamesInv'
<1>0. lists[l] \in Listing /\ version \in 0..MaxWrites /\ seen \in [stamp : 0..MaxWrites, info : 0..MaxWrites]
  BY ListsAre
<1>1. CASE Naming!Ask(l)
  <2> DEFINE r == [Naming!NotAsked EXCEPT !.at = "look", !.stamp = version]
  <2>0. r.at = "look" /\ r.stamp = version /\ r.info = 0 /\ r \in Listing
    <3>1. Naming!NotAsked \in Listing /\ Naming!NotAsked.info = 0
      BY DEF Naming!NotAsked, Listing
    <3> QED
      BY <1>0, <3>1 DEF Listing
  <2>1. r \in Listing /\ r.stamp <= version /\ r.info <= version /\ r.at = "look"
    BY <1>0, <2>0
  <2>2. lists' = [lists EXCEPT ![l] = r] /\ seen' = seen /\ UNCHANGED Naming!NotListing
    BY <1>1 DEF Naming!Ask
  <2>3. seen'.stamp <= seen'.info /\ seen'.info <= version
    BY <2>2, ListsAre
  <2> HIDE DEF r
  <2> QED
    BY <1>0, <2>1, <2>2, <2>3, NamesListing
<1>2. CASE Naming!Look(l)
  <2>1. seen' = seen /\ UNCHANGED Naming!NotListing /\ lists[l].at = "look"
    BY <1>2 DEF Naming!Look
  <2>2. CASE seen.stamp = lists[l].stamp
    <3> DEFINE r == [lists[l] EXCEPT !.info = seen.info, !.at = "answer"]
    <3>1. /\ r \in Listing /\ r.at = "answer" /\ r.info = seen.info /\ r.stamp = lists[l].stamp
      BY <1>0 DEF Listing
    <3>2. lists' = [lists EXCEPT ![l] = r]
      BY <1>2, <2>2 DEF Naming!Look
    <3> HIDE DEF r
    <3> QED
      BY <1>0, <2>1, <2>2, <3>1, <3>2, ListsAre, NamesListing
  <2>3. CASE seen.stamp # lists[l].stamp
    <3> DEFINE r == [lists[l] EXCEPT !.at = "read"]
    <3>1. /\ r \in Listing /\ r.at = "read" /\ r.info = lists[l].info /\ r.stamp = lists[l].stamp
      BY <1>0 DEF Listing
    <3>2. lists' = [lists EXCEPT ![l] = r]
      BY <1>2, <2>3 DEF Naming!Look, Naming!GotoList
    <3> HIDE DEF r
    <3> QED
      BY <1>0, <2>1, <3>1, <3>2, ListsAre, NamesListing
  <2> QED
    BY <2>2, <2>3
<1>3. CASE Naming!Read(l) /\ lists[l].at = "read"
  <2> DEFINE r == [lists[l] EXCEPT !.info = version, !.at = "keep"]
  <2>1. /\ r \in Listing /\ r.at = "keep" /\ r.info = version /\ r.stamp = lists[l].stamp
    BY <1>0 DEF Listing
  <2>2. lists' = [lists EXCEPT ![l] = r] /\ seen' = seen /\ UNCHANGED Naming!NotListing
    BY <1>3 DEF Naming!Read
  <2>3. version <= version
    BY <1>0
  <2> HIDE DEF r
  <2> QED
    BY <1>0, <2>1, <2>2, <2>3, ListsAre, NamesListing
<1>4. CASE Naming!Read(l) /\ lists[l].at = "keep"
  <2> DEFINE r == [lists[l] EXCEPT !.at = "answer"]
  <2>1. /\ r \in Listing /\ r.at = "answer" /\ r.info = lists[l].info /\ r.stamp = lists[l].stamp
    BY <1>0 DEF Listing
  <2>2. /\ lists' = [lists EXCEPT ![l] = r] /\ UNCHANGED Naming!NotListing
        /\ seen' = [stamp |-> lists[l].stamp, info |-> lists[l].info]
    BY <1>4 DEF Naming!Read, Naming!GotoList
  <2>3. /\ seen' \in [stamp : 0..MaxWrites, info : 0..MaxWrites] /\ seen'.stamp <= seen'.info
        /\ seen'.info <= version
    BY <1>4, <2>2, ListsAre
  <2> HIDE DEF r
  <2> QED
    BY <1>0, <1>4, <2>1, <2>2, <2>3, ListsAre, NamesListing
<1>5. CASE Naming!Answer(l)
  <2> DEFINE r == Naming!NotAsked
  <2>1. r \in Listing /\ r.at = "idle" /\ r.info = 0 /\ r.stamp = 0
    BY DEF Listing, Naming!NotAsked
  <2>2. lists' = [lists EXCEPT ![l] = r] /\ seen' = seen /\ UNCHANGED Naming!NotListing
    BY <1>5 DEF Naming!Answer
  <2>3. r.stamp <= version /\ r.info <= version
    BY <1>0, <2>1
  <2>4. seen'.stamp <= seen'.info /\ seen'.info <= version
    BY <2>2, ListsAre
  <2> HIDE DEF r
  <2> QED
    BY <1>0, <2>1, <2>2, <2>3, <2>4, NamesListing
<1>6. ASSUME Naming!Read(l) PROVE lists[l].at \in {"read", "keep"}
  BY <1>6 DEF Naming!Read
<1> QED
  BY <1>1, <1>2, <1>3, <1>4, <1>5, <1>6

(* Steps of a rename, and what they leave alone. *)
LEMMA NoName ==
  /\ Naming!NoRename \in Renaming /\ Naming!NoRename.at = "idle"
BY NamesOf DEF Naming!NoRename, Renaming

LEMMA NamesAsk == ASSUME NamesInv, Naming!AskRename PROVE NamesInv'
<1>1. FileKept /\ UNCHANGED <<claude, window, prompt, seen, lists>>
  BY Unwritten DEF NamesInv, NamesWorld, Naming!AskRename, Naming!file, Naming!NotRenaming
<1>2. PICK name \in Lone, at \in {"append", "screen", "refuse"} :
        rename' = [Naming!NoRename EXCEPT !.at = at, !.name = name, !.before = claude.name]
  <2>1. PICK name \in Lone :
          LET at == CASE ~claude.up /\ ~window       -> "append"
                      [] claude.up /\ claude.ours   -> "screen"
                      [] OTHER                      -> "refuse"
          IN rename' = [Naming!NoRename EXCEPT !.at = at, !.name = name, !.before = claude.name]
    BY DEF Naming!AskRename
  <2> DEFINE at == CASE ~claude.up /\ ~window       -> "append"
                      [] claude.up /\ claude.ours   -> "screen"
                      [] OTHER                      -> "refuse"
  <2>2. at \in {"append", "screen", "refuse"}
    OBVIOUS
  <2> QED
    BY <2>1, <2>2
<1>3. RenameFits'
  <2>1. claude.name \in Naming!AnyName
    BY NamesTyped DEF ClaudeFits
  <2> QED
    BY <1>2, <2>1, NoName, NamesOf DEF RenameFits, Renaming, Naming!AskRename
<1>4. ClaudeFits' /\ PromptFits'
  BY <1>1, NamesTyped DEF ClaudeFits, PromptFits
<1> QED
  BY <1>1, <1>3, <1>4, Listless

(* One that only changes what the rename itself does. *)
LEMMA NamesSteps ==
  ASSUME NamesInv, RenameFits', UNCHANGED <<lines, open, version, claude, window, seen, lists, named, merged>>,
         PromptFits'
  PROVE  NamesInv'
<1>1. FileKept
  BY Unwritten DEF NamesInv, NamesWorld
<1>2. ClaudeFits'
  BY NamesTyped DEF ClaudeFits
<1> QED
  BY <1>1, <1>2, Listless

LEMMA NamesRefuses ==
  ASSUME NamesInv, Naming!Refuse, UNCHANGED Naming!NotRenaming PROVE NamesInv'
<1>1. RenameFits'
  BY NoName DEF Naming!Refuse, RenameFits
<1>2. PromptFits'
  BY NamesTyped DEF PromptFits, Naming!Refuse
<1> QED
  BY <1>1, <1>2, NamesSteps DEF Naming!Refuse, Naming!NotRenaming, Naming!file

LEMMA NamesLook == ASSUME NamesInv, Naming!LookAtEnd PROVE NamesInv'
<1>1. PICK whole \in BOOLEAN : rename' = [rename EXCEPT !.at = "write", !.whole = whole]
  <2>1. open \in BOOLEAN
    BY DEF NamesInv, NamesWorld
  <2> QED
    BY <2>1 DEF Naming!LookAtEnd
<1>2. rename \in Renaming /\ rename.name \in Lone /\ nameLock' \in BOOLEAN
  BY DEF NamesInv, NamesWorld, Naming!LookAtEnd
<1>3. RenameFits'
  BY <1>1, <1>2 DEF RenameFits, Renaming
<1>4. PromptFits'
  BY NamesTyped DEF PromptFits, Naming!LookAtEnd
<1> QED
  BY <1>3, <1>4, NamesSteps DEF Naming!LookAtEnd, Naming!file, Naming!NotRenaming

LEMMA NamesAppend == ASSUME NamesInv, Naming!AppendName PROVE NamesInv'
<1>1. rename.name \in Lone /\ rename.name \in Naming!AnyName
  BY NamesOf DEF Naming!AppendName, NamesInv, NamesWorld
<1>2. FileKept
  <2>1. CASE Naming!Lose(rename.name) /\ merged' = TRUE
    <3>1. [kind |-> "lost", name |-> rename.name] \in Naming!Line
      BY <1>1 DEF Naming!Line, Naming!Kinds
    <3> QED
      BY <1>1, <2>1, <3>1, WriteKeeps DEF NamesInv, Naming!Lose
  <2>2. CASE Naming!WriteName(rename.name)
    <3>1. [kind |-> "custom", name |-> rename.name] \in Naming!Line
      BY <1>1 DEF Naming!Line, Naming!Kinds
    <3> QED
      BY <1>1, <2>2, <3>1, WriteKeeps DEF NamesInv, Naming!WriteName
  <2>3. CASE UNCHANGED <<Naming!file, named, merged>>
    BY <2>3, Unwritten DEF NamesInv, NamesWorld, Naming!file
  <2> QED
    BY <2>1, <2>2, <2>3 DEF Naming!AppendName
<1>3. ClaudeFits' /\ PromptFits' /\ RenameFits' /\ UNCHANGED <<seen, lists>>
  BY NamesTyped, NoName DEF ClaudeFits, PromptFits, RenameFits, Naming!AppendName, Naming!NotRenaming
<1> QED
  BY <1>2, <1>3, Listless

LEMMA RenameGoes ==
  ASSUME NamesInv, rename.at # "idle", nameLock' = nameLock,
         NEW at \in {"type", "enter", "poll", "done"}, NEW n \in Naming!AnyName,
         \/ rename' = [rename EXCEPT !.at = at]
         \/ rename' = [rename EXCEPT !.at = at, !.answer = n]
  PROVE  RenameFits'
<1>1. rename \in Renaming /\ rename.name \in Lone /\ nameLock' \in BOOLEAN
  BY DEF NamesInv, NamesWorld
<1> QED
  BY <1>1, NamesTyped DEF RenameFits, Renaming

LEMMA NamesType == ASSUME NamesInv, Naming!Type PROVE NamesInv'
<1>1. RenameFits'
  BY RenameGoes, NamesOf DEF Naming!Type
<1>2. PromptFits'
  BY NamesTyped DEF PromptFits, Naming!Type
<1> QED
  BY <1>1, <1>2, NamesSteps DEF Naming!Type, Naming!file, Naming!NotRenaming

LEMMA NamesKeys == ASSUME NamesInv, Naming!Keys PROVE NamesInv'
<1>1. /\ UNCHANGED <<lines, open, version, claude, window, seen, lists, nameLock, named, merged>>
      /\ rename.at # "idle"
      /\ \E at \in {"enter", "poll"} : rename' = [rename EXCEPT !.at = at]
  BY DEF Naming!Keys, Naming!file, Naming!NotRenaming
<1>2. RenameFits'
  BY <1>1, RenameGoes, NamesOf
<1>3. PromptFits'
  <2>1. rename.at = "type" => rename.name \in Naming!AnyName
    BY NamesOf DEF NamesInv, NamesWorld
  <2> QED
    BY <2>1, NamesTyped DEF PromptFits, Naming!Keys
<1> QED
  BY <1>1, <1>2, <1>3, NamesSteps

LEMMA NamesPoll == ASSUME NamesInv, Naming!Poll PROVE NamesInv'
<1>1. CASE Naming!Refuse
  BY <1>1, NamesRefuses DEF Naming!Poll
<1>2. CASE /\ rename' = [rename EXCEPT !.at = "done", !.answer = claude.name]
           /\ UNCHANGED <<Naming!file, claude, prompt, nameLock, named, merged>>
  <2>1. claude.name \in Naming!AnyName
    BY NamesTyped DEF ClaudeFits
  <2>2. RenameFits'
    BY <1>2, <2>1, RenameGoes DEF Naming!Poll
  <2>3. PromptFits'
    BY <1>2, NamesTyped DEF PromptFits
  <2> QED
    BY <1>2, <2>2, <2>3, NamesSteps DEF Naming!Poll, Naming!file, Naming!NotRenaming
<1> QED
  BY <1>1, <1>2 DEF Naming!Poll

LEMMA NamesStays == ASSUME NamesInv, UNCHANGED nameVars PROVE NamesInv'
<1>1. UNCHANGED <<lines, open, version, claude, window, prompt, seen, lists, rename,
                  nameLock, named, merged>>
  BY DEF nameVars
<1>2. NamedLines' = NamedLines
  BY <1>1 DEF NamedLines
<1> QED
  BY <1>1, <1>2 DEF NamesInv, NamesWorld, LastLine, Unnamed, IsLast, KnowsEnough

LEMMA NamesStep == ASSUME NamesInv, Naming!Next PROVE NamesInv'
<1>1. ASSUME NEW l \in Tasks,
             Naming!Ask(l) \/ Naming!Look(l) \/ Naming!Read(l) \/ Naming!Answer(l)
      PROVE  NamesInv'
  BY <1>1, NamesLists
<1>2. CASE Naming!RefuseRename \/ Naming!AnswerRename
  BY <1>2, NamesRefuses DEF Naming!RefuseRename, Naming!AnswerRename
<1> QED
  BY <1>1, <1>2, NamesOpen, NamesRegister, NamesTitle, NamesUse, NamesTake, NamesEnd,
     NamesAsk, NamesLook, NamesAppend, NamesType, NamesKeys, NamesPoll DEF Naming!Next

LEMMA NamesAlways == AllSpec => [](Called => NamesInv)
<1>1. AllInit => (Called => NamesInv)
  BY NamesStart DEF AllInit, Called, AtStore, AtDoor, OnMac, AtSetup
<1>2. (Called => NamesInv) /\ [AllNext]_allVars => (Called => NamesInv)'
  <2> SUFFICES ASSUME Called => NamesInv, [AllNext]_allVars, Called' PROVE NamesInv'
    OBVIOUS
  <2>1. part' = part /\ Called
    BY DEF AllNext, allVars, Called
  <2>2. Naming!Next \/ UNCHANGED nameVars
    BY <2>1 DEF AllNext, allVars, Called, AtStore, AtDoor, OnMac, AtSetup
  <2> QED
    BY <2>1, <2>2, NamesStep, NamesStays
<1> QED
  BY <1>1, <1>2, PTL DEF AllSpec

(* What was written is the name given last, whoever gave it and however a  *)
(* write before the rename began had ended; one that ends short between the *)
(* rename's look and its own write takes the name with it.  And no list    *)
(* shows a transcript older than it found it (rename_stopped,              *)
(* TranscriptCache).                                                       *)
THEOREM NamesAlwaysHold == AllSpec => []NamesHold
<1>1. NamesInv => Naming!NameWritten /\ Naming!ListCurrent
  <2> SUFFICES ASSUME NamesInv PROVE Naming!ListCurrent
    BY LastWritten
  <2>1. \A l \in Tasks : lists[l].at = "answer" => lists[l].stamp <= lists[l].info
    BY DEF NamesInv, KnowsEnough
  <2> QED
    BY <2>1, ListsAre DEF Naming!ListCurrent
<1>2. (Called => NamesInv) => NamesHold
  BY <1>1 DEF NamesHold
<1> QED
  BY <1>2, NamesAlways, PTL

(***************************************************************************)
(* The host's entry on the Mac, and the requests sent to it (RemoteHosts). *)
(***************************************************************************)

How == {Mac!Reading, Mac!Doing, Mac!Unnoted}
Sent == [pc : Mac!Steps, op : Mac!Ops, how : How,
         id : 0..MaxIds, host : Mac!Entry \cup {Mac!NoEntry}, token : 0..MaxClients,
         left : SUBSET Addresses, by : Mac!Maybe(Addresses), done : Nat,
         from : Mac!Maybe(Accounts), to : Mac!Maybe(Accounts)]
LooksOf == [label : Mac!Maybe(Looks), colors : [Accounts -> Mac!Maybe(Looks)]]

Changes(k) == k.op # "request"
OnAccount(k) == k.op \in {"create", "rename", "delete"}
HasToken(k) == k.pc \in {"keep", "keepCache", "list", "giveBack"}
Unsent(k) == k.pc \in {"token", "cache", "send"}

(* What a command's step says of it. *)
PairFits(k) ==
  k.op = "pair" => k.how = Mac!Doing /\ (k.pc = "send" \/ HasToken(k))
RemoveFits(k, gone) ==
  k.op = "remove" =>
    /\ k.how = Mac!Unnoted /\ k.id \in gone
    /\ Unsent(k) \/ k.pc \in {"deleteToken", "deleteEntry"}
AccountFits(k) ==
  OnAccount(k) =>
    /\ k.how = Mac!Doing
    /\ Unsent(k) \/ k.pc \in {"note", "look"}
    /\ k.from \in Accounts /\ k.to \in Accounts
    /\ k.op = "rename" <=> k.from # k.to
RequestFits(k) == k.op = "request" => k.pc = "idle" \/ Unsent(k) \/ k.pc = "note"
LookFits(k) == k.pc = "look" => k.op \in {"rename", "delete"}

(* What changes something on the host was done once at most. *)
DoneOnce(k) == ~k.how.reads => k.done \in 0..1 /\ (Unsent(k) => k.done = 0)

FitsIn(k, gone, many) ==
  /\ k.pc # "idle" => k.id \in 1..MaxIds
  /\ PairFits(k) /\ RemoveFits(k, gone) /\ AccountFits(k) /\ RequestFits(k) /\ LookFits(k)
  /\ DoneOnce(k)
  /\ HasToken(k) => k.token \in 1..MaxClients /\ k.token <= many
  /\ k.pc = "note" \/ HasToken(k) => k.by \in Addresses

MacWorld ==
  /\ entry \in [1..MaxIds -> Mac!Entry \cup {Mac!NoEntry}]
  /\ held \in [1..MaxIds -> Mac!Entry \cup {Mac!NoEntry}] /\ overwritten \in BOOLEAN
  /\ keychain \in [1..MaxIds -> 0..MaxClients] /\ cache \in [1..MaxIds -> 0..MaxClients]
  /\ task \in [Tasks -> Sent]
  /\ granted \subseteq 1..MaxClients /\ there \subseteq Accounts /\ given \in LooksOf
  /\ crossed \in BOOLEAN /\ removing \subseteq 1..MaxIds
  /\ paired \in 0..MaxClients /\ calls \in 0..MaxCalls

Known == \A i \in 1..MaxIds : Mac!Listed(i) => entry[i].client <= paired
Gone == \A a \in Accounts \ there : given.colors[a] = Mac!NoOne

(* While no two commands that change something ran at once, and the list *)
(* wasn't overwritten.                                                    *)
Sole == \A t, o \in Tasks : Changes(task[t]) /\ Changes(task[o]) => t = o
OneListed == \A i, j \in 1..MaxIds : Mac!Listed(i) /\ Mac!Listed(j) => i = j

TokensFit ==
  /\ \A i \in 1..MaxIds : Mac!Listed(i) /\ i \notin removing =>
        keychain[i] # 0 /\ keychain[i] >= entry[i].client
  /\ \A t \in Tasks : HasToken(task[t]) =>
        /\ Mac!Listed(task[t].id) => entry[task[t].id].client <= task[t].token
        /\ task[t].id \notin removing /\ task[t].pc \in {"keepCache", "list"} =>
             keychain[task[t].id] = task[t].token

DoneThere(k) == k.op \in {"rename", "delete"} /\ k.pc \in {"note", "look"}
LabelFits == \A i \in 1..MaxIds : Mac!Listed(i) => entry[i].label = given.label
ColorsFit ==
  (\A t \in Tasks : ~DoneThere(task[t])) =>
     \A i \in 1..MaxIds : Mac!Listed(i) => entry[i].colors = given.colors
CarriedFit ==
  \A t \in Tasks : DoneThere(task[t]) =>
    /\ task[t].from \notin there
    /\ Mac!Carried(entry[task[t].id].colors, task[t].from, task[t].to) = given.colors
PairedFit ==
  \A t \in Tasks : task[t].op = "pair" =>
    IF task[t].host = Mac!NoEntry THEN \A i \in 1..MaxIds : ~Mac!Listed(i)
    ELSE task[t].host.label = given.label /\ task[t].host.colors = given.colors
OnListed(k) == OnAccount(k) \/ k.op = "remove"
AccountListed == \A t \in Tasks : OnListed(task[t]) => Mac!Listed(task[t].id)

Calm ==
  /\ Sole /\ OneListed /\ TokensFit
  /\ LabelFits /\ ColorsFit /\ CarriedFit /\ PairedFit /\ AccountListed

MacInv ==
  /\ MacWorld
  /\ \A t \in Tasks : FitsIn(task[t], removing, paired)
  /\ Known /\ Gone
  /\ ~crossed /\ ~overwritten => Calm
------------------------------------------------------------------------------
LEMMA Sets ==
  ASSUME MacWorld, NEW t \in Tasks, NEW r \in Sent, task' = [task EXCEPT ![t] = r]
  PROVE  /\ task' \in [Tasks -> Sent] /\ task'[t] = r
         /\ \A o \in Tasks \ {t} : task'[o] = task[o]
BY DEF MacWorld

LEMMA Fields ==
  ASSUME NEW k \in Sent
  PROVE  /\ k.pc \in Mac!Steps /\ k.op \in Mac!Ops /\ k.how \in How
         /\ k.id \in 0..MaxIds /\ k.host \in Mac!Entry \cup {Mac!NoEntry} /\ k.token \in 0..MaxClients
         /\ k.left \subseteq Addresses /\ k.by \in Mac!Maybe(Addresses) /\ k.done \in Nat
         /\ k.from \in Mac!Maybe(Accounts) /\ k.to \in Mac!Maybe(Accounts)
BY DEF Sent

LEMMA ListedIs ==
  ASSUME MacWorld, NEW i \in 1..MaxIds, Mac!Listed(i)
  PROVE  /\ entry[i] \in Mac!Entry /\ entry[i].client \in 1..MaxClients
         /\ entry[i].label \in Mac!Maybe(Looks)
         /\ entry[i].colors \in [Accounts -> Mac!Maybe(Looks)]
<1>1. entry[i] \in Mac!Entry
  BY DEF MacWorld, Mac!Listed
<1> QED
  BY <1>1 DEF Mac!Entry, Mac!Clients

LEMMA StillFits ==
  ASSUME NEW k, NEW gone, NEW more, NEW n \in 0..MaxClients, NEW m \in 0..MaxClients, gone \subseteq more,
         n <= m, FitsIn(k, gone, n)
  PROVE  FitsIn(k, more, m)
BY DEF FitsIn, RemoveFits

(* The others fit as they did. *)
LEMMA OthersFit ==
  ASSUME MacInv, NEW t \in Tasks, NEW r \in Sent, task' = [task EXCEPT ![t] = r],
         removing \subseteq removing', paired' \in 0..MaxClients, paired <= paired',
         FitsIn(r, removing', paired')
  PROVE  \A o \in Tasks : FitsIn(task'[o], removing', paired')
<1>1. paired \in 0..MaxClients /\ MacWorld
  BY DEF MacInv, MacWorld
<1>2. \A o \in Tasks \ {t} : FitsIn(task[o], removing', paired')
  BY <1>1, StillFits DEF MacInv
<1> QED
  BY <1>1, <1>2, Sets

(* A command goes on, or leaves off what it did. *)
Same(k, r) ==
  /\ r.op = k.op /\ r.id = k.id /\ r.host = k.host /\ r.from = k.from /\ r.to = k.to
  /\ HasToken(r) => /\ HasToken(k) /\ r.token = k.token
                    /\ r.pc \in {"keepCache", "list"} => k.pc \in {"keepCache", "list"}
  /\ DoneThere(r) <=> DoneThere(k)

GoesOn(k, r) == Same(k, r) \/ (r.op = "request" /\ ~DoneThere(k))

(* No entry changed in what the properties speak of. *)
Alike ==
  /\ entry' \in [1..MaxIds -> Mac!Entry \cup {Mac!NoEntry}]
  /\ \A i \in 1..MaxIds :
       /\ Mac!Listed(i)' <=> Mac!Listed(i)
       /\ Mac!Listed(i) => /\ entry'[i].client = entry[i].client
                           /\ entry'[i].label = entry[i].label
                           /\ entry'[i].colors = entry[i].colors

(* No token changed, but those of hosts that are being removed. *)
TokensKept ==
  /\ keychain' \in [1..MaxIds -> 0..MaxClients]
  /\ \A i \in (1..MaxIds) \ removing : keychain'[i] = keychain[i]

LEMMA TokensStay == ASSUME MacWorld, keychain' = keychain PROVE TokensKept
BY DEF MacWorld, TokensKept

LEMMA Goes ==
  ASSUME MacInv, NEW t \in Tasks, NEW r \in Sent, task' = [task EXCEPT ![t] = r],
         UNCHANGED <<given, there, crossed, removing, held, overwritten>>, TokensKept, Alike,
         paired' \in 0..MaxClients, paired <= paired',
         cache' \in [1..MaxIds -> 0..MaxClients], granted' \subseteq 1..MaxClients, calls' \in 0..MaxCalls,
         FitsIn(r, removing, paired'), GoesOn(task[t], r)
  PROVE  MacInv'
<1>0. MacWorld
  BY DEF MacInv
<1>1. /\ task' \in [Tasks -> Sent] /\ task'[t] = r
      /\ \A o \in Tasks \ {t} : task'[o] = task[o]
  BY <1>0, Sets
<1>2. MacWorld'
  BY <1>0, <1>1 DEF MacWorld, Alike, TokensKept
<1>3. paired' \in 0..MaxClients /\ paired <= paired' /\ removing \subseteq removing'
      /\ FitsIn(r, removing', paired')
  BY <1>0 DEF MacWorld
<1>4. (\A o \in Tasks : FitsIn(task[o], removing, paired))'
  BY <1>3, OthersFit
<1>5. Known' /\ Gone'
  <2>1. \A i \in 1..MaxIds : Mac!Listed(i) => entry[i].client <= paired /\ entry[i].client \in Nat
    <3>1. \A i \in 1..MaxIds : Mac!Listed(i) => entry[i].client \in 1..MaxClients
      BY <1>0, ListedIs
    <3>2. Known
      BY DEF MacInv
    <3> QED
      BY <3>1, <3>2 DEF Known
  <2>2. paired \in Nat /\ paired' \in Nat
    BY <1>0, <1>3 DEF MacWorld
  <2>3. \A i \in 1..MaxIds : Mac!Listed(i)' => Mac!Listed(i) /\ entry'[i].client = entry[i].client
    BY DEF Alike
  <2>4. \A i \in 1..MaxIds : Mac!Listed(i)' => entry'[i].client <= paired'
    BY SMTT(30), <1>3, <2>1, <2>2, <2>3
  <2>5. Known'
    BY <2>4 DEF Known
  <2> QED
    BY <2>5 DEF MacInv, Gone
<1>6. ASSUME ~crossed, ~overwritten PROVE Calm'
  <2>0. Calm /\ \A o \in Tasks : FitsIn(task[o], removing, paired)
    BY <1>6 DEF MacInv
  <2>1. r.op = "request" => ~HasToken(r) /\ ~DoneThere(r)
    BY DEF FitsIn, RequestFits, HasToken, Unsent, DoneThere
  <2>2. r.op = task[t].op \/ r.op = "request"
    BY DEF GoesOn, Same
  <2>3. Sole'
    BY <1>1, <2>0, <2>2 DEF Calm, Sole, Changes
  <2>4. OneListed' /\ LabelFits'
    BY <2>0 DEF Calm, OneListed, LabelFits, Alike
  <2>5. TokensFit'
    <3>1. \A o \in Tasks \ {t} : HasToken(task'[o]) =>
            /\ Mac!Listed(task'[o].id) => entry[task'[o].id].client <= task'[o].token
            /\ task'[o].id \notin removing /\ task'[o].pc \in {"keepCache", "list"} =>
                 keychain[task'[o].id] = task'[o].token
      BY <1>1, <2>0 DEF Calm, TokensFit
    <3>2. HasToken(r) =>
            /\ Mac!Listed(r.id) => entry[r.id].client <= r.token
            /\ r.id \notin removing /\ r.pc \in {"keepCache", "list"} =>
                 keychain[r.id] = r.token
      BY <2>0, <2>1 DEF Calm, TokensFit, GoesOn, Same
    <3>3. \A o \in Tasks : HasToken(task'[o]) => task'[o].id \in 1..MaxIds
      <4>1. \A o \in Tasks : FitsIn(task'[o], removing', paired')
        BY <1>4
      <4> QED
        BY <4>1 DEF FitsIn, HasToken
    <3>4. \A o \in Tasks : HasToken(task'[o]) =>
            /\ entry'[task'[o].id] # Mac!NoEntry => entry'[task'[o].id].client <= task'[o].token
            /\ task'[o].id \notin removing /\ task'[o].pc \in {"keepCache", "list"} =>
                 keychain'[task'[o].id] = task'[o].token
      <4>1. \A o \in Tasks : HasToken(task'[o]) =>
              /\ Mac!Listed(task'[o].id) => entry[task'[o].id].client <= task'[o].token
              /\ task'[o].id \notin removing /\ task'[o].pc \in {"keepCache", "list"} =>
                   keychain[task'[o].id] = task'[o].token
        BY <1>1, <3>1, <3>2
      <4>2. \A i \in 1..MaxIds : entry'[i] # Mac!NoEntry =>
              Mac!Listed(i) /\ entry'[i].client = entry[i].client
        BY DEF Alike, Mac!Listed
      <4> QED
        BY <3>3, <4>1, <4>2 DEF TokensKept
    <3>5. \A i \in 1..MaxIds : Mac!Listed(i)' /\ i \notin removing =>
             keychain'[i] # 0 /\ keychain'[i] >= entry'[i].client
      BY <2>0 DEF Calm, TokensFit, Alike, TokensKept
    <3> QED
      BY <3>4, <3>5 DEF TokensFit, Mac!Listed
  <2>6. \A o \in Tasks : DoneThere(task'[o]) <=> DoneThere(task[o])
    BY <1>1, <2>1 DEF GoesOn, Same
  <2>7. ColorsFit'
    BY <2>0, <2>6 DEF Calm, ColorsFit, Alike
  <2>8. \A o \in Tasks : Changes(task'[o]) =>
          /\ task'[o].op = task[o].op /\ task'[o].id = task[o].id /\ task'[o].host = task[o].host
          /\ task'[o].from = task[o].from /\ task'[o].to = task[o].to
    BY <1>1 DEF GoesOn, Same, Changes
  <2>9. CarriedFit'
    <3>1. \A o \in Tasks : DoneThere(task[o]) =>
            Mac!Listed(task[o].id) /\ task[o].id \in 1..MaxIds
      BY <2>0 DEF Calm, AccountListed, OnListed, OnAccount, DoneThere, FitsIn
    <3>2. \A o \in Tasks : DoneThere(task'[o]) =>
            /\ task'[o].from \notin there
            /\ Mac!Carried(entry'[task'[o].id].colors, task'[o].from, task'[o].to) = given.colors
      BY <2>0, <2>6, <2>8, <3>1 DEF Calm, CarriedFit, DoneThere, Changes, Alike
    <3> QED
      BY <3>2 DEF CarriedFit
  <2>10. PairedFit'
    BY <2>0, <2>8 DEF Calm, PairedFit, Changes, Alike
  <2>11. AccountListed'
    <3>1. \A o \in Tasks : OnListed(task[o]) => task[o].id \in 1..MaxIds
      BY <2>0 DEF FitsIn, AccountFits, RemoveFits, OnListed, OnAccount, Unsent
    <3> QED
      BY <2>0, <2>8, <3>1 DEF Calm, AccountListed, OnListed, OnAccount, Changes, Alike, Mac!Listed
  <2> QED
    BY <2>3, <2>4, <2>5, <2>7, <2>9, <2>10, <2>11 DEF Calm
<1> QED
  BY <1>2, <1>4, <1>5, <1>6 DEF MacInv

LEMMA Silent ==
  ASSUME MacInv, NEW t \in Tasks, NEW r \in Sent, task' = [task EXCEPT ![t] = r],
         UNCHANGED <<entry, given, there, crossed, removing, held, overwritten>>, TokensKept,
         paired' \in 0..MaxClients, paired <= paired',
         cache' \in [1..MaxIds -> 0..MaxClients], granted' \subseteq 1..MaxClients, calls' \in 0..MaxCalls,
         FitsIn(r, removing, paired'), GoesOn(task[t], r)
  PROVE  MacInv'
<1>1. Alike
  BY DEF Alike, Mac!Listed, MacInv, MacWorld
<1> QED
  BY <1>1, Goes
------------------------------------------------------------------------------
LEMMA RequestsAre == Mac!Requests \subseteq How
<1>1. Mac!Range(Mac!ListingRequests) \subseteq How
  BY DEF Mac!Range, Mac!ListingRequests, How
<1>2. Mac!Range(Mac!SessionRequests) \subseteq How
  BY DEF Mac!Range, Mac!SessionRequests, How
<1>3. Mac!Range(Mac!MoveRequests) \subseteq How
  BY DEF Mac!Range, Mac!MoveRequests, How
<1>4. Mac!Range(Mac!ArchiveRequests) \subseteq How
  BY DEF Mac!Range, Mac!ArchiveRequests, How
<1>5. Mac!Range(Mac!SignInRequests) \subseteq How
  BY DEF Mac!Range, Mac!SignInRequests, How
<1>6. Mac!Range(Mac!WindowRequests) \subseteq How
  BY DEF Mac!Range, Mac!WindowRequests, How
<1> QED
  BY <1>1, <1>2, <1>3, <1>4, <1>5, <1>6 DEF Mac!Requests

LEMMA Hows ==
  /\ Mac!Reading \in How /\ Mac!Doing \in How /\ Mac!Unnoted \in How
  /\ Mac!Reading.reads /\ ~Mac!Doing.reads /\ ~Mac!Unnoted.reads
  /\ Mac!Reading.notes /\ Mac!Doing.notes /\ ~Mac!Unnoted.notes
BY DEF How, Mac!Reading, Mac!Doing, Mac!Unnoted

LEMMA IdleIs ==
  /\ Mac!Idle \in Sent
  /\ Mac!Idle.pc = "idle" /\ Mac!Idle.op = "request" /\ Mac!Idle.done = 0
  /\ Mac!Idle.how = Mac!Reading /\ Mac!Idle.token = 0 /\ Mac!Idle.host = Mac!NoEntry
  /\ \A gone, n : FitsIn(Mac!Idle, gone, n)
<1>1. "idle" \in Mac!Steps /\ "request" \in Mac!Ops
  BY DEF Mac!Steps, Mac!Ops
<1>2. Mac!Idle \in Sent
  BY <1>1, Hows DEF Mac!Idle, Sent, Mac!Maybe, Mac!NoToken
<1>3. /\ Mac!Idle.pc = "idle" /\ Mac!Idle.op = "request" /\ Mac!Idle.done = 0
      /\ Mac!Idle.how = Mac!Reading /\ Mac!Idle.token = 0 /\ Mac!Idle.host = Mac!NoEntry
  BY DEF Mac!Idle, Mac!NoToken
<1> QED
  BY <1>2, <1>3, Hows DEF FitsIn, PairFits, RemoveFits, AccountFits, RequestFits, LookFits,
     DoneOnce, HasToken, Unsent, OnAccount

(* What connect gives a command that begins. *)
Connects(k, op, how, i) ==
  /\ k \in Sent /\ k.pc \in {"token", "send"} /\ k.op = op /\ k.how = how /\ k.id = i
  /\ k.host = entry[i] /\ k.done = 0

LEMMA ConnectedIs ==
  ASSUME MacWorld, NEW t, NEW i \in 1..MaxIds, NEW op \in Mac!Ops, NEW how \in How
  PROVE  Connects(Mac!Connected(t, op, how, i), op, how, i)
<1> DEFINE pc_ == IF cache[i] = 0 THEN "token" ELSE "send"
<1>1. pc_ \in {"token", "send"} /\ pc_ \in Mac!Steps
  BY DEF Mac!Steps
<1>2. entry[i] \in Mac!Entry \cup {Mac!NoEntry} /\ cache[i] \in 0..MaxClients /\ i \in 0..MaxIds
  BY DEF MacWorld
<1> DEFINE k == [Mac!Idle EXCEPT !.pc = pc_, !.op = op, !.how = how, !.id = i,
                                 !.host = entry[i], !.token = cache[i], !.left = Addresses]
<1> HIDE DEF pc_
<1>3. k \in Sent /\ k.pc = pc_ /\ k.op = op /\ k.how = how /\ k.id = i
      /\ k.host = entry[i] /\ k.done = 0
  BY <1>1, <1>2, IdleIs DEF Sent
<1>4. Mac!Connected(t, op, how, i) = k
  BY DEF Mac!Connected, Mac!NoToken, pc_
<1> QED
  BY <1>1, <1>3, <1>4 DEF Connects

(* One that begins does nothing yet. *)
LEMMA Begun ==
  ASSUME NEW k \in Sent, k.pc \in {"token", "send"}, k.id \in 1..MaxIds, k.done = 0,
         NEW gone, NEW n
  PROVE  /\ (k.op = "request") => FitsIn(k, gone, n)
         /\ (k.op = "remove" /\ k.how = Mac!Unnoted /\ k.id \in gone) => FitsIn(k, gone, n)
         /\ (k.op = "pair" /\ k.how = Mac!Doing /\ k.pc = "send") => FitsIn(k, gone, n)
         /\ (/\ OnAccount(k) /\ k.how = Mac!Doing /\ k.from \in Accounts /\ k.to \in Accounts
             /\ k.op = "rename" <=> k.from # k.to) => FitsIn(k, gone, n)
BY DEF FitsIn, PairFits, RemoveFits, AccountFits, RequestFits, LookFits,
       DoneOnce, HasToken, Unsent, OnAccount

LEMMA MacRequest ==
  ASSUME MacInv, NEW t \in Tasks, NEW i \in 1..MaxIds, Mac!Request(t, i)
  PROVE  MacInv'
<1>0. MacWorld /\ task[t].pc = "idle" /\ calls < MaxCalls
  BY DEF MacInv, Mac!Request, Mac!Free
<1>1. PICK how \in Mac!Requests : Mac!Set(t, Mac!Connected(t, "request", how, i))
  BY DEF Mac!Request
<1> DEFINE r == Mac!Connected(t, "request", how, i)
<1>2. "request" \in Mac!Ops /\ how \in How
  BY RequestsAre DEF Mac!Ops
<1>3. r \in Sent /\ r.pc \in {"token", "send"} /\ r.op = "request" /\ r.id = i /\ r.done = 0
  BY <1>0, <1>2, ConnectedIs DEF Connects
<1>4. task' = [task EXCEPT ![t] = r]
  BY <1>1 DEF Mac!Set
<1> HIDE DEF r
<1>5. FitsIn(r, removing, paired)
  BY <1>3, Begun
<1>6. GoesOn(task[t], r)
  BY <1>0, <1>3 DEF GoesOn, DoneThere
<1>7. /\ UNCHANGED <<entry, keychain, given, there, crossed, removing, paired, cache, granted, held, overwritten>>
      /\ calls' = calls + 1
  BY DEF Mac!Request
<1>8. cache' \in [1..MaxIds -> 0..MaxClients] /\ granted' \subseteq 1..MaxClients /\ calls' \in 0..MaxCalls
      /\ paired' = paired /\ paired' \in 0..MaxClients /\ paired <= paired'
  BY <1>0, <1>7 DEF MacWorld
<1>9. TokensKept
  BY <1>0, <1>7, TokensStay
<1> QED
  BY <1>3, <1>4, <1>5, <1>6, <1>7, <1>8, <1>9, Silent

(* A command that changes something begins. *)
LEMMA Beginning ==
  ASSUME MacInv, NEW t \in Tasks, NEW r \in Sent, task' = [task EXCEPT ![t] = r],
         task[t].pc = "idle", calls < MaxCalls, calls' = calls + 1,
         UNCHANGED <<entry, keychain, cache, granted, given, there, paired, held, overwritten>>,
         crossed' = (crossed \/ Mac!Others(t, Mac!AccountOps \cup {"pair", "remove"})),
         removing \subseteq removing', removing' \subseteq 1..MaxIds,
         r.pc \in {"token", "send"}, FitsIn(r, removing', paired),
         r.op = "pair" => \/ r.host = Mac!NoEntry /\ \A i \in 1..MaxIds : ~Mac!Listed(i)
                          \/ \E i \in 1..MaxIds : r.host = entry[i] /\ Mac!Listed(i),
         OnListed(r) => Mac!Listed(r.id)
  PROVE  MacInv'
<1>0. MacWorld
  BY DEF MacInv
<1>1. /\ task' \in [Tasks -> Sent] /\ task'[t] = r
      /\ \A o \in Tasks \ {t} : task'[o] = task[o]
  BY <1>0, Sets
<1>2. MacWorld'
  BY <1>0, <1>1 DEF MacWorld
<1>3. paired' \in 0..MaxClients /\ paired <= paired' /\ FitsIn(r, removing', paired')
  BY <1>0 DEF MacWorld
<1>4. (\A o \in Tasks : FitsIn(task[o], removing, paired))'
  BY <1>3, OthersFit
<1>5. Known' /\ Gone'
  BY DEF MacInv, Known, Gone, Mac!Listed
<1>6. ASSUME ~crossed', ~overwritten' PROVE Calm'
  <2>0. Calm /\ ~crossed
    BY <1>6 DEF MacInv
  <2>1. ASSUME NEW o \in Tasks PROVE ~Changes(task[o])
    <3>1. task[o] \in Sent /\ FitsIn(task[o], removing, paired) /\ FitsIn(task[t], removing, paired)
      BY <1>0 DEF MacInv, MacWorld
    <3>2. CASE o = t
      BY <1>0, <3>1, <3>2 DEF FitsIn, PairFits, RemoveFits, AccountFits, HasToken, Unsent,
         OnAccount, Changes, Sent, Mac!Ops, Mac!AccountOps, Mac!AccountRequests
    <3>3. CASE o # t
      <4>1. ~(task[o].pc # "idle" /\ task[o].op \in Mac!AccountOps \cup {"pair", "remove"})
        BY <1>6, <3>3 DEF Mac!Others
      <4>2. task[o].op \in Mac!Ops
        BY <3>1, Fields
      <4>3. task[o].pc = "idle" => ~Changes(task[o])
        BY <3>1, <4>2 DEF FitsIn, PairFits, RemoveFits, AccountFits, HasToken, Unsent,
         OnAccount, Changes, Mac!Ops, Mac!AccountOps, Mac!AccountRequests
      <4> QED
        BY <4>1, <4>2, <4>3 DEF Mac!Ops, Changes
    <3> QED
      BY <3>2, <3>3
  <2>2. ~HasToken(r) /\ ~DoneThere(r) /\ ~HasToken(task[t]) /\ ~DoneThere(task[t])
    BY DEF HasToken, DoneThere
  <2>3. Sole' /\ OneListed' /\ LabelFits'
    BY <1>1, <2>0, <2>1 DEF Calm, Sole, OneListed, LabelFits, Mac!Listed, Changes
  <2>4. TokensFit'
    <3>1. \A o \in Tasks : HasToken(task'[o]) => HasToken(task[o]) /\ task'[o] = task[o]
      BY <1>1, <2>2
    <3> QED
      BY <2>0, <3>1 DEF Calm, TokensFit, Mac!Listed
  <2>5. \A o \in Tasks : ~DoneThere(task[o]) /\ ~DoneThere(task'[o])
    BY <1>1, <2>1, <2>2 DEF DoneThere, Changes
  <2>6. \A i \in 1..MaxIds : Mac!Listed(i) => entry[i].colors = given.colors /\ entry[i].label = given.label
    BY <2>0, <2>5 DEF Calm, ColorsFit, LabelFits
  <2>7. ColorsFit' /\ CarriedFit'
    BY <2>5, <2>6 DEF ColorsFit, CarriedFit, Mac!Listed
  <2>8. PairedFit'
    <3>1. \A o \in Tasks \ {t} : task'[o].op # "pair"
      BY <1>1, <2>1 DEF Changes
    <3>2. r.op = "pair" =>
            IF r.host = Mac!NoEntry THEN \A i \in 1..MaxIds : ~Mac!Listed(i)
            ELSE r.host.label = given.label /\ r.host.colors = given.colors
      BY <2>6 DEF Mac!Listed
    <3>3. \A i \in 1..MaxIds : Mac!Listed(i)' <=> Mac!Listed(i)
      BY DEF Mac!Listed
    <3> QED
      BY <1>1, <3>1, <3>2, <3>3 DEF PairedFit
  <2>9. AccountListed'
    BY <1>1, <2>1 DEF AccountListed, OnListed, OnAccount, Changes, Mac!Listed
  <2> QED
    BY <2>3, <2>4, <2>7, <2>8, <2>9 DEF Calm
<1> QED
  BY <1>2, <1>4, <1>5, <1>6 DEF MacInv

LEMMA OpsAre == /\ Mac!AccountOps = {"create", "rename", "delete"}
                /\ Mac!Ops = {"request", "pair", "remove", "create", "rename", "delete"}
                /\ \A op \in Mac!AccountOps : Mac!AccountRequests[op] = Mac!Doing
BY DEF Mac!AccountOps, Mac!AccountRequests, Mac!Ops

LEMMA MacAccount ==
  ASSUME MacInv, NEW t \in Tasks, NEW i \in 1..MaxIds, NEW op \in Mac!AccountOps,
         NEW a \in Accounts, NEW b \in Accounts, Mac!Account(t, i, op, a, b)
  PROVE  MacInv'
<1>0. MacWorld /\ task[t].pc = "idle" /\ calls < MaxCalls /\ Mac!Listed(i)
  BY DEF MacInv, Mac!Account, Mac!Free
<1> DEFINE k == Mac!Connected(t, op, Mac!AccountRequests[op], i)
           r == [k EXCEPT !.from = a, !.to = b]
<1>1. op \in Mac!Ops /\ Mac!AccountRequests[op] \in How /\ Mac!AccountRequests[op] = Mac!Doing
  BY OpsAre, Hows
<1>2. k \in Sent /\ k.pc \in {"token", "send"} /\ k.op = op /\ k.how = Mac!Doing
      /\ k.id = i /\ k.done = 0
  BY <1>0, <1>1, ConnectedIs DEF Connects
<1>3. task' = [task EXCEPT ![t] = r]
  BY DEF Mac!Account, Mac!Set
<1> HIDE DEF k
<1>4. r \in Sent
  BY <1>2 DEF Sent, Mac!Maybe
<1>5. /\ r.pc \in {"token", "send"} /\ r.op = op /\ r.how = Mac!Doing /\ r.id = i
      /\ r.done = 0 /\ r.from = a /\ r.to = b
  BY <1>2 DEF Sent
<1> HIDE DEF r
<1>6. OnAccount(r) /\ (r.op = "rename" <=> r.from # r.to)
  BY <1>5, OpsAre DEF OnAccount, Mac!Account
<1>7. FitsIn(r, removing', paired)
  BY <1>4, <1>5, <1>6, Begun
<1>8. /\ UNCHANGED <<entry, keychain, cache, granted, given, there, paired, removing, held, overwritten>>
      /\ calls' = calls + 1
      /\ crossed' = (crossed \/ Mac!Others(t, Mac!AccountOps \cup {"pair", "remove"}))
  BY DEF Mac!Account
<1>9. removing \subseteq removing' /\ removing' \subseteq 1..MaxIds
  BY <1>0, <1>8 DEF MacWorld
<1> QED
  BY <1>0, <1>3, <1>4, <1>5, <1>6, <1>7, <1>8, <1>9, Beginning DEF OnListed, OnAccount

LEMMA MacRemove ==
  ASSUME MacInv, NEW t \in Tasks, NEW i \in 1..MaxIds, Mac!Remove(t, i)
  PROVE  MacInv'
<1>0. MacWorld /\ task[t].pc = "idle" /\ calls < MaxCalls /\ Mac!Listed(i)
  BY DEF MacInv, Mac!Remove, Mac!Free
<1> DEFINE r == Mac!Connected(t, "remove", Mac!Unnoted, i)
<1>2. r \in Sent /\ r.pc \in {"token", "send"} /\ r.op = "remove" /\ r.how = Mac!Unnoted
      /\ r.id = i /\ r.done = 0
  BY <1>0, OpsAre, Hows, ConnectedIs DEF Connects
<1>3. task' = [task EXCEPT ![t] = r]
  BY DEF Mac!Remove, Mac!Set
<1> HIDE DEF r
<1>5. /\ UNCHANGED <<entry, keychain, cache, granted, given, there, paired, held, overwritten>>
      /\ calls' = calls + 1 /\ removing' = removing \cup {i}
      /\ crossed' = (crossed \/ Mac!Others(t, Mac!AccountOps \cup {"pair", "remove"}))
  BY DEF Mac!Remove
<1>6. removing \subseteq removing' /\ removing' \subseteq 1..MaxIds
  BY <1>0, <1>5 DEF MacWorld
<1>7. FitsIn(r, removing', paired)
  BY <1>2, <1>5, Begun
<1> QED
  BY <1>0, <1>2, <1>3, <1>5, <1>6, <1>7, Beginning DEF OnListed, OnAccount

LEMMA MacPair ==
  ASSUME MacInv, NEW t \in Tasks, NEW i \in 1..MaxIds, Mac!Pair(t, i)
  PROVE  MacInv'
<1>0. MacWorld /\ task[t].pc = "idle" /\ calls < MaxCalls
  BY DEF MacInv, Mac!Pair, Mac!Free
<1> DEFINE r == [Mac!Idle EXCEPT !.pc = "send", !.op = "pair", !.how = Mac!Doing, !.id = i,
                                 !.host = entry[i], !.left = Addresses]
<1>1. entry[i] \in Mac!Entry \cup {Mac!NoEntry} /\ i \in 0..MaxIds /\ "send" \in Mac!Steps
  BY <1>0 DEF MacWorld, Mac!Steps
<1>2. r \in Sent
  BY <1>1, OpsAre, Hows, IdleIs DEF Sent
<1>3. r.pc = "send" /\ r.op = "pair" /\ r.how = Mac!Doing /\ r.id = i /\ r.done = 0
      /\ r.host = entry[i]
  BY IdleIs DEF Sent
<1>4. task' = [task EXCEPT ![t] = r]
  BY DEF Mac!Pair, Mac!Set
<1> HIDE DEF r
<1>5. /\ UNCHANGED <<entry, keychain, cache, granted, given, there, paired, removing, held, overwritten>>
      /\ calls' = calls + 1
      /\ crossed' = (crossed \/ Mac!Others(t, Mac!AccountOps \cup {"pair", "remove"}))
  BY DEF Mac!Pair
<1>6. removing \subseteq removing' /\ removing' \subseteq 1..MaxIds
  BY <1>0, <1>5 DEF MacWorld
<1>7. FitsIn(r, removing', paired)
  BY <1>2, <1>3, Begun
<1>8. \/ r.host = Mac!NoEntry /\ \A j \in 1..MaxIds : ~Mac!Listed(j)
      \/ \E j \in 1..MaxIds : r.host = entry[j] /\ Mac!Listed(j)
  <2>1. Mac!Ids = 1..MaxIds
    BY DEF Mac!Ids
  <2>2. CASE \E j \in 1..MaxIds : Mac!Listed(j)
    BY <1>3, <2>1, <2>2 DEF Mac!Pair
  <2>3. CASE ~\E j \in 1..MaxIds : Mac!Listed(j)
    BY <1>3, <2>3 DEF Mac!Listed
  <2> QED
    BY <2>2, <2>3
<1> QED
  BY <1>0, <1>2, <1>3, <1>4, <1>5, <1>6, <1>7, <1>8, Beginning DEF OnListed, OnAccount

------------------------------------------------------------------------------
(* Going on to a step, or ending. *)
AtStep(k, pc_) == [k EXCEPT !.pc = pc_]

LEMMA GotoIs ==
  ASSUME MacWorld, NEW t \in Tasks, NEW step \in Mac!Steps, Mac!Goto(t, step)
  PROVE  \E r \in Sent : /\ task' = [task EXCEPT ![t] = r]
                         /\ r.pc = step /\ r.op = task[t].op /\ r.id = task[t].id
                         /\ r.host = task[t].host /\ r.from = task[t].from /\ r.to = task[t].to
                         /\ r.token = task[t].token /\ r.how = task[t].how
                         /\ r.done = task[t].done /\ r.by = task[t].by
<1>1. task[t] \in Sent
  BY DEF MacWorld
<1> DEFINE r == [task[t] EXCEPT !.pc = step]
<1>2. r \in Sent /\ r.pc = step /\ r.op = task[t].op /\ r.id = task[t].id
      /\ r.host = task[t].host /\ r.from = task[t].from /\ r.to = task[t].to
      /\ r.token = task[t].token /\ r.how = task[t].how
      /\ r.done = task[t].done /\ r.by = task[t].by
  BY <1>1 DEF Sent
<1>3. task' = [task EXCEPT ![t] = r]
  BY DEF Mac!Goto
<1> HIDE DEF r
<1> QED
  BY <1>2, <1>3

MacSame == UNCHANGED <<entry, keychain, given, there, crossed, removing, paired, calls, held, overwritten>>
MacOthers == cache' \in [1..MaxIds -> 0..MaxClients] /\ granted' \subseteq 1..MaxClients

LEMMA Ends ==
  ASSUME MacInv, NEW t \in Tasks, Mac!End(t), ~DoneThere(task[t]), MacSame, MacOthers
  PROVE  MacInv'
<1>1. task' = [task EXCEPT ![t] = Mac!Idle] /\ calls' \in 0..MaxCalls
  BY DEF Mac!End, Mac!Set, MacInv, MacWorld, MacSame
<1>2. GoesOn(task[t], Mac!Idle)
  BY IdleIs DEF GoesOn
<1>3. paired' \in 0..MaxClients /\ paired <= paired'
  BY DEF MacInv, MacWorld, MacSame
<1>4. TokensKept
  BY DEF TokensKept, MacInv, MacWorld, MacSame
<1> QED
  BY <1>1, <1>2, <1>3, <1>4, IdleIs, Silent DEF MacSame, MacOthers

LEMMA GoesToNext ==
  ASSUME MacInv, NEW t \in Tasks, NEW step \in Mac!Steps, Mac!Goto(t, step), MacSame, MacOthers,
         \/ task[t].pc = "token" /\ task[t].op = "remove" /\ step = "deleteToken"
         \/ task[t].pc = "send" /\ task[t].op = "remove" /\ step = "deleteToken"
         \/ task[t].pc = "cache" /\ step = "send"
         \/ task[t].pc = "keepCache" /\ step = "list"
         \/ task[t].pc = "keep" /\ step = "giveBack"
         \/ task[t].pc = "note" /\ step = "look" /\ task[t].op \in {"rename", "delete"}
  PROVE  MacInv'
<1>0. MacWorld /\ FitsIn(task[t], removing, paired) /\ task[t] \in Sent /\ calls' \in 0..MaxCalls
  BY DEF MacInv, MacWorld, MacSame
<1>1. PICK r \in Sent : /\ task' = [task EXCEPT ![t] = r]
                        /\ r.pc = step /\ r.op = task[t].op /\ r.id = task[t].id
                        /\ r.host = task[t].host /\ r.from = task[t].from /\ r.to = task[t].to
                        /\ r.token = task[t].token /\ r.how = task[t].how
                        /\ r.done = task[t].done /\ r.by = task[t].by
  BY <1>0, GotoIs
<1>2. FitsIn(r, removing, paired)
  BY <1>0, <1>1, Hows DEF FitsIn, PairFits, RemoveFits, AccountFits, RequestFits, LookFits,
     DoneOnce, HasToken, Unsent, OnAccount
<1>3. GoesOn(task[t], r)
  BY <1>0, <1>1 DEF GoesOn, Same, HasToken, DoneThere, FitsIn, PairFits, RemoveFits, AccountFits,
     OnAccount
<1>4. paired' = paired /\ paired' \in 0..MaxClients /\ paired <= paired' /\ TokensKept
  BY DEF MacInv, MacWorld, MacSame, TokensKept
<1> QED
  BY <1>0, <1>1, <1>2, <1>3, <1>4, Silent DEF MacSame, MacOthers

LEMMA StepsAre ==
  /\ "idle" \in Mac!Steps /\ "token" \in Mac!Steps /\ "cache" \in Mac!Steps
  /\ "send" \in Mac!Steps /\ "note" \in Mac!Steps /\ "look" \in Mac!Steps
  /\ "keep" \in Mac!Steps /\ "keepCache" \in Mac!Steps /\ "giveBack" \in Mac!Steps
  /\ "list" \in Mac!Steps /\ "deleteToken" \in Mac!Steps /\ "deleteEntry" \in Mac!Steps
BY DEF Mac!Steps

LEMMA MacTokenless ==
  ASSUME MacInv, NEW t \in Tasks, Mac!Tokenless(t)
  PROVE  MacInv'
<1>1. MacSame /\ MacOthers /\ task[t].pc = "token"
  BY DEF Mac!Tokenless, MacSame, MacOthers, MacInv, MacWorld
<1>2. ~DoneThere(task[t])
  BY <1>1 DEF DoneThere
<1> QED
  BY <1>1, <1>2, StepsAre, Ends, GoesToNext DEF Mac!Tokenless

LEMMA MacCacheToken ==
  ASSUME MacInv, NEW t \in Tasks, Mac!CacheToken(t)
  PROVE  MacInv'
<1>1. task[t].token \in 0..MaxClients
  BY Fields DEF MacInv, MacWorld
<1>2. cache' \in [1..MaxIds -> 0..MaxClients]
  BY <1>1 DEF Mac!CacheToken, MacInv, MacWorld
<1>3. MacSame /\ MacOthers
  BY <1>2 DEF Mac!CacheToken, MacSame, MacOthers, MacInv, MacWorld
<1> QED
  BY <1>3, StepsAre, GoesToNext DEF Mac!CacheToken

LEMMA MacReadToken ==
  ASSUME MacInv, NEW t \in Tasks, Mac!ReadToken(t)
  PROVE  MacInv'
<1>0. task[t] \in Sent /\ FitsIn(task[t], removing, paired) /\ task[t].pc = "token"
      /\ MacSame /\ MacOthers /\ calls' \in 0..MaxCalls
  BY DEF Mac!ReadToken, MacSame, MacOthers, MacInv, MacWorld
<1>1. task[t].id \in 1..MaxIds /\ keychain[task[t].id] \in 0..MaxClients
  BY <1>0 DEF FitsIn, MacInv, MacWorld
<1> DEFINE n == keychain[task[t].id]
           r == [task[t] EXCEPT !.token = n, !.pc = "cache"]
<1>2. task' = [task EXCEPT ![t] = r]
  BY DEF Mac!ReadToken, Mac!Set
<1> HIDE DEF n
<1>3. r \in Sent
  BY <1>0, <1>1, StepsAre DEF Sent, n
<1>4. r.pc = "cache" /\ r.op = task[t].op /\ r.id = task[t].id
      /\ r.host = task[t].host /\ r.from = task[t].from /\ r.to = task[t].to
      /\ r.how = task[t].how /\ r.done = task[t].done /\ r.by = task[t].by
  BY <1>0 DEF Sent
<1> HIDE DEF r
<1>5. FitsIn(r, removing, paired)
  BY <1>0, <1>4, Hows DEF FitsIn, PairFits, RemoveFits, AccountFits, RequestFits, LookFits,
     DoneOnce, HasToken, Unsent, OnAccount
<1>6. GoesOn(task[t], r)
  BY <1>0, <1>4 DEF GoesOn, Same, HasToken, DoneThere
<1>7. paired' = paired /\ paired' \in 0..MaxClients /\ paired <= paired'
  BY <1>0 DEF MacInv, MacWorld, MacSame
<1>8. TokensKept
  BY <1>0, TokensStay DEF MacSame, MacInv
<1> QED
  BY <1>0, <1>2, <1>3, <1>5, <1>6, <1>7, <1>8, Silent DEF MacSame, MacOthers
------------------------------------------------------------------------------
LEMMA SendFails ==
  ASSUME MacInv, NEW t \in Tasks, task[t].pc = "send", Mac!Fail(t), MacSame, MacOthers
  PROVE  MacInv'
<1>1. ~DoneThere(task[t])
  BY DEF DoneThere
<1> QED
  BY <1>1, StepsAre, Ends, GoesToNext DEF Mac!Fail

(* The next address is tried. *)
LEMMA SendsOn ==
  ASSUME MacInv, NEW t \in Tasks, task[t].pc = "send", NEW a, NEW r \in Sent,
         task' = [task EXCEPT ![t] = [r EXCEPT !.left = r.left \ {a}]],
         MacSame, MacOthers,
         \/ r = task[t]
         \/ task[t].how.reads /\ r = [task[t] EXCEPT !.done = task[t].done + 1]
  PROVE  MacInv'
<1>0. MacWorld /\ FitsIn(task[t], removing, paired) /\ task[t] \in Sent /\ calls' \in 0..MaxCalls
      /\ paired' = paired /\ paired' \in 0..MaxClients /\ paired <= paired'
  BY DEF MacInv, MacWorld, MacSame
<1> DEFINE k == [r EXCEPT !.left = r.left \ {a}]
<1>1. /\ r.pc = task[t].pc /\ r.op = task[t].op /\ r.id = task[t].id
      /\ r.host = task[t].host /\ r.from = task[t].from /\ r.to = task[t].to
      /\ r.token = task[t].token /\ r.how = task[t].how
      /\ r.by = task[t].by /\ (~r.how.reads => r.done = task[t].done)
  BY <1>0 DEF Sent
<1>2. k \in Sent
  <2>1. r.left \ {a} \subseteq Addresses
    BY Fields
  <2> QED
    BY <2>1 DEF Sent
<1>3. /\ k.pc = task[t].pc /\ k.op = task[t].op /\ k.id = task[t].id
      /\ k.host = task[t].host /\ k.from = task[t].from /\ k.to = task[t].to
      /\ k.token = task[t].token /\ k.how = task[t].how
      /\ k.by = task[t].by /\ (~k.how.reads => k.done = task[t].done)
  BY <1>1 DEF Sent
<1> HIDE DEF k
<1>4. FitsIn(k, removing, paired)
  BY <1>0, <1>3 DEF FitsIn, PairFits, RemoveFits, AccountFits, RequestFits, LookFits,
     DoneOnce, HasToken, Unsent, OnAccount
<1>5. GoesOn(task[t], k)
  BY <1>3 DEF GoesOn, Same, HasToken, DoneThere
<1> QED
  BY <1>0, <1>2, <1>4, <1>5, TokensStay, Silent DEF k, MacSame, MacOthers

LEMMA Continues ==
  ASSUME MacInv, NEW t \in Tasks, task[t].pc = "send", NEW a,
         \/ Mac!Continue(t, a, task[t])
         \/ /\ task[t].how.reads
            /\ Mac!Continue(t, a, [task[t] EXCEPT !.done = task[t].done + 1]),
         MacSame, MacOthers
  PROVE  MacInv'
<1>0. task[t] \in Sent
  BY DEF MacInv, MacWorld
<1>1. CASE task[t].left = {a}
  BY <1>1, SendFails DEF Mac!Continue
<1>2. CASE task[t].left # {a} /\ Mac!Continue(t, a, task[t])
  BY <1>0, <1>2, SendsOn DEF Mac!Continue, Mac!Set
<1>3. CASE /\ task[t].left # {a} /\ task[t].how.reads
           /\ Mac!Continue(t, a, [task[t] EXCEPT !.done = task[t].done + 1])
  <2> DEFINE r == [task[t] EXCEPT !.done = task[t].done + 1]
  <2>1. r \in Sent
    <3>1. task[t].done + 1 \in Nat
      BY <1>0, Fields
    <3> QED
      BY <1>0, <3>1 DEF Sent
  <2>2. task' = [task EXCEPT ![t] = [r EXCEPT !.left = r.left \ {a}]]
    BY <1>3 DEF Mac!Continue, Mac!Set
  <2> QED
    BY <1>3, <2>1, <2>2, SendsOn
<1> QED
  BY <1>1, <1>2, <1>3

LEMMA MacUnreachable ==
  ASSUME MacInv, NEW t \in Tasks, NEW a \in Addresses, Mac!Unreachable(t, a)
  PROVE  MacInv'
<1>1. MacSame /\ MacOthers /\ task[t].pc = "send"
  BY DEF Mac!Unreachable, Mac!Trying, MacSame, MacOthers, MacInv, MacWorld
<1> QED
  BY <1>1, Continues DEF Mac!Unreachable

LEMMA MacRefused ==
  ASSUME MacInv, NEW t \in Tasks, NEW a \in Addresses, Mac!Refused(t, a)
  PROVE  MacInv'
<1>1. MacSame /\ MacOthers /\ task[t].pc = "send"
  BY DEF Mac!Refused, Mac!Trying, MacSame, MacOthers, MacInv, MacWorld
<1> QED
  BY <1>1, SendFails DEF Mac!Refused
------------------------------------------------------------------------------
(* What the host does for a command that isn't about an account. *)
LEMMA HostDid ==
  ASSUME MacInv, NEW t \in Tasks, task[t].pc = "send", Mac!HostDoes(t)
  PROVE  /\ granted' \subseteq 1..MaxClients /\ paired' \in 0..MaxClients /\ paired <= paired'
         /\ ~OnAccount(task[t]) => UNCHANGED <<there, given>>
         /\ task[t].op # "pair" => paired' = paired
         /\ task[t].op = "pair" => paired' = paired + 1
<1>0. paired \in 0..MaxClients /\ granted \subseteq 1..MaxClients /\ task[t] \in Sent
  BY DEF MacInv, MacWorld
<1>1. task[t].op \in {"request", "pair", "remove", "create", "rename", "delete"}
  BY <1>0, OpsAre, Fields
<1>2. paired' = IF task[t].op = "pair" THEN paired + 1 ELSE paired
  BY DEF Mac!HostDoes
<1>3. task[t].op = "pair" => paired < MaxClients
  BY DEF Mac!HostDoes
<1>4. granted' \subseteq 1..MaxClients
  <2>1. CASE task[t].op = "pair"
    BY <1>0, <1>3, <2>1 DEF Mac!HostDoes
  <2>2. CASE task[t].op = "remove"
    BY <1>0, <2>2 DEF Mac!HostDoes
  <2>3. CASE task[t].op \notin {"pair", "remove"}
    BY <1>0, <2>3 DEF Mac!HostDoes
  <2> QED
    BY <2>1, <2>2, <2>3
<1>5. ~OnAccount(task[t]) => UNCHANGED <<there, given>>
  BY <1>1 DEF Mac!HostDoes, OnAccount
<1> QED
  BY <1>0, <1>2, <1>3, <1>4, <1>5

(* What it does for one that is. *)
Hosted(k) ==
  /\ there' \subseteq Accounts /\ given' \in LooksOf /\ Gone'
  /\ given'.label = given.label
  /\ k.op = "create" => given'.colors = given.colors
  /\ k.op \in {"rename", "delete"} =>
       /\ k.from \notin there'
       /\ Mac!Carried(given.colors, k.from, k.to) = given'.colors

LEMMA HostDidAccount ==
  ASSUME MacInv, NEW t \in Tasks, task[t].pc = "send", Mac!HostDoes(t), OnAccount(task[t])
  PROVE  Hosted(task[t])
<1> DEFINE k == task[t]
<1>0. /\ there \subseteq Accounts /\ given \in LooksOf /\ k \in Sent /\ Gone
      /\ k.from \in Accounts /\ k.to \in Accounts /\ (k.op = "rename" <=> k.from # k.to)
  BY DEF MacInv, MacWorld, FitsIn, AccountFits
<1>1. given.colors \in [Accounts -> Mac!Maybe(Looks)] /\ given.label \in Mac!Maybe(Looks)
      /\ Mac!NoOne \in Mac!Maybe(Looks)
  BY <1>0 DEF LooksOf, Mac!Maybe
<1> HIDE DEF k
<1>2. CASE k.op \in {"create", "delete"}
  <2>1. k.from = k.to
    BY <1>0, <1>2
  <2> DEFINE c == [given.colors EXCEPT ![k.from] = Mac!NoOne]
  <2>2. c \in [Accounts -> Mac!Maybe(Looks)] /\ c[k.from] = Mac!NoOne
        /\ \A a \in Accounts \ {k.from} : c[a] = given.colors[a]
    BY <1>0, <1>1
  <2>3. given' = [given EXCEPT !.colors = c]
    BY <1>2 DEF Mac!HostDoes, k
  <2> HIDE DEF c
  <2>4. given' \in LooksOf /\ given'.colors = c /\ given'.label = given.label
    BY <1>0, <1>1, <2>2, <2>3 DEF LooksOf
  <2>5. CASE k.op = "create"
    <3>1. there' = there \cup {k.from} /\ k.from \notin there
      BY <2>5 DEF Mac!HostDoes, k
    <3>2. c = given.colors
      BY <1>0, <1>1, <2>2, <3>1 DEF Gone
    <3> QED
      BY <1>0, <2>4, <2>5, <3>1, <3>2 DEF Hosted, Gone, k
  <2>6. CASE k.op = "delete"
    <3>1. there' = there \ {k.from}
      BY <2>6 DEF Mac!HostDoes, k
    <3>2. Mac!Carried(given.colors, k.from, k.to) = c
      BY <2>1 DEF Mac!Carried, c
    <3> QED
      BY <1>0, <2>2, <2>4, <2>6, <3>1, <3>2 DEF Hosted, Gone, k
  <2> QED
    BY <1>2, <2>5, <2>6
<1>3. CASE k.op = "rename"
  <2>1. k.from # k.to /\ k.from \in there /\ k.to \notin there
        /\ there' = (there \ {k.from}) \cup {k.to}
    BY <1>0, <1>3 DEF Mac!HostDoes, k
  <2> DEFINE g == given.colors
             c == [[g EXCEPT ![k.to] = g[k.from]] EXCEPT ![k.from] = Mac!NoOne]
  <2>2. c \in [Accounts -> Mac!Maybe(Looks)] /\ c[k.from] = Mac!NoOne /\ c[k.to] = g[k.from]
        /\ \A a \in Accounts \ {k.from, k.to} : c[a] = g[a]
    BY <1>0, <1>1, <2>1
  <2>3. given' = [[given EXCEPT !.colors[k.to] = given.colors[k.from]]
                     EXCEPT !.colors[k.from] = Mac!NoOne]
    BY <1>3 DEF Mac!HostDoes, k
  <2>4. given' \in LooksOf /\ given'.colors = c /\ given'.label = given.label
    <3> DEFINE h == [g EXCEPT ![k.to] = g[k.from]]
               one == [given EXCEPT !.colors = h]
    <3>1. h \in [Accounts -> Mac!Maybe(Looks)] /\ c = [h EXCEPT ![k.from] = Mac!NoOne]
      BY <1>0, <1>1
    <3>2. one \in LooksOf /\ one.colors = h /\ one.label = given.label
      BY <1>0, <1>1, <3>1 DEF LooksOf
    <3>3. given' = [one EXCEPT !.colors = [one.colors EXCEPT ![k.from] = Mac!NoOne]]
      BY <2>3
    <3> HIDE DEF h, one, c
    <3>4. given' = [one EXCEPT !.colors = c]
      BY <3>1, <3>2, <3>3
    <3> QED
      BY <2>2, <3>2, <3>4 DEF LooksOf
  <2>5. g[k.to] = Mac!NoOne
    BY <1>0, <2>1 DEF Gone
  <2>6. Mac!Carried(g, k.from, k.to) = c
    <3>1. CASE g[k.from] = Mac!NoOne
      <4>1. \A a \in Accounts : c[a] = g[a]
        BY <2>2, <2>5, <3>1
      <4>2. c = g
        BY <1>1, <2>2, <4>1
      <4> QED
        BY <2>1, <3>1, <4>2 DEF Mac!Carried
    <3>2. CASE g[k.from] # Mac!NoOne
      BY <2>1, <3>2 DEF Mac!Carried
    <3> QED
      BY <3>1, <3>2
  <2>7. Gone'
    <3>1. \A a \in Accounts \ there' : c[a] = Mac!NoOne
      BY <1>0, <2>1, <2>2 DEF Gone
    <3> QED
      BY <2>4, <3>1 DEF Gone
  <2> QED
    BY <1>0, <1>3, <2>1, <2>4, <2>6, <2>7 DEF Hosted, k
<1> QED
  BY <1>2, <1>3 DEF OnAccount, k
------------------------------------------------------------------------------
(* A command whose answer came. *)
Answers(k, r, a) ==
  /\ r \in Sent
  /\ r.op = k.op /\ r.how = k.how /\ r.id = k.id /\ r.host = k.host
  /\ r.from = k.from /\ r.to = k.to /\ r.done = k.done + 1 /\ r.by = a
  /\ r.token = IF k.op = "pair" THEN paired + 1 ELSE k.token
  /\ k.op = "pair" => r.pc = "keep"
  /\ k.op = "remove" => r.pc = "deleteToken"
  /\ k.op \notin {"pair", "remove"} => r.pc = IF k.how.notes THEN "note" ELSE "idle"

LEMMA AnsweredIs ==
  ASSUME MacInv, NEW t \in Tasks, NEW a \in Addresses, Mac!Answered(t, a)
  PROVE  \E r \in Sent : task' = [task EXCEPT ![t] = r] /\ Answers(task[t], r, a)
<1> DEFINE k == task[t]
           n == IF k.op = "pair" THEN paired + 1 ELSE k.token
           step == IF k.op = "pair" THEN "keep"
                   ELSE IF k.op = "remove" THEN "deleteToken"
                   ELSE IF k.how.notes THEN "note" ELSE "idle"
           d == k.done + 1
           r == [k EXCEPT !.done = d, !.left = {}, !.by = a, !.token = n, !.pc = step]
<1>0. k \in Sent /\ task[t].pc = "send" /\ Mac!HostDoes(t)
  BY DEF MacInv, MacWorld, Mac!Answered, Mac!Trying
<1>1. task' = [task EXCEPT ![t] = r]
  BY DEF Mac!Answered, Mac!Set
<1>2. d \in Nat /\ {} \subseteq Addresses /\ a \in Mac!Maybe(Addresses)
  BY <1>0, Fields DEF Mac!Maybe
<1>3. n \in 0..MaxClients
  <2>1. k.op = "pair" => paired' = paired + 1 /\ paired' \in 0..MaxClients
    BY <1>0, HostDid
  <2> QED
    BY <1>0, <2>1, Fields
<1>4. step \in Mac!Steps /\ (k.op = "pair" => step = "keep") /\ (k.op = "remove" => step = "deleteToken")
      /\ (k.op \notin {"pair", "remove"} => step = IF k.how.notes THEN "note" ELSE "idle")
  BY StepsAre
<1>5. n = IF k.op = "pair" THEN paired + 1 ELSE k.token
  OBVIOUS
<1>6. d = k.done + 1
  OBVIOUS
<1> HIDE DEF n, step, d, k
<1>7. r \in Sent
  BY <1>0, <1>2, <1>3, <1>4 DEF Sent
<1>8. /\ r.op = k.op /\ r.how = k.how /\ r.id = k.id /\ r.host = k.host
      /\ r.from = k.from /\ r.to = k.to /\ r.done = d /\ r.by = a /\ r.token = n /\ r.pc = step
  BY <1>0 DEF Sent
<1> HIDE DEF r
<1>9. Answers(k, r, a)
  BY <1>4, <1>5, <1>6, <1>7, <1>8 DEF Answers
<1> QED
  BY <1>1, <1>7, <1>9 DEF k

LEMMA AnswerFits ==
  ASSUME MacInv, NEW t \in Tasks, NEW a \in Addresses, task[t].pc = "send", Mac!HostDoes(t),
         NEW r \in Sent, Answers(task[t], r, a)
  PROVE  FitsIn(r, removing, paired') /\ ~DoneThere(task[t]) /\ ~HasToken(task[t])
<1>0. /\ FitsIn(task[t], removing, paired) /\ task[t] \in Sent /\ paired \in 0..MaxClients
      /\ paired' \in 0..MaxClients /\ (task[t].op = "pair" => paired' = paired + 1)
  BY HostDid DEF MacInv, MacWorld
<1>1. task[t].op \in {"request", "pair", "remove", "create", "rename", "delete"}
      /\ task[t].done \in Nat /\ task[t].how \in How
  BY <1>0, Fields, OpsAre
<1>2. DoneOnce(r)
  BY <1>0, <1>1 DEF DoneOnce, FitsIn, Answers, Unsent
<1>3. ~task[t].how.reads => task[t].done = 0
  BY <1>0 DEF FitsIn, DoneOnce, Unsent
<1>4. PairFits(r) /\ RemoveFits(r, removing)
  BY <1>0, <1>1 DEF FitsIn, PairFits, RemoveFits, Answers, Unsent, HasToken
<1>5. AccountFits(r) /\ RequestFits(r) /\ LookFits(r)
  BY <1>0, <1>1, Hows DEF FitsIn, AccountFits, RequestFits, LookFits, Answers, Unsent, OnAccount
<1>6. HasToken(r) => r.token \in 1..MaxClients /\ r.token <= paired'
  <2>1. HasToken(r) => task[t].op = "pair"
    BY <1>1 DEF HasToken, Answers
  <2> QED
    BY <1>0, <2>1 DEF Answers
<1>7. r.by \in Addresses /\ (r.pc # "idle" => r.id \in 1..MaxIds)
  BY <1>0 DEF FitsIn, Answers
<1> QED
  BY <1>2, <1>4, <1>5, <1>6, <1>7 DEF FitsIn, DoneThere, HasToken

LEMMA MacAnswered ==
  ASSUME MacInv, NEW t \in Tasks, NEW a \in Addresses, Mac!Answered(t, a)
  PROVE  MacInv'
<1>0. MacWorld /\ task[t].pc = "send" /\ Mac!HostDoes(t) /\ task[t] \in Sent
      /\ UNCHANGED <<entry, keychain, cache, crossed, removing, calls, held, overwritten>>
  BY DEF MacInv, MacWorld, Mac!Answered, Mac!Trying
<1>1. PICK r \in Sent : task' = [task EXCEPT ![t] = r] /\ Answers(task[t], r, a)
  BY AnsweredIs
<1>2. FitsIn(r, removing, paired') /\ ~DoneThere(task[t]) /\ ~HasToken(task[t])
  BY <1>0, <1>1, AnswerFits
<1>3. /\ granted' \subseteq 1..MaxClients /\ paired' \in 0..MaxClients /\ paired <= paired'
      /\ (~OnAccount(task[t]) => UNCHANGED <<there, given>>)
      /\ (task[t].op # "pair" => paired' = paired)
      /\ (task[t].op = "pair" => paired' = paired + 1)
  BY <1>0, HostDid
<1>4. /\ task' \in [Tasks -> Sent] /\ task'[t] = r
      /\ \A o \in Tasks \ {t} : task'[o] = task[o]
  BY <1>0, <1>1, Sets
<1>5. (\A o \in Tasks : FitsIn(task[o], removing, paired))'
  BY <1>0, <1>1, <1>2, <1>3, OthersFit
<1>6. cache' \in [1..MaxIds -> 0..MaxClients] /\ calls' \in 0..MaxCalls
  BY <1>0 DEF MacWorld
<1>7. ASSUME task[t].op \in {"request", "remove"} PROVE MacInv'
  <2>1. GoesOn(task[t], r)
    BY <1>1, <1>2, <1>7 DEF GoesOn, Same, HasToken, DoneThere, Answers
  <2>2. ~OnAccount(task[t])
    BY <1>7 DEF OnAccount
  <2> QED
    BY <1>0, <1>1, <1>2, <1>3, <1>6, <2>1, <2>2, TokensStay, Silent
<1>8. Known'
  <2>1. \A i \in 1..MaxIds : Mac!Listed(i) => entry[i].client <= paired /\ entry[i].client \in Nat
    BY <1>0, ListedIs DEF MacInv, Known
  <2> QED
    BY <1>0, <1>3, <2>1 DEF MacWorld, Known, Mac!Listed
<1>9. ASSUME task[t].op = "pair" PROVE MacInv'
  <2>1. UNCHANGED <<there, given>> /\ paired' = paired + 1 /\ paired \in 0..MaxClients
    BY <1>0, <1>3, <1>9 DEF OnAccount, MacWorld
  <2>2. MacWorld' /\ Gone'
    BY <1>0, <1>3, <1>4, <2>1 DEF MacWorld, MacInv, Gone
  <2>3. r.pc = "keep" /\ r.op = "pair" /\ r.token = paired + 1 /\ r.id = task[t].id
        /\ r.host = task[t].host /\ ~DoneThere(r) /\ ~OnAccount(r)
    BY <1>1, <1>9 DEF Answers, DoneThere, OnAccount
  <2>4. ASSUME ~crossed, ~overwritten PROVE Calm'
    <3>0. Calm
      BY <2>4 DEF MacInv
    <3>1. Sole' /\ OneListed' /\ LabelFits'
      BY <1>0, <1>4, <1>9, <2>1, <2>3, <3>0 DEF Calm, Sole, Changes, OneListed, LabelFits, Mac!Listed
    <3>2. TokensFit'
      <4>1. \A o \in Tasks \ {t} : task'[o] = task[o]
        BY <1>4
      <4>2. \A i \in 1..MaxIds : Mac!Listed(i) => entry[i].client <= paired /\ entry[i].client \in Nat
        BY <1>0, ListedIs DEF MacInv, Known
      <4>3. Mac!Listed(r.id) => entry[r.id].client <= r.token
        <5>1. r.id \in 1..MaxIds
          BY <1>2, <2>3 DEF FitsIn
        <5> QED
          BY <2>1, <2>3, <4>2, <5>1
      <4>4. \A o \in Tasks : HasToken(task'[o]) =>
              /\ Mac!Listed(task'[o].id) => entry[task'[o].id].client <= task'[o].token
              /\ task'[o].id \notin removing /\ task'[o].pc \in {"keepCache", "list"} =>
                   keychain[task'[o].id] = task'[o].token
        BY <1>4, <2>3, <3>0, <4>3 DEF Calm, TokensFit
      <4> QED
        BY <1>0, <3>0, <4>4 DEF Calm, TokensFit, Mac!Listed
    <3>3. \A o \in Tasks : DoneThere(task'[o]) <=> DoneThere(task[o])
      BY <1>2, <1>4, <2>3
    <3>4. ColorsFit' /\ CarriedFit'
      BY <1>0, <1>2, <1>4, <2>1, <2>3, <3>0, <3>3 DEF Calm, ColorsFit, CarriedFit, Mac!Listed
    <3>5. PairedFit'
      BY <1>0, <1>4, <1>9, <2>1, <2>3, <3>0 DEF Calm, PairedFit, Mac!Listed
    <3>6. AccountListed'
      BY <1>0, <1>4, <2>3, <3>0 DEF Calm, AccountListed, OnListed, Mac!Listed
    <3> QED
      BY <3>1, <3>2, <3>4, <3>5, <3>6 DEF Calm
  <2> QED
    BY <1>0, <1>5, <1>8, <2>2, <2>4 DEF MacInv
<1>10. ASSUME OnAccount(task[t]) PROVE MacInv'
  <2>1. Hosted(task[t]) /\ paired' = paired
    BY <1>0, <1>3, <1>10, HostDidAccount DEF OnAccount
  <2>2. MacWorld' /\ Gone'
    BY <1>0, <1>3, <1>4, <2>1 DEF MacWorld, Hosted
  <2>3. r.pc = "note" /\ r.op = task[t].op /\ r.id = task[t].id /\ OnAccount(r) /\ ~HasToken(r)
        /\ r.from = task[t].from /\ r.to = task[t].to
    <3>1. task[t].how = Mac!Doing
      BY <1>10 DEF MacInv, FitsIn, AccountFits
    <3> QED
      BY <1>1, <1>10, <3>1, Hows DEF Answers, OnAccount, HasToken
  <2>4. ASSUME ~crossed, ~overwritten PROVE Calm'
    <3>0. Calm
      BY <2>4 DEF MacInv
    <3>1. \A o \in Tasks \ {t} : ~Changes(task[o])
      BY <1>10, <3>0 DEF Calm, Sole, Changes, OnAccount
    <3>2. Sole' /\ OneListed' /\ LabelFits'
      BY <1>0, <1>4, <2>1, <3>0, <3>1 DEF Calm, Sole, Changes, OneListed, LabelFits, Mac!Listed, Hosted
    <3>3. TokensFit'
      <4>1. \A o \in Tasks : HasToken(task'[o]) => HasToken(task[o]) /\ task'[o] = task[o]
        BY <1>4, <2>3
      <4> QED
        BY <1>0, <3>0, <4>1 DEF Calm, TokensFit, Mac!Listed
    <3>4. \A o \in Tasks : ~DoneThere(task[o])
      BY <1>2, <3>1 DEF DoneThere, Changes
    <3>5. \A i \in 1..MaxIds : Mac!Listed(i) => entry[i].colors = given.colors
      BY <3>0, <3>4 DEF Calm, ColorsFit
    <3>6. \A o \in Tasks \ {t} : ~DoneThere(task'[o])
      BY <1>4, <3>4
    <3>7. ASSUME task[t].op = "create" PROVE ColorsFit' /\ CarriedFit'
      <4>1. ColorsFit'
        BY <1>0, <2>1, <3>5, <3>7 DEF ColorsFit, Hosted, Mac!Listed
      <4>2. \A o \in Tasks : ~DoneThere(task'[o])
        BY <1>4, <2>3, <3>6, <3>7 DEF DoneThere
      <4> QED
        BY <4>1, <4>2 DEF CarriedFit
    <3>8. ASSUME task[t].op \in {"rename", "delete"} PROVE ColorsFit' /\ CarriedFit'
      <4>1. DoneThere(r)
        BY <2>3, <3>8 DEF DoneThere
      <4>2. Mac!Listed(r.id) /\ r.id \in 1..MaxIds
        BY <1>2, <1>10, <2>3, <3>0 DEF Calm, AccountListed, OnListed, FitsIn
      <4>3. entry[r.id].colors = given.colors
        BY <3>5, <4>2
      <4>4. Mac!Carried(entry[r.id].colors, r.from, r.to) = given'.colors /\ r.from \notin there'
        BY <2>1, <2>3, <3>8, <4>3 DEF Hosted
      <4>5. CarriedFit'
        BY <1>0, <1>4, <3>6, <4>4 DEF CarriedFit
      <4> QED
        BY <1>4, <4>1, <4>5 DEF ColorsFit
    <3>9. ColorsFit' /\ CarriedFit'
      BY <1>10, <3>7, <3>8 DEF OnAccount
    <3>10. PairedFit'
      BY <1>4, <2>3, <3>1 DEF PairedFit, Changes, OnAccount
    <3>11. AccountListed'
      BY <1>0, <1>4, <1>10, <2>3, <3>0, <3>1 DEF Calm, AccountListed, OnListed, Mac!Listed, OnAccount, Changes
    <3> QED
      BY <3>2, <3>3, <3>9, <3>10, <3>11 DEF Calm
  <2> QED
    BY <1>0, <1>5, <1>8, <2>2, <2>4 DEF MacInv
<1> QED
  BY <1>0, <1>7, <1>9, <1>10, Fields, OpsAre DEF OnAccount
------------------------------------------------------------------------------
(* An answer that doesn't come. *)
LEMMA FailTakes ==
  ASSUME MacWorld, NEW t \in Tasks, Mac!Fail(t)
  PROVE  \E r \in Sent :
           /\ task' = [task EXCEPT ![t] = r]
           /\ \/ r = Mac!Idle
              \/ /\ task[t].op = "remove" /\ r.pc = "deleteToken"
                 /\ r.op = task[t].op /\ r.id = task[t].id
                 /\ r.host = task[t].host /\ r.from = task[t].from /\ r.to = task[t].to
                 /\ r.token = task[t].token /\ r.how = task[t].how
                 /\ r.done = task[t].done /\ r.by = task[t].by
<1>1. CASE task[t].op = "remove"
  <2>1. Mac!Goto(t, "deleteToken")
    BY <1>1 DEF Mac!Fail
  <2> QED
    BY <1>1, <2>1, GotoIs, StepsAre
<1>2. CASE task[t].op # "remove"
  BY <1>2, IdleIs DEF Mac!Fail, Mac!End, Mac!Set
<1> QED
  BY <1>1, <1>2

LEMMA FailFits ==
  ASSUME MacInv, NEW t \in Tasks, task[t].pc = "send", NEW r \in Sent,
         \/ r = Mac!Idle
         \/ /\ task[t].op = "remove" /\ r.pc = "deleteToken"
            /\ r.op = task[t].op /\ r.id = task[t].id
            /\ r.host = task[t].host /\ r.from = task[t].from /\ r.to = task[t].to
            /\ r.token = task[t].token /\ r.how = task[t].how
            /\ r.done = task[t].done /\ r.by = task[t].by,
         NEW n
  PROVE  FitsIn(r, removing, n) /\ GoesOn(task[t], r)
<1>0. FitsIn(task[t], removing, paired)
  BY DEF MacInv
<1>1. CASE r = Mac!Idle
  BY <1>1, IdleIs DEF GoesOn, DoneThere
<1>2. CASE r # Mac!Idle
  <2>1. FitsIn(r, removing, n)
    BY <1>0, <1>2, Hows DEF FitsIn, PairFits, RemoveFits, AccountFits, RequestFits, LookFits,
       DoneOnce, HasToken, Unsent, OnAccount
  <2>2. GoesOn(task[t], r)
    BY <1>2 DEF GoesOn, Same, HasToken, DoneThere
  <2> QED
    BY <2>1, <2>2
<1> QED
  BY <1>1, <1>2

LEMMA MacLost ==
  ASSUME MacInv, NEW t \in Tasks, NEW a \in Addresses, Mac!Lost(t, a)
  PROVE  MacInv'
<1>0. MacWorld /\ task[t].pc = "send" /\ task[t] \in Sent
      /\ UNCHANGED <<entry, keychain, cache, removing, calls, held, overwritten>>
      /\ cache' \in [1..MaxIds -> 0..MaxClients] /\ calls' \in 0..MaxCalls
  BY DEF MacInv, MacWorld, Mac!Lost, Mac!Trying
<1>1. task[t].how \in How /\ task[t].op \in Mac!Ops
  BY <1>0, Fields
<1>2. ASSUME UNCHANGED <<granted, there, given, paired, crossed>>,
             IF task[t].how.reads THEN Mac!Continue(t, a, task[t]) ELSE Mac!Fail(t)
      PROVE  MacInv'
  <2>1. MacSame /\ MacOthers
    BY <1>0, <1>2 DEF MacSame, MacOthers, MacWorld
  <2> QED
    BY <1>0, <1>2, <2>1, Continues, SendFails
<1>3. ASSUME Mac!HostDoes(t), crossed' = (crossed \/ task[t].op \in Mac!AccountOps),
             IF task[t].how.reads
             THEN Mac!Continue(t, a, [task[t] EXCEPT !.done = task[t].done + 1]) ELSE Mac!Fail(t)
      PROVE  MacInv'
  <2>1. /\ granted' \subseteq 1..MaxClients /\ paired' \in 0..MaxClients /\ paired <= paired'
        /\ (~OnAccount(task[t]) => UNCHANGED <<there, given>>)
        /\ (task[t].op # "pair" => paired' = paired)
    BY <1>0, <1>3, HostDid
  <2>2. FitsIn(task[t], removing, paired)
    BY DEF MacInv
  <2>3. CASE task[t].how.reads
    <3>1. task[t].op = "request"
      BY <1>1, <2>2, <2>3, Hows, OpsAre DEF FitsIn, PairFits, RemoveFits, AccountFits, OnAccount
    <3>2. crossed' = crossed
      BY <1>0, <1>3, <3>1, OpsAre DEF MacWorld
    <3>3. MacSame /\ MacOthers
      BY <1>0, <2>1, <3>1, <3>2 DEF MacSame, MacOthers, OnAccount
    <3> QED
      BY <1>0, <1>3, <2>3, <3>3, Continues
  <2>4. CASE ~task[t].how.reads
    <3>1. PICK r \in Sent :
            /\ task' = [task EXCEPT ![t] = r]
            /\ \/ r = Mac!Idle
               \/ /\ task[t].op = "remove" /\ r.pc = "deleteToken"
                  /\ r.op = task[t].op /\ r.id = task[t].id
                  /\ r.host = task[t].host /\ r.from = task[t].from /\ r.to = task[t].to
                  /\ r.token = task[t].token /\ r.how = task[t].how
                  /\ r.done = task[t].done /\ r.by = task[t].by
      BY <1>0, <1>3, <2>4, FailTakes
    <3>2. FitsIn(r, removing, paired') /\ GoesOn(task[t], r)
      BY <1>0, <3>1, FailFits
    <3>3. CASE ~OnAccount(task[t])
      <4>1. crossed' = crossed
        BY <1>0, <1>3, <3>3, OpsAre DEF MacWorld, OnAccount
      <4> QED
        BY <1>0, <2>1, <3>1, <3>2, <3>3, <4>1, TokensStay, Silent
    <3>4. CASE OnAccount(task[t])
      <4>1. Hosted(task[t]) /\ paired' = paired
        BY <1>0, <1>3, <2>1, <3>4, HostDidAccount DEF OnAccount
      <4>2. crossed'
        BY <1>3, <3>4, OpsAre DEF OnAccount
      <4>3. MacWorld' /\ Gone'
        BY <1>0, <2>1, <3>1, <4>1, <4>2, Sets DEF MacWorld, Hosted
      <4>4. (\A o \in Tasks : FitsIn(task[o], removing, paired))'
        BY <1>0, <2>1, <3>1, <3>2, OthersFit
      <4>5. Known'
        BY <1>0, <4>1 DEF MacInv, Known, Mac!Listed
      <4> QED
        BY <4>2, <4>3, <4>4, <4>5 DEF MacInv
    <3> QED
      BY <3>3, <3>4
  <2> QED
    BY <2>3, <2>4
<1> QED
  BY <1>2, <1>3 DEF Mac!Lost

------------------------------------------------------------------------------
(* After the answer. *)
LEMMA MacGiveBack ==
  ASSUME MacInv, NEW t \in Tasks, Mac!GiveBack(t)
  PROVE  MacInv'
<1>1. MacSame /\ MacOthers /\ ~DoneThere(task[t])
  BY DEF Mac!GiveBack, MacSame, MacOthers, MacInv, MacWorld, DoneThere
<1> QED
  BY <1>1, Ends DEF Mac!GiveBack

LEMMA MacKeep ==
  ASSUME MacInv, NEW t \in Tasks, Mac!Keep(t)
  PROVE  MacInv'
<1>0. MacWorld /\ task[t].pc = "keep" /\ task[t] \in Sent /\ FitsIn(task[t], removing, paired)
      /\ UNCHANGED <<entry, cache, granted, there, given, crossed, removing, paired, calls, held, overwritten>>
      /\ paired' \in 0..MaxClients /\ paired <= paired' /\ removing' \subseteq 1..MaxIds
      /\ removing \subseteq removing'
  BY DEF MacInv, MacWorld, Mac!Keep
<1>1. CASE Mac!Goto(t, "giveBack") /\ UNCHANGED keychain
  BY <1>0, <1>1, StepsAre, GoesToNext DEF MacSame, MacOthers, MacWorld
<1>2. CASE keychain' = [keychain EXCEPT ![task[t].id] = task[t].token] /\ Mac!Goto(t, "keepCache")
  <2> DEFINE i == task[t].id
  <2>0. i \in 1..MaxIds /\ task[t].token \in 1..MaxClients /\ task[t].token <= paired /\ task[t].by \in Addresses
        /\ task[t].op = "pair" /\ task[t].how = Mac!Doing
    <3>1. task[t].op \in Mac!Ops
      BY <1>0, Fields
    <3> QED
      BY <1>0, <3>1, OpsAre DEF FitsIn, HasToken, RequestFits, RemoveFits, AccountFits, OnAccount, Unsent,
       PairFits
  <2>1. keychain' \in [1..MaxIds -> 0..MaxClients] /\ keychain'[i] = task[t].token
        /\ \A j \in (1..MaxIds) \ {i} : keychain'[j] = keychain[j]
    BY <1>0, <1>2, <2>0 DEF MacWorld
  <2>2. PICK r \in Sent : /\ task' = [task EXCEPT ![t] = r]
                          /\ r.pc = "keepCache" /\ r.op = task[t].op /\ r.id = task[t].id
                          /\ r.host = task[t].host /\ r.from = task[t].from /\ r.to = task[t].to
                          /\ r.token = task[t].token /\ r.how = task[t].how
                          /\ r.done = task[t].done /\ r.by = task[t].by
    BY <1>0, <1>2, StepsAre, GotoIs
  <2>3. /\ task' \in [Tasks -> Sent] /\ task'[t] = r
        /\ \A o \in Tasks \ {t} : task'[o] = task[o]
    BY <1>0, <2>2, Sets
  <2>4. MacWorld'
    BY <1>0, <2>1, <2>3 DEF MacWorld
  <2>5. FitsIn(r, removing', paired')
    BY <1>0, <2>0, <2>2, Hows DEF FitsIn, PairFits, RemoveFits, AccountFits, RequestFits, LookFits,
     DoneOnce, HasToken, Unsent, OnAccount
  <2>6. (\A o \in Tasks : FitsIn(task[o], removing, paired))'
    BY <1>0, <2>2, <2>5, OthersFit
  <2>7. Known' /\ Gone'
    BY <1>0 DEF MacInv, Known, Gone, Mac!Listed
  <2>8. ASSUME ~crossed, ~overwritten PROVE Calm'
    <3>0. Calm
      BY <2>8 DEF MacInv
    <3>1. \A o \in Tasks \ {t} : ~Changes(task[o])
      BY <2>0, <3>0 DEF Calm, Sole, Changes
    <3>2. \A o \in Tasks \ {t} : ~HasToken(task[o])
      BY <3>1 DEF MacInv, FitsIn, RequestFits, Changes, HasToken, Unsent
    <3>3. Sole' /\ OneListed' /\ LabelFits'
      BY <1>0, <2>2, <2>3, <3>0 DEF Calm, Sole, Changes, OneListed, LabelFits, Mac!Listed
    <3>4. TokensFit'
      <4>1. Mac!Listed(i) => entry[i].client <= task[t].token
        BY <1>0, <3>0 DEF Calm, TokensFit, HasToken
      <4>2. \A j \in 1..MaxIds : Mac!Listed(j) /\ j \notin removing =>
              keychain'[j] # 0 /\ keychain'[j] >= entry[j].client
        <5>1. \A j \in (1..MaxIds) \ {i} : Mac!Listed(j) /\ j \notin removing =>
                keychain'[j] # 0 /\ keychain'[j] >= entry[j].client
          BY <2>1, <3>0 DEF Calm, TokensFit
        <5>2. Mac!Listed(i) => keychain'[i] # 0 /\ keychain'[i] >= entry[i].client
          <6>1. Mac!Listed(i) => entry[i].client \in 1..MaxClients
            BY <1>0, <2>0, ListedIs
          <6> QED
            BY <2>0, <2>1, <4>1, <6>1
        <5> QED
          BY <5>1, <5>2
      <4>3. \A o \in Tasks : HasToken(task'[o]) =>
              /\ Mac!Listed(task'[o].id) => entry[task'[o].id].client <= task'[o].token
              /\ task'[o].id \notin removing /\ task'[o].pc \in {"keepCache", "list"} =>
                   keychain'[task'[o].id] = task'[o].token
        BY <2>1, <2>2, <2>3, <3>2, <4>1
      <4> QED
        BY <1>0, <4>2, <4>3 DEF TokensFit, Mac!Listed
    <3>5. \A o \in Tasks : DoneThere(task'[o]) <=> DoneThere(task[o])
      BY <2>0, <2>2, <2>3 DEF DoneThere
    <3>6. ColorsFit' /\ CarriedFit'
      BY <1>0, <2>0, <2>2, <2>3, <3>0, <3>5 DEF Calm, ColorsFit, CarriedFit, Mac!Listed, DoneThere
    <3>7. PairedFit' /\ AccountListed'
      BY <1>0, <2>0, <2>2, <2>3, <3>0 DEF Calm, PairedFit, AccountListed, OnListed, Mac!Listed, OnAccount
    <3> QED
      BY <3>3, <3>4, <3>6, <3>7 DEF Calm
  <2> QED
    BY <1>0, <2>4, <2>6, <2>7, <2>8 DEF MacInv
<1> QED
  BY <1>1, <1>2 DEF Mac!Keep

LEMMA MacNote ==
  ASSUME MacInv, NEW t \in Tasks, Mac!Note(t)
  PROVE  MacInv'
<1>0. MacWorld /\ task[t].pc = "note" /\ task[t] \in Sent /\ FitsIn(task[t], removing, paired)
      /\ UNCHANGED <<keychain, cache, granted, there, given, crossed, removing, paired, calls, held, overwritten>>
      /\ paired' \in 0..MaxClients /\ paired <= paired' /\ cache' \in [1..MaxIds -> 0..MaxClients]
      /\ granted' \subseteq 1..MaxClients /\ calls' \in 0..MaxCalls
  BY DEF MacInv, MacWorld, Mac!Note
<1>1. task[t].id \in 1..MaxIds /\ task[t].by \in Addresses
  BY <1>0 DEF FitsIn
<1>2. Alike
  <2> DEFINE i == task[t].id
             e == [entry[i] EXCEPT !.good = task[t].by]
  <2>1. CASE entry' = entry
    BY <1>0, <2>1 DEF Alike, Mac!Listed, MacWorld
  <2>2. CASE Mac!Listed(i) /\ entry' = [entry EXCEPT ![i] = e]
    <3>1. entry[i] \in Mac!Entry
      BY <1>0, <1>1, <2>2, ListedIs
    <3>2. e \in Mac!Entry /\ e.client = entry[i].client /\ e.label = entry[i].label
          /\ e.colors = entry[i].colors
      BY <1>1, <3>1 DEF Mac!Entry
    <3>3. e # Mac!NoEntry
      BY <3>1, <3>2 DEF Mac!Entry, Mac!NoEntry, Mac!NoToken, Mac!Clients
    <3> HIDE DEF e
    <3>4. entry' \in [1..MaxIds -> Mac!Entry \cup {Mac!NoEntry}] /\ entry'[i] = e
          /\ \A j \in (1..MaxIds) \ {i} : entry'[j] = entry[j]
      BY <1>0, <1>1, <2>2, <3>2 DEF MacWorld
    <3> QED
      BY <1>1, <2>2, <3>2, <3>3, <3>4 DEF Alike, Mac!Listed
  <2>3. entry' = entry \/ (Mac!Listed(i) /\ entry' = [entry EXCEPT ![i] = e])
    BY DEF Mac!Note
  <2> QED
    BY <2>1, <2>2, <2>3
<1>3. CASE task[t].op \in {"rename", "delete"}
  <2>1. Mac!Goto(t, "look")
    BY <1>3 DEF Mac!Note
  <2>2. PICK r \in Sent : /\ task' = [task EXCEPT ![t] = r]
                          /\ r.pc = "look" /\ r.op = task[t].op /\ r.id = task[t].id
                          /\ r.host = task[t].host /\ r.from = task[t].from /\ r.to = task[t].to
                          /\ r.token = task[t].token /\ r.how = task[t].how
                          /\ r.done = task[t].done /\ r.by = task[t].by
    BY <1>0, <2>1, StepsAre, GotoIs
  <2>3. FitsIn(r, removing, paired')
    BY <1>0, <1>3, <2>2 DEF FitsIn, PairFits, RemoveFits, AccountFits, RequestFits, LookFits,
       DoneOnce, HasToken, Unsent, OnAccount
  <2>4. GoesOn(task[t], r)
    BY <1>0, <1>3, <2>2 DEF GoesOn, Same, HasToken, DoneThere
  <2> QED
    BY <1>0, <1>2, <2>2, <2>3, <2>4, TokensStay, Goes
<1>4. CASE task[t].op \notin {"rename", "delete"}
  <2>1. task' = [task EXCEPT ![t] = Mac!Idle]
    BY <1>4 DEF Mac!Note, Mac!End, Mac!Set
  <2>2. GoesOn(task[t], Mac!Idle)
    BY <1>4, IdleIs DEF GoesOn, DoneThere
  <2> QED
    BY <1>0, <1>2, <2>1, <2>2, IdleIs, TokensStay, Goes
<1> QED
  BY <1>3, <1>4

(* What remains of Calm when a command that changed something ends. *)
LEMMA Quiet ==
  ASSUME MacInv, Calm, NEW t \in Tasks, task' = [task EXCEPT ![t] = Mac!Idle], Changes(task[t])
  PROVE  /\ \A o \in Tasks : ~Changes(task'[o]) /\ ~HasToken(task'[o]) /\ ~DoneThere(task'[o])
         /\ \A o \in Tasks : task'[o].op # "pair" /\ ~OnAccount(task'[o])
<1>1. /\ task' \in [Tasks -> Sent] /\ task'[t] = Mac!Idle
      /\ \A o \in Tasks \ {t} : task'[o] = task[o]
  BY IdleIs, Sets DEF MacInv
<1>2. \A o \in Tasks \ {t} : ~Changes(task[o])
  BY DEF Calm, Sole
<1>3. \A o \in Tasks \ {t} : ~HasToken(task[o])
  BY <1>2 DEF MacInv, FitsIn, RequestFits, Changes, HasToken, Unsent
<1>4. \A o \in Tasks \ {t} : ~DoneThere(task[o]) /\ ~OnAccount(task[o]) /\ task[o].op # "pair"
  BY <1>2 DEF Changes, DoneThere, OnAccount
<1> QED
  BY <1>1, <1>2, <1>3, <1>4, IdleIs DEF Changes, HasToken, DoneThere, OnAccount

LEMMA Settled ==
  ASSUME \A o \in Tasks : ~Changes(task'[o]) /\ ~HasToken(task'[o]) /\ ~DoneThere(task'[o]),
         \A o \in Tasks : task'[o].op # "pair" /\ ~OnAccount(task'[o]),
         OneListed', LabelFits',
         \A i \in 1..MaxIds : Mac!Listed(i)' =>
           /\ entry'[i].colors = given'.colors
           /\ i \notin removing' => keychain'[i] # 0 /\ keychain'[i] >= entry'[i].client
  PROVE  Calm'
BY DEF Calm, Sole, TokensFit, ColorsFit, CarriedFit, PairedFit, AccountListed, OnListed, Changes, OnAccount, Mac!Listed

(* One entry of the list changed. *)
LEMMA EntryIs ==
  ASSUME MacWorld, NEW i \in 1..MaxIds, NEW e \in Mac!Entry \cup {Mac!NoEntry},
         entry' = [entry EXCEPT ![i] = e]
  PROVE  /\ entry' \in [1..MaxIds -> Mac!Entry \cup {Mac!NoEntry}] /\ entry'[i] = e
         /\ \A j \in (1..MaxIds) \ {i} : entry'[j] = entry[j] /\ (Mac!Listed(j)' <=> Mac!Listed(j))
         /\ Mac!Listed(i)' <=> e # Mac!NoEntry
BY DEF MacWorld, Mac!Listed

LEMMA EntryNotNo == ASSUME NEW e \in Mac!Entry PROVE e # Mac!NoEntry /\ e.client \in 1..MaxClients
<1>1. DOMAIN e = {"client", "good", "label", "colors"} /\ e.client \in 1..MaxClients
  BY DEF Mac!Entry, Mac!Clients
<1>2. Mac!NoEntry.client = 0
  BY DEF Mac!NoEntry, Mac!NoToken
<1> QED
  BY <1>1, <1>2

LEMMA GivenIs ==
  ASSUME MacWorld
  PROVE  /\ given.label \in Mac!Maybe(Looks) /\ given.colors \in [Accounts -> Mac!Maybe(Looks)]
         /\ \A l \in Mac!Maybe(Looks) :
              /\ [given EXCEPT !.label = l] \in LooksOf
              /\ [given EXCEPT !.label = l].label = l
              /\ [given EXCEPT !.label = l].colors = given.colors
         /\ \A c \in [Accounts -> Mac!Maybe(Looks)] :
              /\ [given EXCEPT !.colors = c] \in LooksOf
              /\ [given EXCEPT !.colors = c].label = given.label
              /\ [given EXCEPT !.colors = c].colors = c
         /\ Mac!NewLooks \in LooksOf /\ Mac!NewLooks.label = Mac!NoOne
         /\ \A a \in Accounts : Mac!NewLooks.colors[a] = Mac!NoOne
BY DEF MacWorld, LooksOf, Mac!NewLooks, Mac!Maybe

LEMMA MacLabel ==
  ASSUME MacInv, NEW i \in 1..MaxIds, NEW l \in Looks, Mac!Label(i, l)
  PROVE  MacInv'
<1>a. MacWorld /\ Mac!Listed(i) /\ calls' = calls + 1 /\ calls < MaxCalls
      /\ UNCHANGED <<keychain, cache, task, granted, there, removing, paired, held, overwritten>>
      /\ given' = [given EXCEPT !.label = l]
      /\ crossed' = (crossed \/ \E o \in Tasks : task[o].op = "pair")
  BY DEF MacInv, Mac!Label
<1>b. calls \in 0..MaxCalls
  BY <1>a DEF MacWorld
<1>c. calls' \in 0..MaxCalls
  BY <1>a, <1>b
<1>0. MacWorld /\ Mac!Listed(i) /\ calls' \in 0..MaxCalls /\ calls' = calls + 1
      /\ UNCHANGED <<keychain, cache, task, granted, there, removing, paired, held, overwritten>>
      /\ given' = [given EXCEPT !.label = l]
      /\ crossed' = (crossed \/ \E o \in Tasks : task[o].op = "pair")
  BY <1>a, <1>c
<1>1. l \in Mac!Maybe(Looks) /\ entry[i] \in Mac!Entry
  BY <1>0, ListedIs DEF Mac!Maybe
<1> DEFINE e == [entry[i] EXCEPT !.label = l]
<1>2. e \in Mac!Entry /\ e.client = entry[i].client /\ e.label = l /\ e.colors = entry[i].colors
  BY <1>1 DEF Mac!Entry
<1>3. entry' = [entry EXCEPT ![i] = e]
  BY DEF Mac!Label
<1> HIDE DEF e
<1>4. e # Mac!NoEntry
  BY <1>2, EntryNotNo
<1>5. /\ entry' \in [1..MaxIds -> Mac!Entry \cup {Mac!NoEntry}] /\ entry'[i] = e
      /\ \A j \in 1..MaxIds : Mac!Listed(j)' <=> Mac!Listed(j)
      /\ \A j \in (1..MaxIds) \ {i} : entry'[j] = entry[j]
  BY <1>0, <1>2, <1>3, <1>4, EntryIs
<1>6. given' \in LooksOf /\ given'.label = l /\ given'.colors = given.colors
  BY <1>0, <1>1, GivenIs
<1>7. MacWorld'
  BY <1>0, <1>5, <1>6 DEF MacWorld
<1>8. Known' /\ Gone'
  <2>1. \A j \in 1..MaxIds : entry'[j].client = entry[j].client
    BY <1>2, <1>5
  <2> QED
    BY <1>0, <1>5, <1>6, <2>1 DEF MacInv, Known, Gone
<1>9. (\A o \in Tasks : FitsIn(task[o], removing, paired))'
  BY <1>0 DEF MacInv
<1>10. ASSUME ~crossed', ~overwritten' PROVE Calm'
  <2>0. Calm /\ ~crossed /\ \A o \in Tasks : task[o].op # "pair"
    BY <1>0, <1>10 DEF MacInv
  <2>1. Sole' /\ OneListed'
    BY <1>0, <1>5, <2>0 DEF Calm, Sole, OneListed
  <2>2. \A j \in 1..MaxIds : Mac!Listed(j) => j = i
    BY <1>0, <2>0 DEF Calm, OneListed
  <2>3. LabelFits' /\ ColorsFit'
    BY <1>0, <1>2, <1>5, <1>6, <2>0, <2>2 DEF Calm, LabelFits, ColorsFit
  <2>4. \A j \in 1..MaxIds : entry'[j].client = entry[j].client /\ entry'[j].colors = entry[j].colors
    BY <1>2, <1>5
  <2>5. TokensFit'
    <3>1. \A o \in Tasks : HasToken(task[o]) => task[o].id \in 1..MaxIds
      BY DEF MacInv, FitsIn, HasToken
    <3> QED
      BY <1>0, <1>5, <2>0, <2>4, <3>1 DEF Calm, TokensFit, Mac!Listed
  <2>6. CarriedFit'
    <3>1. \A o \in Tasks : DoneThere(task[o]) => task[o].id \in 1..MaxIds
      BY DEF MacInv, FitsIn, DoneThere
    <3> QED
      BY <1>0, <1>6, <2>0, <2>4, <3>1 DEF Calm, CarriedFit
  <2>7. PairedFit'
    BY <1>0, <2>0 DEF PairedFit
  <2>8. AccountListed'
    <3>1. \A o \in Tasks : OnListed(task[o]) => task[o].id \in 1..MaxIds
      BY DEF MacInv, FitsIn, AccountFits, RemoveFits, OnListed, OnAccount, Unsent
    <3> QED
      BY <1>0, <1>5, <2>0, <3>1 DEF Calm, AccountListed, OnListed, Mac!Listed
  <2> QED
    BY <2>1, <2>3, <2>5, <2>6, <2>7, <2>8 DEF Calm
<1> QED
  BY <1>7, <1>8, <1>9, <1>10 DEF MacInv

(* A color given to an account that no rename or deletion speaks of. *)
Colored(g, a, c) == [g EXCEPT ![a] = c]

LEMMA CarriedApart ==
  ASSUME NEW g \in [Accounts -> Mac!Maybe(Looks)], NEW a \in Accounts, NEW c \in Mac!Maybe(Looks),
         NEW from \in Accounts, NEW to \in Accounts, a # from, a # to
  PROVE  Mac!Carried(Colored(g, a, c), from, to) = Colored(Mac!Carried(g, from, to), a, c)
<1> DEFINE h == [g EXCEPT ![a] = c]
<1>1. h \in [Accounts -> Mac!Maybe(Looks)] /\ h[from] = g[from] /\ h[to] = g[to]
      /\ Mac!NoOne \in Mac!Maybe(Looks) /\ h[a] = c
      /\ \A b \in Accounts \ {a} : h[b] = g[b]
  BY DEF Mac!Maybe
<1>2. CASE from = to
  <2>1. \A b \in Accounts : [h EXCEPT ![from] = Mac!NoOne][b] = [[g EXCEPT ![from] = Mac!NoOne] EXCEPT ![a] = c][b]
    BY <1>1
  <2>2. [h EXCEPT ![from] = Mac!NoOne] = [[g EXCEPT ![from] = Mac!NoOne] EXCEPT ![a] = c]
    BY <1>1, <2>1
  <2> QED
    BY <1>2, <2>2 DEF Mac!Carried, Colored
<1>3. CASE from # to /\ g[from] = Mac!NoOne
  BY <1>1, <1>3 DEF Mac!Carried, Colored
<1>4. CASE from # to /\ g[from] # Mac!NoOne
  <2> DEFINE x == [[h EXCEPT ![to] = h[from]] EXCEPT ![from] = Mac!NoOne]
             y == [[[g EXCEPT ![to] = g[from]] EXCEPT ![from] = Mac!NoOne] EXCEPT ![a] = c]
  <2>1. \A b \in Accounts : x[b] = y[b]
    BY <1>1
  <2>2. x = y
    BY <1>1, <2>1
  <2> QED
    BY <1>1, <1>4, <2>2 DEF Mac!Carried, Colored
<1> QED
  BY <1>2, <1>3, <1>4

LEMMA MacColor ==
  ASSUME MacInv, NEW i \in 1..MaxIds, NEW a \in Accounts, NEW c \in Looks, Mac!Color(i, a, c)
  PROVE  MacInv'
<1>0. MacWorld /\ Mac!Listed(i) /\ calls' \in 0..MaxCalls /\ calls' = calls + 1 /\ a \in there
      /\ UNCHANGED <<keychain, cache, task, granted, there, removing, paired, held, overwritten>>
      /\ crossed' = (crossed \/ \E o \in Tasks : task[o].op = "pair" \/ task[o].to = a)
  BY SMTT(30) DEF MacInv, MacWorld, Mac!Color
<1>1. c \in Mac!Maybe(Looks) /\ entry[i] \in Mac!Entry
      /\ entry[i].colors \in [Accounts -> Mac!Maybe(Looks)]
      /\ given.colors \in [Accounts -> Mac!Maybe(Looks)]
  BY <1>0, ListedIs, GivenIs DEF Mac!Maybe
<1> DEFINE d == [entry[i].colors EXCEPT ![a] = c]
           g == [given.colors EXCEPT ![a] = c]
           e == [entry[i] EXCEPT !.colors = d]
<1>2. d \in [Accounts -> Mac!Maybe(Looks)] /\ g \in [Accounts -> Mac!Maybe(Looks)]
  BY <1>1
<1>3. given' = [given EXCEPT !.colors = g]
  BY DEF Mac!Color
<1>4. entry' = [entry EXCEPT ![i] = e]
  BY DEF Mac!Color
<1>5. \A b \in Accounts \ there : g[b] = given.colors[b]
  BY <1>0, <1>1
<1>6. entry[i].colors = given.colors => d = g
  BY <1>1
<1>7. \A o \in Tasks : /\ DoneThere(task[o]) /\ task[o].id = i /\ task[o].from # a
                       /\ task[o].to # a
                       /\ Mac!Carried(entry[i].colors, task[o].from, task[o].to) = given.colors
                       => Mac!Carried(d, task[o].from, task[o].to) = g
  <2> SUFFICES ASSUME NEW o \in Tasks, DoneThere(task[o]), task[o].from # a, task[o].to # a,
                      Mac!Carried(entry[i].colors, task[o].from, task[o].to) = given.colors
               PROVE  Mac!Carried(d, task[o].from, task[o].to) = g
    OBVIOUS
  <2>1. task[o].from \in Accounts /\ task[o].to \in Accounts
    BY DEF MacInv, FitsIn, AccountFits, OnAccount, DoneThere
  <2>2. Mac!Carried(Colored(entry[i].colors, a, c), task[o].from, task[o].to)
          = Colored(Mac!Carried(entry[i].colors, task[o].from, task[o].to), a, c)
    <3>1. PICK x, y, h : x = task[o].from /\ y = task[o].to /\ h = entry[i].colors
      OBVIOUS
    <3> HIDE DEF d, g, e
    <3>2. x \in Accounts /\ y \in Accounts /\ x # a /\ y # a
      BY <2>1, <3>1
    <3>3. h \in [Accounts -> Mac!Maybe(Looks)] /\ c \in Mac!Maybe(Looks)
      BY <1>1, <3>1
    <3>4. Mac!Carried(Colored(h, a, c), x, y) = Colored(Mac!Carried(h, x, y), a, c)
      BY <3>2, <3>3, CarriedApart
    <3> QED
      BY <3>1, <3>4
  <2> QED
    BY <2>2 DEF Colored
<1> HIDE DEF d, g
<1>8. e \in Mac!Entry /\ e.client = entry[i].client /\ e.label = entry[i].label /\ e.colors = d
  BY <1>1, <1>2 DEF Mac!Entry
<1> HIDE DEF e
<1>9. e # Mac!NoEntry
  BY <1>8, EntryNotNo
<1>10. /\ entry' \in [1..MaxIds -> Mac!Entry \cup {Mac!NoEntry}] /\ entry'[i] = e
       /\ \A j \in 1..MaxIds : Mac!Listed(j)' <=> Mac!Listed(j)
       /\ \A j \in (1..MaxIds) \ {i} : entry'[j] = entry[j]
  BY <1>0, <1>4, <1>8, <1>9, EntryIs
<1>11. given' \in LooksOf /\ given'.label = given.label /\ given'.colors = g
  BY <1>0, <1>2, <1>3, GivenIs
<1>12. MacWorld'
  BY <1>0, <1>10, <1>11 DEF MacWorld
<1>13. \A j \in 1..MaxIds : entry'[j].client = entry[j].client /\ entry'[j].label = entry[j].label
  BY <1>8, <1>10
<1>14. Known' /\ Gone'
  BY <1>0, <1>5, <1>10, <1>11, <1>13 DEF MacInv, Known, Gone
<1>15. (\A o \in Tasks : FitsIn(task[o], removing, paired))'
  BY <1>0 DEF MacInv
<1>16. ASSUME ~crossed', ~overwritten' PROVE Calm'
  <2>0. Calm /\ ~crossed /\ \A o \in Tasks : task[o].op # "pair" /\ task[o].to # a
    BY <1>0, <1>16 DEF MacInv
  <2>1. Sole' /\ OneListed'
    BY <1>0, <1>10, <2>0 DEF Calm, Sole, OneListed
  <2>2. \A j \in 1..MaxIds : Mac!Listed(j) => j = i
    BY <1>0, <2>0 DEF Calm, OneListed
  <2>3. LabelFits'
    BY <1>10, <1>11, <1>13, <2>0 DEF Calm, LabelFits
  <2>4. ColorsFit'
    <3>1. (\A o \in Tasks : ~DoneThere(task[o])) => entry[i].colors = given.colors
      BY <1>0, <2>0 DEF Calm, ColorsFit
    <3>2. (\A o \in Tasks : ~DoneThere(task[o])) => d = g
      BY <1>6, <3>1
    <3> QED
      BY <1>0, <1>8, <1>10, <1>11, <2>2, <3>2 DEF ColorsFit
  <2>5. TokensFit'
    <3>1. \A o \in Tasks : HasToken(task[o]) => task[o].id \in 1..MaxIds
      BY DEF MacInv, FitsIn, HasToken
    <3> QED
      BY <1>0, <1>10, <1>13, <2>0, <3>1 DEF Calm, TokensFit, Mac!Listed
  <2>6. CarriedFit'
    <3>1. ASSUME NEW o \in Tasks, DoneThere(task[o])
          PROVE  /\ task[o].from \notin there
                 /\ Mac!Carried(entry'[task[o].id].colors, task[o].from, task[o].to) = g
      <4>1. task[o].id = i
        BY <2>0, <2>2, <3>1 DEF Calm, AccountListed, OnListed, OnAccount, DoneThere, MacInv, FitsIn
      <4>2. task[o].from \notin there
            /\ Mac!Carried(entry[i].colors, task[o].from, task[o].to) = given.colors
        BY <2>0, <3>1, <4>1 DEF Calm, CarriedFit
      <4>3. task[o].from # a
        BY <1>0, <4>2
      <4> QED
        BY <1>7, <1>8, <1>10, <2>0, <3>1, <4>1, <4>2, <4>3
    <3> QED
      BY <1>0, <1>11, <3>1 DEF CarriedFit
  <2>7. PairedFit'
    BY <1>0, <2>0 DEF PairedFit
  <2>8. AccountListed'
    <3>1. \A o \in Tasks : OnListed(task[o]) => task[o].id \in 1..MaxIds
      BY DEF MacInv, FitsIn, AccountFits, RemoveFits, OnListed, OnAccount, Unsent
    <3> QED
      BY <1>0, <1>10, <2>0, <3>1 DEF Calm, AccountListed, OnListed, Mac!Listed
  <2> QED
    BY <2>1, <2>3, <2>4, <2>5, <2>6, <2>7, <2>8 DEF Calm
<1> QED
  BY <1>12, <1>14, <1>15, <1>16 DEF MacInv

LEMMA MacSaveFails ==
  ASSUME MacInv, NEW t \in Tasks, Mac!SaveFails(t)
  PROVE  MacInv'
<1>0. MacWorld /\ task' = [task EXCEPT ![t] = Mac!Idle]
      /\ UNCHANGED <<entry, keychain, cache, granted, there, given, removing, paired, calls, held, overwritten>>
      /\ crossed' = (crossed \/ task[t].pc = "look")
      /\ paired' \in 0..MaxClients /\ paired <= paired' /\ removing \subseteq removing'
  BY DEF MacInv, MacWorld, Mac!SaveFails, Mac!End, Mac!Set
<1>1. CASE task[t].pc = "look"
  <2>1. MacWorld' /\ crossed'
    BY <1>0, <1>1, IdleIs, Sets DEF MacWorld
  <2>2. (\A o \in Tasks : FitsIn(task[o], removing, paired))'
    BY <1>0, IdleIs, OthersFit
  <2>3. Known' /\ Gone'
    BY <1>0 DEF MacInv, Known, Gone, Mac!Listed
  <2> QED
    BY <2>1, <2>2, <2>3 DEF MacInv
<1>2. CASE task[t].pc # "look"
  <2>1. task[t].pc \in {"list", "deleteEntry"}
    BY <1>2 DEF Mac!SaveFails
  <2>2. MacSame /\ MacOthers /\ ~DoneThere(task[t])
    BY <1>0, <1>2, <2>1 DEF MacSame, MacOthers, MacWorld, DoneThere
  <2> QED
    BY <2>2, Ends DEF Mac!SaveFails
<1> QED
  BY <1>1, <1>2

LEMMA MacLook ==
  ASSUME MacInv, NEW t \in Tasks, Mac!Look(t)
  PROVE  MacInv'
<1> DEFINE i == task[t].id
           d == Mac!Carried(entry[i].colors, task[t].from, task[t].to)
           e == [entry[i] EXCEPT !.colors = d]
<1>0. MacWorld /\ task[t].pc = "look" /\ task[t] \in Sent /\ FitsIn(task[t], removing, paired)
      /\ task' = [task EXCEPT ![t] = Mac!Idle]
      /\ UNCHANGED <<keychain, cache, granted, there, given, crossed, removing, paired, calls, held, overwritten>>
      /\ paired' \in 0..MaxClients /\ paired <= paired' /\ removing \subseteq removing'
  BY DEF MacInv, MacWorld, Mac!Look, Mac!End, Mac!Set
<1>1. i \in 1..MaxIds /\ OnAccount(task[t]) /\ Changes(task[t]) /\ DoneThere(task[t])
      /\ task[t].from \in Accounts /\ task[t].to \in Accounts
  BY <1>0 DEF FitsIn, LookFits, AccountFits, OnAccount, Changes, DoneThere
<1>2. (\A o \in Tasks : FitsIn(task[o], removing, paired))'
  BY <1>0, IdleIs, OthersFit
<1>3. entry' = IF Mac!Listed(i) THEN [entry EXCEPT ![i] = e] ELSE entry
  <2>1. entry' = IF Mac!Listed(i)
                THEN [entry EXCEPT ![i] = [entry[i] EXCEPT !.colors = d]] ELSE entry
    BY DEF Mac!Look
  <2> QED
    BY <2>1
<1>4. Mac!Listed(i) => /\ e \in Mac!Entry /\ e.client = entry[i].client
                       /\ e.label = entry[i].label /\ e.colors = d
  <2>1. ASSUME Mac!Listed(i) PROVE d \in [Accounts -> Mac!Maybe(Looks)] /\ entry[i] \in Mac!Entry
    <3>1. entry[i].colors \in [Accounts -> Mac!Maybe(Looks)] /\ entry[i] \in Mac!Entry
      BY <1>0, <1>1, <2>1, ListedIs
    <3>2. Mac!NoOne \in Mac!Maybe(Looks)
      BY DEF Mac!Maybe
    <3>3. PICK x, y, h : x = task[t].from /\ y = task[t].to /\ h = entry[i].colors
      OBVIOUS
    <3>4. Mac!Carried(h, x, y) \in [Accounts -> Mac!Maybe(Looks)]
      BY <1>1, <3>1, <3>2, <3>3 DEF Mac!Carried
    <3> QED
      BY <3>1, <3>3, <3>4
  <2> HIDE DEF d
  <2> QED
    BY <2>1 DEF Mac!Entry
<1> HIDE DEF d, e
<1>5. /\ entry' \in [1..MaxIds -> Mac!Entry \cup {Mac!NoEntry}]
      /\ \A j \in 1..MaxIds : Mac!Listed(j)' <=> Mac!Listed(j)
      /\ \A j \in (1..MaxIds) \ {i} : entry'[j] = entry[j]
      /\ Mac!Listed(i) => entry'[i] = e
  <2>1. CASE Mac!Listed(i)
    <3>1. e \in Mac!Entry /\ e # Mac!NoEntry /\ entry' = [entry EXCEPT ![i] = e]
      BY <1>3, <1>4, <2>1, EntryNotNo
    <3> QED
      BY ZenonT(60), <1>0, <1>1, <2>1, <3>1, EntryIs
  <2>2. CASE ~Mac!Listed(i)
    <3>1. entry' = entry
      BY <1>3, <2>2
    <3> QED
      BY <1>0, <2>2, <3>1 DEF MacWorld, Mac!Listed
  <2> QED
    BY <2>1, <2>2
<1>6. MacWorld'
  BY <1>0, <1>5, IdleIs, Sets DEF MacWorld
<1>7. \A j \in 1..MaxIds : Mac!Listed(j) =>
         entry'[j].client = entry[j].client /\ entry'[j].label = entry[j].label
  BY <1>4, <1>5
<1>8. Known' /\ Gone'
  BY <1>0, <1>5, <1>7 DEF MacInv, Known, Gone
<1>9. ASSUME ~crossed, ~overwritten PROVE Calm'
  <2>0. Calm
    BY <1>9 DEF MacInv
  <2>1. Mac!Listed(i) /\ d = given.colors
    BY <1>1, <2>0 DEF Calm, AccountListed, OnListed, CarriedFit, d
  <2>2. \A j \in 1..MaxIds : Mac!Listed(j) => j = i
    BY <1>1, <2>0, <2>1 DEF Calm, OneListed
  <2>3. OneListed' /\ LabelFits'
    BY <1>0, <1>5, <1>7, <2>0 DEF Calm, OneListed, LabelFits
  <2>4. \A j \in 1..MaxIds : Mac!Listed(j)' =>
           /\ entry'[j].colors = given'.colors
           /\ j \notin removing' => keychain'[j] # 0 /\ keychain'[j] >= entry'[j].client
    BY <1>0, <1>4, <1>5, <1>7, <2>0, <2>1, <2>2 DEF Calm, TokensFit
  <2> QED
    BY <1>0, <1>1, <2>0, <2>3, <2>4, Quiet, Settled
<1> QED
  BY <1>0, <1>2, <1>6, <1>8, <1>9 DEF MacInv

LEMMA PairOnly ==
  ASSUME MacInv, NEW t \in Tasks, HasToken(task[t])
  PROVE  /\ task[t].op = "pair" /\ task[t].id \in 1..MaxIds /\ task[t].token \in 1..MaxClients
         /\ task[t].token <= paired /\ task[t].by \in Addresses /\ Changes(task[t])
<1>1. task[t].op \in Mac!Ops /\ FitsIn(task[t], removing, paired)
  BY Fields DEF MacInv, MacWorld
<1> QED
  BY <1>1, OpsAre DEF FitsIn, HasToken, RequestFits, RemoveFits, AccountFits, OnAccount, Unsent,
     Changes

LEMMA MacSave ==
  ASSUME MacInv, NEW t \in Tasks, Mac!Save(t)
  PROVE  MacInv'
<1> DEFINE i == task[t].id
           k == task[t]
           kept == IF task[t].host = Mac!NoEntry THEN Mac!NoOne ELSE task[t].host.label
           new == k.host = Mac!NoEntry
<1>0. MacWorld /\ task[t].pc = "list" /\ k \in Sent /\ HasToken(k)
      /\ (new \/ Mac!Listed(i))
      /\ task' = [task EXCEPT ![t] = Mac!Idle]
      /\ UNCHANGED <<keychain, cache, granted, there, crossed, removing, paired, calls, held, overwritten>>
      /\ paired' \in 0..MaxClients /\ paired <= paired' /\ removing \subseteq removing'
  BY DEF MacInv, MacWorld, Mac!Save, Mac!End, Mac!Set, HasToken
<1>1. /\ k.op = "pair" /\ i \in 1..MaxIds /\ k.token \in 1..MaxClients
      /\ k.token <= paired /\ k.by \in Addresses /\ Changes(k)
  BY <1>0, PairOnly
<1>2. (\A o \in Tasks : FitsIn(task[o], removing, paired))'
  BY <1>0, IdleIs, OthersFit
<1>3. PICK l \in Looks \cup {kept} :
        /\ entry' = [entry EXCEPT ![i] = Mac!Paired(t, l)]
        /\ given' = IF new THEN [Mac!NewLooks EXCEPT !.label = l]
                    ELSE IF l # kept THEN [given EXCEPT !.label = l] ELSE given
  BY DEF Mac!Save
<1> DEFINE c == IF new THEN Mac!NewLooks.colors ELSE k.host.colors
           e == [client |-> k.token, good |-> k.by, label |-> l, colors |-> c]
<1>4. Mac!Paired(t, l) = e
  BY DEF Mac!Paired
<1>5. k.host \in Mac!Entry \cup {Mac!NoEntry}
  BY <1>0, Fields
<1>6. ~new => k.host.label \in Mac!Maybe(Looks) /\ k.host.colors \in [Accounts -> Mac!Maybe(Looks)]
  BY <1>5 DEF Mac!Entry
<1>7. c \in [Accounts -> Mac!Maybe(Looks)] /\ l \in Mac!Maybe(Looks) /\ kept \in Mac!Maybe(Looks)
  <2>1. Mac!NewLooks.colors \in [Accounts -> Mac!Maybe(Looks)]
    BY <1>0, GivenIs DEF LooksOf
  <2>2. Mac!NoOne \in Mac!Maybe(Looks) /\ Looks \subseteq Mac!Maybe(Looks)
    BY DEF Mac!Maybe
  <2> QED
    BY <1>6, <2>1, <2>2
<1>8. new => given' = [Mac!NewLooks EXCEPT !.label = l]
  BY <1>3
<1>9. ~new => given' = [given EXCEPT !.label = l] \/ (l = kept /\ given' = given)
  BY <1>3
<1>10. (new => c = Mac!NewLooks.colors) /\ (~new => c = k.host.colors /\ kept = k.host.label)
  OBVIOUS
<1> HIDE DEF c, kept, new
<1>11. e \in Mac!Entry /\ e.client = k.token /\ e.label = l /\ e.colors = c
  BY <1>1, <1>7 DEF Mac!Entry, Mac!Clients
<1> HIDE DEF e
<1>12. e # Mac!NoEntry
  BY <1>11, EntryNotNo
<1>13. /\ entry' \in [1..MaxIds -> Mac!Entry \cup {Mac!NoEntry}] /\ entry'[i] = e
       /\ \A j \in (1..MaxIds) \ {i} : entry'[j] = entry[j] /\ (Mac!Listed(j)' <=> Mac!Listed(j))
  <2>1. entry \in [1..MaxIds -> Mac!Entry \cup {Mac!NoEntry}] /\ entry' = [entry EXCEPT ![i] = e]
    BY <1>0, <1>3, <1>4 DEF MacWorld
  <2> QED
    BY <1>1, <1>11, <1>12, <2>1 DEF Mac!Listed
<1>14. new => given' \in LooksOf /\ given'.label = l /\ given'.colors = Mac!NewLooks.colors
  <2>1. Mac!NewLooks \in LooksOf
    BY <1>0, GivenIs
  <2> QED
    BY <1>7, <1>8, <2>1 DEF LooksOf
<1>15. ~new => given' \in LooksOf /\ given'.colors = given.colors
               /\ (given'.label = l \/ (l = kept /\ given'.label = given.label))
  BY ZenonT(60), <1>0, <1>7, <1>9, GivenIs DEF MacWorld
<1>16. MacWorld'
  BY <1>0, <1>13, <1>14, <1>15, IdleIs, Sets DEF MacWorld
<1>17. Known' /\ Gone'
  <2>1. Gone'
    <3>1. new => \A a \in Accounts : given'.colors[a] = Mac!NoOne
      BY <1>0, <1>14, GivenIs
    <3> QED
      BY <1>0, <1>15, <3>1 DEF MacInv, Gone
  <2> QED
    BY <1>0, <1>1, <1>11, <1>13, <2>1 DEF MacInv, Known
<1>18. ASSUME ~crossed, ~overwritten PROVE Calm'
  <2>0. Calm
    BY <1>18 DEF MacInv
  <2>1. IF new THEN \A j \in 1..MaxIds : ~Mac!Listed(j)
        ELSE k.host.label = given.label /\ k.host.colors = given.colors
    BY <1>1, <2>0 DEF Calm, PairedFit, new
  <2>2. \A j \in 1..MaxIds : Mac!Listed(j)' => j = i
    BY <1>0, <1>1, <1>13, <2>0, <2>1 DEF Calm, OneListed
  <2>3. c = given'.colors /\ l = given'.label
    BY <1>10, <1>14, <1>15, <2>1
  <2>4. OneListed' /\ LabelFits'
    BY <1>11, <1>13, <2>2, <2>3 DEF OneListed, LabelFits
  <2>5. i \notin removing' => keychain'[i] # 0 /\ keychain'[i] >= entry'[i].client
    <3>1. i \notin removing => keychain[i] = k.token
      BY <1>0, <2>0 DEF Calm, TokensFit
    <3> QED
      BY <1>0, <1>1, <1>11, <1>13, <3>1
  <2>6. \A j \in 1..MaxIds : Mac!Listed(j)' =>
           /\ entry'[j].colors = given'.colors
           /\ j \notin removing' => keychain'[j] # 0 /\ keychain'[j] >= entry'[j].client
    BY <1>11, <1>13, <2>2, <2>3, <2>5
  <2> QED
    BY <1>0, <1>1, <2>0, <2>4, <2>6, Quiet, Settled
<1> QED
  BY <1>0, <1>2, <1>16, <1>17, <1>18 DEF MacInv

LEMMA RemoveOnly ==
  ASSUME MacInv, NEW t \in Tasks, task[t].pc \in {"deleteToken", "deleteEntry"}
  PROVE  task[t].op = "remove" /\ task[t].id \in 1..MaxIds /\ task[t].id \in removing
         /\ Changes(task[t]) /\ ~DoneThere(task[t]) /\ ~HasToken(task[t])
<1>1. task[t].op \in Mac!Ops /\ FitsIn(task[t], removing, paired)
  BY Fields DEF MacInv, MacWorld
<1> QED
  BY <1>1, OpsAre DEF FitsIn, HasToken, RequestFits, RemoveFits, AccountFits, PairFits, OnAccount,
     Unsent, Changes, DoneThere

LEMMA MacDeleteToken ==
  ASSUME MacInv, NEW t \in Tasks, Mac!DeleteToken(t)
  PROVE  MacInv'
<1> DEFINE i == task[t].id
<1>0. MacWorld /\ task[t].pc = "deleteToken" /\ task[t] \in Sent
      /\ FitsIn(task[t], removing, paired)
      /\ UNCHANGED <<entry, granted, there, given, crossed, removing, paired, calls, held, overwritten>>
      /\ paired' \in 0..MaxClients /\ paired <= paired' /\ granted' \subseteq 1..MaxClients /\ calls' \in 0..MaxCalls
  BY DEF MacInv, MacWorld, Mac!DeleteToken
<1>1. task[t].op = "remove" /\ i \in 1..MaxIds /\ i \in removing /\ ~DoneThere(task[t])
  BY <1>0, RemoveOnly
<1>2. cache' \in [1..MaxIds -> 0..MaxClients]
  <2>1. cache' = [cache EXCEPT ![i] = 0]
    BY DEF Mac!DeleteToken, Mac!NoToken
  <2>2. cache \in [1..MaxIds -> 0..MaxClients] /\ 0 \in 0..MaxClients
    BY <1>0 DEF MacWorld
  <2> QED
    BY <2>1, <2>2
<1>3. CASE keychain' = [keychain EXCEPT ![i] = Mac!NoToken] /\ Mac!Goto(t, "deleteEntry")
  <2>1. TokensKept
    BY <1>0, <1>1, <1>3 DEF TokensKept, MacWorld, Mac!NoToken
  <2>2. PICK r \in Sent : /\ task' = [task EXCEPT ![t] = r]
                          /\ r.pc = "deleteEntry" /\ r.op = task[t].op /\ r.id = task[t].id
                          /\ r.host = task[t].host /\ r.from = task[t].from /\ r.to = task[t].to
                          /\ r.token = task[t].token /\ r.how = task[t].how
                          /\ r.done = task[t].done /\ r.by = task[t].by
    BY <1>0, <1>3, StepsAre, GotoIs
  <2>3. FitsIn(r, removing, paired')
    BY <1>0, <1>1, <2>2, Hows DEF FitsIn, PairFits, RemoveFits, AccountFits, RequestFits, LookFits,
       DoneOnce, HasToken, Unsent, OnAccount
  <2>4. GoesOn(task[t], r)
    BY <1>1, <2>2 DEF GoesOn, Same, HasToken, DoneThere
  <2> QED
    BY <1>0, <1>2, <2>1, <2>2, <2>3, <2>4, Silent
<1>4. CASE UNCHANGED keychain /\ Mac!End(t)
  BY <1>0, <1>1, <1>2, <1>4, Ends DEF MacSame, MacOthers
<1> QED
  BY <1>3, <1>4 DEF Mac!DeleteToken

LEMMA MacDeleteEntry ==
  ASSUME MacInv, NEW t \in Tasks, Mac!DeleteEntry(t)
  PROVE  MacInv'
<1> DEFINE i == task[t].id
<1>0. MacWorld /\ task[t].pc = "deleteEntry"
      /\ task' = [task EXCEPT ![t] = Mac!Idle]
      /\ entry' = [entry EXCEPT ![i] = Mac!NoEntry] /\ given' = Mac!NewLooks
      /\ UNCHANGED <<keychain, cache, granted, there, crossed, removing, paired, calls, held, overwritten>>
      /\ paired' \in 0..MaxClients /\ paired <= paired' /\ removing \subseteq removing'
  BY DEF MacInv, MacWorld, Mac!DeleteEntry, Mac!End, Mac!Set
<1>1. i \in 1..MaxIds /\ Changes(task[t])
  BY <1>0, RemoveOnly
<1>2. (\A o \in Tasks : FitsIn(task[o], removing, paired))'
  BY <1>0, IdleIs, OthersFit
<1>3. /\ entry' \in [1..MaxIds -> Mac!Entry \cup {Mac!NoEntry}] /\ entry'[i] = Mac!NoEntry
      /\ \A j \in (1..MaxIds) \ {i} : entry'[j] = entry[j] /\ (Mac!Listed(j)' <=> Mac!Listed(j))
  <2> DEFINE e == Mac!NoEntry
  <2>1. e \in Mac!Entry \cup {Mac!NoEntry} /\ e = Mac!NoEntry
    OBVIOUS
  <2>2. entry' = [entry EXCEPT ![i] = e]
    BY <1>0
  <2> HIDE DEF e
  <2>3. entry \in [1..MaxIds -> Mac!Entry \cup {Mac!NoEntry}]
    BY <1>0 DEF MacWorld
  <2> QED
    BY <1>1, <2>1, <2>2, <2>3 DEF Mac!Listed
<1>4. given' \in LooksOf /\ \A a \in Accounts : given'.colors[a] = Mac!NoOne
  BY <1>0, GivenIs
<1>5. MacWorld'
  BY <1>0, <1>3, <1>4, IdleIs, Sets DEF MacWorld
<1>6. Known' /\ Gone'
  BY <1>0, <1>3, <1>4 DEF MacInv, Known, Gone, Mac!Listed
<1>7. ASSUME ~crossed, ~overwritten PROVE Calm'
  <2>0. Calm
    BY <1>7 DEF MacInv
  <2>1. Mac!Listed(i)
    BY <1>0, <1>1, <2>0, RemoveOnly DEF Calm, AccountListed, OnListed
  <2>2. \A j \in 1..MaxIds : ~Mac!Listed(j)'
    BY <1>1, <1>3, <2>0, <2>1 DEF Calm, OneListed, Mac!Listed
  <2>3. OneListed' /\ LabelFits'
    BY <2>2 DEF OneListed, LabelFits
  <2> QED
    BY <1>0, <1>1, <2>0, <2>2, <2>3, Quiet, Settled
<1> QED
  BY <1>0, <1>2, <1>5, <1>6, <1>7 DEF MacInv

------------------------------------------------------------------------------
(* The app quits: none of its commands is left. *)
LEMMA MacQuit == ASSUME MacInv, Mac!Quit PROVE MacInv'
<1>0. MacWorld /\ \A t \in Tasks : task'[t] = Mac!Idle
  BY DEF MacInv, Mac!Quit
<1>1. /\ UNCHANGED <<entry, keychain, granted, there, given, removing, paired, calls, held, overwritten>>
      /\ crossed' = (crossed \/ \E t \in Tasks : task[t].pc \in {"note", "look"}
                                                 /\ task[t].op \in Mac!AccountOps)
      /\ task' = [t \in Tasks |-> Mac!Idle] /\ cache' = [i \in Mac!Ids |-> Mac!NoToken]
  BY DEF Mac!Quit
<1>2. MacWorld'
  <2>1. cache' \in [1..MaxIds -> 0..MaxClients] /\ task' \in [Tasks -> Sent] /\ crossed' \in BOOLEAN
    BY <1>0, <1>1, IdleIs DEF MacWorld, Mac!Ids, Mac!NoToken
  <2> QED
    BY <1>0, <1>1, <2>1 DEF MacWorld
<1>3. (\A t \in Tasks : FitsIn(task[t], removing, paired))'
  BY <1>0, IdleIs
<1>4. Known' /\ Gone'
  BY <1>1 DEF MacInv, Known, Gone, Mac!Listed
<1>5. ASSUME ~crossed', ~overwritten' PROVE Calm'
  <2>1. Calm /\ \A t \in Tasks : ~DoneThere(task[t])
    <3>1. ~crossed /\ \A t \in Tasks : ~(task[t].pc \in {"note", "look"} /\ task[t].op \in Mac!AccountOps)
      BY <1>1, <1>5
    <3> QED
      BY <1>1, <1>5, <3>1, OpsAre DEF MacInv, DoneThere
  <2>2. \A o \in Tasks : ~Changes(task'[o]) /\ ~HasToken(task'[o]) /\ ~DoneThere(task'[o])
                         /\ task'[o].op # "pair" /\ ~OnAccount(task'[o])
    BY <1>0, IdleIs DEF Changes, HasToken, DoneThere, OnAccount
  <2>3. OneListed' /\ LabelFits'
    BY <1>1, <2>1 DEF Calm, OneListed, LabelFits, Mac!Listed
  <2>4. \A i \in 1..MaxIds : Mac!Listed(i)' =>
           /\ entry'[i].colors = given'.colors
           /\ i \notin removing' => keychain'[i] # 0 /\ keychain'[i] >= entry'[i].client
    BY <1>1, <2>1 DEF Calm, ColorsFit, TokensFit, Mac!Listed
  <2> QED
    BY <2>2, <2>3, <2>4, Settled
<1> QED
  BY <1>2, <1>3, <1>4, <1>5 DEF MacInv

(* The MCP server reads the list. *)
LEMMA MacMcpReads == ASSUME MacInv, Mac!McpReads PROVE MacInv'
<1>1. /\ UNCHANGED <<entry, keychain, cache, task, granted, there, given, crossed, removing, paired,
                     overwritten>>
      /\ held' = entry /\ calls' \in 0..MaxCalls
  BY DEF Mac!McpReads, MacInv, MacWorld
<1>2. MacWorld'
  BY <1>1 DEF MacInv, MacWorld
<1> QED
  BY <1>1, <1>2 DEF MacInv, Known, Gone, Calm, Sole, OneListed, TokensFit, LabelFits,
     ColorsFit, CarriedFit, PairedFit, AccountListed, Mac!Listed

(* A list that differs in addresses alone is as good. *)
LEMMA AlikeCalm ==
  ASSUME Calm, MacInv, Alike, UNCHANGED <<task, keychain, given, there, removing>>
  PROVE  Calm'
<1>1. Sole' /\ OneListed' /\ LabelFits' /\ PairedFit'
  BY DEF Calm, Sole, OneListed, LabelFits, PairedFit, Alike
<1>2. TokensFit'
  <2>1. \A i \in 1..MaxIds : Mac!Listed(i)' /\ i \notin removing' =>
          keychain'[i] # 0 /\ keychain'[i] >= entry'[i].client
    BY DEF Calm, TokensFit, Alike
  <2>2. ASSUME NEW t \in Tasks, HasToken(task[t])
        PROVE  /\ Mac!Listed(task[t].id)' => entry'[task[t].id].client <= task[t].token
               /\ task[t].id \notin removing /\ task[t].pc \in {"keepCache", "list"} =>
                    keychain[task[t].id] = task[t].token
    <3>1. task[t].id \in 1..MaxIds
      BY <2>2, PairOnly
    <3> QED
      BY <2>2, <3>1 DEF Calm, TokensFit, Alike
  <2> QED
    BY <2>1, <2>2 DEF TokensFit
<1>3. ColorsFit'
  BY DEF Calm, ColorsFit, Alike
<1>4. AccountListed' /\ CarriedFit'
  <2>1. \A t \in Tasks : OnListed(task[t]) => task[t].id \in 1..MaxIds
    BY DEF MacInv, FitsIn, AccountFits, RemoveFits, OnListed, OnAccount, Unsent
  <2>2. \A t \in Tasks : DoneThere(task[t]) => OnListed(task[t])
    BY DEF DoneThere, OnListed, OnAccount
  <2>3. AccountListed'
    BY <2>1 DEF Calm, AccountListed, Alike
  <2>4. \A t \in Tasks : DoneThere(task[t]) => entry'[task[t].id].colors = entry[task[t].id].colors
    BY <2>1, <2>2 DEF Calm, AccountListed, Alike
  <2> QED
    BY <2>3, <2>4 DEF Calm, CarriedFit
<1> QED
  BY <1>1, <1>2, <1>3, <1>4 DEF Calm

(* The MCP server writes back what it read, an address noted. *)
LEMMA MacMcpNotes ==
  ASSUME MacInv, \A i \in 1..MaxIds : held[i] # Mac!NoEntry => held[i].client <= paired,
         NEW i \in 1..MaxIds, NEW a \in Addresses, Mac!McpNotes(i, a)
  PROVE  MacInv'
<1> DEFINE e == [held[i] EXCEPT !.good = a]
<1>0. /\ MacWorld /\ held[i] # Mac!NoEntry /\ entry' = [held EXCEPT ![i] = e]
      /\ held' = Mac!NoList /\ overwritten' = (overwritten \/ ~Mac!SameBut(held, entry))
      /\ UNCHANGED <<keychain, cache, task, granted, there, given, crossed, removing, paired, calls>>
  BY DEF MacInv, Mac!McpNotes
<1>1. held[i] \in Mac!Entry
  BY <1>0 DEF MacWorld
<1>2. e \in Mac!Entry /\ e.client = held[i].client /\ e.label = held[i].label
      /\ e.colors = held[i].colors
  BY <1>1 DEF Mac!Entry
<1> HIDE DEF e
<1>3. e # Mac!NoEntry
  BY <1>2, EntryNotNo
<1>4. /\ entry' \in [1..MaxIds -> Mac!Entry \cup {Mac!NoEntry}] /\ entry'[i] = e
      /\ \A j \in (1..MaxIds) \ {i} : entry'[j] = held[j]
  BY <1>0, <1>2 DEF MacWorld
<1>5. MacWorld'
  <2>1. held' \in [1..MaxIds -> Mac!Entry \cup {Mac!NoEntry}]
    BY <1>0 DEF Mac!NoList, Mac!Ids
  <2>2. overwritten' \in BOOLEAN
    BY <1>0 DEF MacWorld
  <2> QED
    BY <1>0, <1>4, <2>1, <2>2 DEF MacWorld
<1>6. \A j \in 1..MaxIds : (Mac!Listed(j)' <=> held[j] # Mac!NoEntry)
                           /\ entry'[j].client = held[j].client
                           /\ entry'[j].label = held[j].label
                           /\ entry'[j].colors = held[j].colors
  BY <1>0, <1>2, <1>3, <1>4 DEF Mac!Listed
<1>7. Known' /\ Gone'
  BY <1>0, <1>6 DEF MacInv, Known, Gone
<1>8. ASSUME ~crossed', ~overwritten' PROVE Calm'
  <2>1. Calm /\ Mac!SameBut(held, entry)
    BY <1>0, <1>8 DEF MacInv
  <2>2. Alike
    BY <1>4, <1>6, <2>1 DEF Alike, Mac!SameBut, Mac!Listed, Mac!Ids
  <2> QED
    BY <1>0, <2>1, <2>2, AlikeCalm
<1>9. (\A t \in Tasks : FitsIn(task[t], removing, paired))'
  BY <1>0 DEF MacInv
<1> QED
  BY <1>5, <1>7, <1>8, <1>9 DEF MacInv

------------------------------------------------------------------------------
LEMMA MacStart == ASSUME Mac!Init PROVE MacInv
<1>0. Mac!Ids = 1..MaxIds /\ 1 \in 1..MaxIds /\ 0 \in 0..MaxClients /\ 1 \in 0..MaxClients
  BY DEF Mac!Ids
<1>1. paired \in {0, 1} /\ paired \in 0..MaxClients /\ calls = 0 /\ calls \in 0..MaxCalls
  BY DEF Mac!Init
<1>2. granted \subseteq 1..MaxClients /\ there \subseteq Accounts /\ crossed = FALSE /\ removing = {}
  BY <1>1 DEF Mac!Init
<1>3. given = Mac!NewLooks /\ given \in LooksOf /\ given.label = Mac!NoOne
      /\ \A a \in Accounts : given.colors[a] = Mac!NoOne
      /\ given.colors \in [Accounts -> Mac!Maybe(Looks)]
  BY DEF Mac!Init, Mac!NewLooks, LooksOf, Mac!Maybe
<1>4. task = [t \in Tasks |-> Mac!Idle] /\ task \in [Tasks -> Sent]
      /\ \A t \in Tasks : task[t] = Mac!Idle
  BY IdleIs DEF Mac!Init
<1>5. PICK a \in Addresses :
        entry = [i \in 1..MaxIds |->
             IF i = 1 /\ paired = 1
             THEN [client |-> 1, good |-> a, label |-> Mac!NoOne, colors |-> Mac!NewLooks.colors]
             ELSE Mac!NoEntry]
  BY <1>0 DEF Mac!Init
<1> DEFINE e == [client |-> 1, good |-> a, label |-> Mac!NoOne, colors |-> Mac!NewLooks.colors]
<1>6. e \in Mac!Entry /\ e.client = 1 /\ e.label = given.label /\ e.colors = given.colors
  <2>1. Mac!NewLooks.colors = given.colors
    BY <1>3
  <2>2. e.client = 1 /\ e.label = given.label /\ e.colors = given.colors
    BY <1>3, <2>1
  <2>3. 1 \in Mac!Clients /\ Mac!NoOne \in Mac!Maybe(Looks)
    BY DEF Mac!Clients, Mac!Maybe
  <2>4. ASSUME NEW n \in [Accounts -> Mac!Maybe(Looks)]
        PROVE  [client |-> 1, good |-> a, label |-> Mac!NoOne, colors |-> n] \in Mac!Entry
    BY <2>3 DEF Mac!Entry
  <2>5. Mac!NewLooks.colors \in [Accounts -> Mac!Maybe(Looks)]
    BY DEF Mac!NewLooks, Mac!Maybe
  <2>6. e \in Mac!Entry
    BY <2>4, <2>5
  <2> QED
    BY <2>2, <2>6
<1>7. \A i \in 1..MaxIds : entry[i] = IF i = 1 /\ paired = 1 THEN e ELSE Mac!NoEntry
  BY <1>5
<1>8. DOMAIN entry = 1..MaxIds /\ entry = [i \in 1..MaxIds |-> entry[i]]
  BY <1>5
<1> HIDE DEF e
<1>9. e # Mac!NoEntry
  BY <1>6, EntryNotNo
<1>10. entry \in [1..MaxIds -> Mac!Entry \cup {Mac!NoEntry}]
       /\ \A i \in 1..MaxIds : Mac!Listed(i) => i = 1 /\ paired = 1 /\ entry[i] = e
  BY <1>6, <1>7, <1>8, <1>9 DEF Mac!Listed
<1>11. /\ keychain \in [1..MaxIds -> 0..MaxClients] /\ cache \in [1..MaxIds -> 0..MaxClients]
       /\ \A i \in 1..MaxIds : Mac!Listed(i) => keychain[i] = 1
  BY <1>0 DEF Mac!Init, Mac!NoToken, Mac!Listed
<1>12. MacWorld
  <2>1. held \in [1..MaxIds -> Mac!Entry \cup {Mac!NoEntry}] /\ overwritten \in BOOLEAN
    BY <1>0 DEF Mac!Init, Mac!NoList
  <2> QED
    BY <1>1, <1>2, <1>3, <1>4, <1>10, <1>11, <2>1 DEF MacWorld
<1>13. \A t \in Tasks : FitsIn(task[t], removing, paired)
  BY <1>4, IdleIs
<1>14. Known /\ Gone
  BY <1>3, <1>6, <1>10 DEF Known, Gone
<1>15. OneListed /\ LabelFits /\ ColorsFit
  BY <1>6, <1>10 DEF OneListed, LabelFits, ColorsFit
<1>16. \A t \in Tasks : ~Changes(task[t]) /\ ~HasToken(task[t]) /\ ~DoneThere(task[t])
                        /\ task[t].op # "pair" /\ ~OnListed(task[t])
  BY <1>4, IdleIs DEF Changes, HasToken, DoneThere, OnListed, OnAccount
<1>17. TokensFit
  BY <1>6, <1>10, <1>11, <1>16 DEF TokensFit
<1>18. Calm
  BY <1>15, <1>16, <1>17 DEF Calm, Sole, CarriedFit, PairedFit, AccountListed
<1> QED
  BY <1>12, <1>13, <1>14, <1>18 DEF MacInv

LEMMA MacStays == ASSUME MacInv, UNCHANGED macVars PROVE MacInv'
<1>1. UNCHANGED <<entry, keychain, cache, task, granted, there, given, crossed, removing,
                  paired, calls, held, overwritten>>
  BY DEF macVars
<1> QED
  BY <1>1 DEF MacInv, MacWorld, Known, Gone, Calm, Sole, OneListed, TokensFit, LabelFits,
     ColorsFit, CarriedFit, PairedFit, AccountListed, Mac!Listed

------------------------------------------------------------------------------
(***************************************************************************)
(* Which token an entry has (RemoteHosts).  What the MCP server read is an *)
(* entry yet to be: every client claimed, by the list or by what was read  *)
(* of it, is no later than the token kept for it.  That holds of a list    *)
(* that was overwritten too.                                               *)
(***************************************************************************)
Claim(i, c) == entry[i].client = c \/ held[i].client = c
Saved(k) == k.pc \in {"keepCache", "list"}

ClaimsFit ==
  /\ \A i \in 1..MaxIds, c \in 1..MaxClients : Claim(i, c) => c <= paired
  /\ ~crossed =>
       /\ Sole
       /\ \A i \in (1..MaxIds) \ removing, c \in 1..MaxClients :
            Claim(i, c) => keychain[i] # 0 /\ keychain[i] >= c
       /\ \A t \in Tasks : HasToken(task[t]) =>
            /\ \A c \in 1..MaxClients : Claim(task[t].id, c) => c <= task[t].token
            /\ task[t].id \notin removing /\ Saved(task[t]) =>
                 keychain[task[t].id] = task[t].token

(* What becomes of a command in a step that neither begins one nor gives   *)
(* one a token.                                                            *)
KeepsToken(k, r) ==
  HasToken(r) => /\ HasToken(k) /\ r.id = k.id /\ r.token = k.token
                 /\ Saved(r) => Saved(k)

OneKeeps == \A t \in Tasks : /\ KeepsToken(task[t], task'[t])
                             /\ Changes(task'[t]) => Changes(task[t])

NoNewClaim == \A i \in 1..MaxIds, c \in 1..MaxClients : Claim(i, c)' => Claim(i, c)

LEMMA ClaimsCarried ==
  ASSUME MacInv, MacInv', ClaimsFit, NoNewClaim, paired <= paired', crossed => crossed',
         removing \subseteq removing',
         \A i \in (1..MaxIds) \ removing : keychain'[i] = keychain[i],
         \A t \in Tasks : KeepsToken(task[t], task'[t]),
         ~crossed' => Sole'
  PROVE  ClaimsFit'
<1>1. \A i \in 1..MaxIds, c \in 1..MaxClients : Claim(i, c)' => c <= paired'
  <2>1. paired \in Nat /\ paired' \in Nat
    BY DEF MacInv, MacWorld
  <2> QED
    BY <2>1 DEF ClaimsFit, NoNewClaim
<1>2. ASSUME ~crossed'
      PROVE  /\ \A i \in (1..MaxIds) \ removing', c \in 1..MaxClients :
                  Claim(i, c)' => keychain'[i] # 0 /\ keychain'[i] >= c
             /\ \A t \in Tasks : HasToken(task'[t]) =>
                  /\ \A c \in 1..MaxClients : Claim(task[t].id, c)' => c <= task'[t].token
                  /\ task'[t].id \notin removing' /\ Saved(task'[t]) =>
                       keychain'[task'[t].id] = task'[t].token
  <2>1. \A i \in (1..MaxIds) \ removing', c \in 1..MaxClients :
           Claim(i, c)' => keychain'[i] # 0 /\ keychain'[i] >= c
    BY <1>2 DEF ClaimsFit, NoNewClaim
  <2>2. ASSUME NEW t \in Tasks, HasToken(task'[t])
        PROVE  /\ \A c \in 1..MaxClients : Claim(task[t].id, c)' => c <= task'[t].token
               /\ task'[t].id \notin removing' /\ Saved(task'[t]) =>
                    keychain'[task'[t].id] = task'[t].token
    <3> DEFINE i == task[t].id
    <3>1. /\ HasToken(task[t]) /\ task'[t].id = i /\ task'[t].token = task[t].token
          /\ Saved(task'[t]) => Saved(task[t])
      BY <2>2 DEF KeepsToken
    <3>2. i \in 1..MaxIds
      BY <3>1, PairOnly
    <3>3. /\ \A c \in 1..MaxClients : Claim(i, c) => c <= task[t].token
          /\ i \notin removing /\ Saved(task[t]) => keychain[i] = task[t].token
      BY <1>2, <3>1 DEF ClaimsFit
    <3>4. task'[t].id \notin removing' /\ Saved(task'[t]) => keychain'[task'[t].id] = task'[t].token
      BY <3>1, <3>2, <3>3
    <3>5. \A c \in 1..MaxClients : Claim(task[t].id, c)' => c <= task'[t].token
      <4>1. task'[t].id = task[t].id
        BY <3>1
      <4> QED
        BY <3>1, <3>2, <3>3, <4>1 DEF NoNewClaim, Claim
    <3> QED
      BY <3>4, <3>5
  <2> QED
    BY <2>1, <2>2
<1> QED
  BY <1>1, <1>2 DEF ClaimsFit

(* Steps that begin no command and give none a token. *)
LEMMA ClaimsStay ==
  ASSUME MacInv, MacInv', ClaimsFit, NoNewClaim, paired <= paired', crossed => crossed',
         removing' = removing,
         \A i \in (1..MaxIds) \ removing : keychain'[i] = keychain[i],
         OneKeeps
  PROVE  ClaimsFit'
<1>1. ~crossed' => Sole'
  BY DEF ClaimsFit, Sole, OneKeeps
<1> QED
  BY <1>1, ClaimsCarried DEF OneKeeps

LEMMA OneSet ==
  ASSUME MacWorld, NEW t \in Tasks, NEW r, Mac!Set(t, r), KeepsToken(task[t], r),
         Changes(r) => Changes(task[t])
  PROVE  OneKeeps
<1>1. task' = [task EXCEPT ![t] = r] /\ task \in [Tasks -> Sent]
  BY DEF Mac!Set, MacWorld
<1>2. task'[t] = r /\ \A o \in Tasks \ {t} : task'[o] = task[o]
  BY <1>1
<1> QED
  BY <1>2 DEF OneKeeps, KeepsToken

LEMMA OneEnds == ASSUME MacWorld, NEW t \in Tasks, Mac!End(t) PROVE OneKeeps
<1>1. KeepsToken(task[t], Mac!Idle) /\ ~Changes(Mac!Idle)
  BY IdleIs DEF KeepsToken, HasToken, Changes
<1> QED
  BY <1>1, OneSet DEF Mac!End

LEMMA OneGoes ==
  ASSUME MacWorld, NEW t \in Tasks, NEW step, Mac!Goto(t, step),
         \/ step \in {"send", "look", "deleteToken", "deleteEntry"}
         \/ task[t].pc = "keep" /\ step = "giveBack"
         \/ task[t].pc = "keepCache" /\ step = "list"
  PROVE  OneKeeps
<1> DEFINE r == [task[t] EXCEPT !.pc = step]
<1>1. task[t] \in Sent
  BY DEF MacWorld
<1>2. r.pc = step /\ r.op = task[t].op /\ r.id = task[t].id /\ r.token = task[t].token
  BY <1>1 DEF Sent
<1>3. Mac!Set(t, r)
  BY DEF Mac!Set, Mac!Goto
<1> HIDE DEF r
<1>4. KeepsToken(task[t], r) /\ (Changes(r) => Changes(task[t]))
  BY <1>2 DEF KeepsToken, HasToken, Saved, Changes
<1> QED
  BY <1>3, <1>4, OneSet

LEMMA OneFails == ASSUME MacWorld, NEW t \in Tasks, Mac!Fail(t) PROVE OneKeeps
BY OneEnds, OneGoes DEF Mac!Fail

LEMMA OneContinues ==
  ASSUME MacWorld, NEW t \in Tasks, NEW a, task[t].pc = "send",
         \/ Mac!Continue(t, a, task[t])
         \/ Mac!Continue(t, a, [task[t] EXCEPT !.done = task[t].done + 1])
  PROVE  OneKeeps
<1>0. task[t] \in Sent
  BY DEF MacWorld
<1>1. CASE task[t].left = {a}
  BY <1>1, OneFails DEF Mac!Continue
<1>2. CASE task[t].left # {a}
  <2>1. PICK k \in {task[t], [task[t] EXCEPT !.done = task[t].done + 1]} :
          Mac!Set(t, [k EXCEPT !.left = k.left \ {a}])
    BY <1>2 DEF Mac!Continue
  <2> DEFINE r == [k EXCEPT !.left = k.left \ {a}]
  <2>2. r.pc = "send" /\ r.op = task[t].op
    BY <1>0 DEF Sent
  <2> HIDE DEF r
  <2>3. KeepsToken(task[t], r) /\ (Changes(r) => Changes(task[t]))
    BY <2>2 DEF KeepsToken, HasToken, Changes
  <2> QED
    BY <2>1, <2>3, OneSet DEF r
<1> QED
  BY <1>1, <1>2

(* A command begins: it has no token yet. *)
LEMMA ClaimsBegin ==
  ASSUME MacInv, MacInv', ClaimsFit, NEW t \in Tasks, NEW i \in 1..MaxIds,
         \/ Mac!Request(t, i)
         \/ \E op \in Mac!AccountOps, a, b \in Accounts : Mac!Account(t, i, op, a, b)
         \/ Mac!Pair(t, i)
         \/ Mac!Remove(t, i)
  PROVE  ClaimsFit'
<1>0. MacWorld /\ paired' = paired /\ paired \in Nat /\ UNCHANGED <<entry, held, keychain>>
      /\ removing \subseteq removing' /\ (crossed => crossed') /\ task \in [Tasks -> Sent]
  <2>0. MacWorld
    BY DEF MacInv
  <2>1. paired \in Nat /\ task \in [Tasks -> Sent]
    BY <2>0 DEF MacWorld
  <2>2. paired' = paired /\ UNCHANGED <<entry, held, keychain>>
    BY DEF Mac!Request, Mac!Account, Mac!Pair, Mac!Remove
  <2>3. removing \subseteq removing'
    BY DEF Mac!Request, Mac!Account, Mac!Pair, Mac!Remove
  <2>4. crossed => crossed'
    BY DEF Mac!Request, Mac!Account, Mac!Pair, Mac!Remove
  <2> QED
    BY <2>0, <2>1, <2>2, <2>3, <2>4
<1>1. \E r : /\ Mac!Set(t, r) /\ ~HasToken(r)
             /\ ~Changes(r) \/ crossed'
                \/ ~Mac!Others(t, Mac!AccountOps \cup {"pair", "remove"})
  <2>0. "request" \in Mac!Ops /\ "remove" \in Mac!Ops /\ Mac!Unnoted \in How /\ Mac!Requests \subseteq How
        /\ Mac!AccountOps \subseteq Mac!Ops /\ \A op \in Mac!AccountOps : Mac!AccountRequests[op] \in How
    BY OpsAre, RequestsAre, Hows DEF Mac!Ops, How
  <2>1. ASSUME NEW op \in Mac!Ops, NEW how \in How
        PROVE  LET k == Mac!Connected(t, op, how, i)
               IN  k \in Sent /\ k.op = op /\ ~HasToken(k)
    <3>1. Connects(Mac!Connected(t, op, how, i), op, how, i)
      BY <1>0, ConnectedIs
    <3> QED
      BY <3>1 DEF Connects, HasToken
  <2>2. CASE Mac!Request(t, i)
    <3>1. PICK how \in Mac!Requests : Mac!Set(t, Mac!Connected(t, "request", how, i))
      BY <2>2 DEF Mac!Request
    <3> QED
      BY <2>0, <2>1, <3>1 DEF Changes
  <2>3. ASSUME NEW op \in Mac!AccountOps, NEW a \in Accounts, NEW b \in Accounts,
               Mac!Account(t, i, op, a, b)
        PROVE  \E r : /\ Mac!Set(t, r) /\ ~HasToken(r)
                      /\ crossed' \/ ~Mac!Others(t, Mac!AccountOps \cup {"pair", "remove"})
    <3> DEFINE k == Mac!Connected(t, op, Mac!AccountRequests[op], i)
               r == [k EXCEPT !.from = a, !.to = b]
    <3>1. Mac!Set(t, r) /\ (crossed' \/ ~Mac!Others(t, Mac!AccountOps \cup {"pair", "remove"}))
      BY <2>3 DEF Mac!Account
    <3>2. k \in Sent /\ ~HasToken(k)
      BY <2>0, <2>1
    <3> HIDE DEF k
    <3>3. r.pc = k.pc
      BY <3>2 DEF Sent
    <3> QED
      BY <3>1, <3>2, <3>3 DEF HasToken
  <2>4. CASE Mac!Pair(t, i)
    <3> DEFINE r == [Mac!Idle EXCEPT !.pc = "send", !.op = "pair", !.how = Mac!Doing, !.id = i,
                                     !.host = entry[i], !.left = Addresses]
    <3>1. Mac!Set(t, r) /\ (crossed' \/ ~Mac!Others(t, Mac!AccountOps \cup {"pair", "remove"}))
      BY <2>4 DEF Mac!Pair
    <3>2. r.pc = "send"
      BY DEF Mac!Idle
    <3> QED
      BY <3>1, <3>2 DEF HasToken
  <2>5. CASE Mac!Remove(t, i)
    <3>1. Mac!Set(t, Mac!Connected(t, "remove", Mac!Unnoted, i))
          /\ (crossed' \/ ~Mac!Others(t, Mac!AccountOps \cup {"pair", "remove"}))
      BY <2>5 DEF Mac!Remove
    <3> QED
      BY <2>0, <2>1, <3>1
  <2> QED
    BY <2>2, <2>3, <2>4, <2>5
<1>2. PICK r : /\ Mac!Set(t, r) /\ ~HasToken(r)
               /\ ~Changes(r) \/ crossed'
                  \/ ~Mac!Others(t, Mac!AccountOps \cup {"pair", "remove"})
  BY <1>1
<1>3. task'[t] = r /\ \A o \in Tasks \ {t} : task'[o] = task[o]
  BY <1>0, <1>2 DEF Mac!Set
<1>4. ASSUME ~crossed' PROVE Sole'
  <2>1. Sole
    BY <1>0, <1>4 DEF ClaimsFit
  <2>2. CASE ~Changes(r)
    BY <1>3, <2>1, <2>2 DEF Sole
  <2>3. CASE ~Mac!Others(t, Mac!AccountOps \cup {"pair", "remove"})
    <3>1. \A o \in Tasks \ {t} : ~Changes(task[o])
      <4>1. \A o \in Tasks : task[o].op \in Mac!Ops
        BY <1>0, Fields
      <4>2. \A o \in Tasks \ {t} : task[o].pc = "idle" => ~Changes(task[o])
        BY <4>1, OpsAre DEF MacInv, FitsIn, PairFits, RemoveFits, AccountFits, Changes, OnAccount, Unsent,
           HasToken
      <4> QED
        BY <2>3, <4>1, <4>2, OpsAre DEF Mac!Others, Changes
    <3> QED
      BY <1>3, <3>1 DEF Sole
  <2> QED
    BY <1>2, <1>4, <2>2, <2>3
<1>5. NoNewClaim
  BY <1>0 DEF NoNewClaim, Claim
<1>6. \A o \in Tasks : KeepsToken(task[o], task'[o])
  BY <1>2, <1>3 DEF KeepsToken
<1> QED
  BY <1>0, <1>4, <1>5, <1>6, ClaimsCarried

(* The entries are relabelled, recolored, or told of an address. *)
LEMMA SameClients ==
  ASSUME MacWorld, NEW i \in 1..MaxIds, entry[i] \in Mac!Entry, NEW e,
         entry' = [entry EXCEPT ![i] = e], e.client = entry[i].client, held' = held
  PROVE  NoNewClaim
<1>1. \A j \in 1..MaxIds : entry'[j].client = entry[j].client
  BY DEF MacWorld
<1> QED
  BY <1>1 DEF NoNewClaim, Claim

LEMMA ClaimsLook ==
  ASSUME MacInv, MacInv', ClaimsFit, NEW i \in 1..MaxIds,
         \/ \E l \in Looks : Mac!Label(i, l)
         \/ \E a \in Accounts, c \in Looks : Mac!Color(i, a, c)
  PROVE  ClaimsFit'
<1>0. /\ UNCHANGED <<keychain, task, removing, paired, held>> /\ (crossed => crossed')
      /\ Mac!Listed(i) /\ MacWorld /\ paired \in Nat
  BY DEF Mac!Label, Mac!Color, MacInv, MacWorld
<1>1. entry[i] \in Mac!Entry
  BY <1>0, ListedIs
<1>2. PICK e : entry' = [entry EXCEPT ![i] = e] /\ e.client = entry[i].client
  <2>1. ASSUME NEW l, Mac!Label(i, l)
        PROVE  \E e : entry' = [entry EXCEPT ![i] = e] /\ e.client = entry[i].client
    <3> DEFINE e == [entry[i] EXCEPT !.label = l]
    <3>1. entry' = [entry EXCEPT ![i] = e]
      BY <2>1 DEF Mac!Label
    <3>2. e.client = entry[i].client
      BY <1>1 DEF Mac!Entry
    <3> QED
      BY <3>1, <3>2
  <2>2. ASSUME NEW a, NEW c, Mac!Color(i, a, c)
        PROVE  \E e : entry' = [entry EXCEPT ![i] = e] /\ e.client = entry[i].client
    <3> DEFINE d == [entry[i].colors EXCEPT ![a] = c]
               e == [entry[i] EXCEPT !.colors = d]
    <3>1. entry' = [entry EXCEPT ![i] = e]
      BY <2>2 DEF Mac!Color
    <3> HIDE DEF d
    <3>2. e.client = entry[i].client
      BY <1>1 DEF Mac!Entry
    <3> QED
      BY <3>1, <3>2
  <2> QED
    BY <2>1, <2>2
<1>3. NoNewClaim
  BY <1>0, <1>1, <1>2, SameClients
<1>4. OneKeeps
  BY <1>0 DEF OneKeeps, KeepsToken
<1> QED
  BY <1>0, <1>3, <1>4, ClaimsStay

LEMMA ClaimsQuit == ASSUME MacInv, MacInv', ClaimsFit, Mac!Quit PROVE ClaimsFit'
<1>1. UNCHANGED <<entry, keychain, removing, paired, held>> /\ (crossed => crossed') /\ paired \in Nat
  BY DEF Mac!Quit, MacInv, MacWorld
<1>2. NoNewClaim
  BY <1>1 DEF NoNewClaim, Claim
<1>3. \A t \in Tasks : task'[t] = Mac!Idle
  BY DEF Mac!Quit
<1>4. OneKeeps
  BY <1>3, IdleIs DEF OneKeeps, KeepsToken, HasToken, Changes
<1> QED
  BY <1>1, <1>2, <1>4, ClaimsStay

(* What the MCP server reads, and writes back, are claims as before. *)
LEMMA ClaimsMcp ==
  ASSUME MacInv, MacInv', ClaimsFit,
         Mac!McpReads \/ \E i \in 1..MaxIds, a \in Addresses : Mac!McpNotes(i, a)
  PROVE  ClaimsFit'
<1>1. UNCHANGED <<keychain, task, removing, paired, crossed>> /\ paired \in Nat
  BY DEF Mac!McpReads, Mac!McpNotes, MacInv, MacWorld
<1>2. NoNewClaim
  <2>1. CASE Mac!McpReads
    BY <2>1 DEF Mac!McpReads, NoNewClaim, Claim
  <2>2. ASSUME NEW i \in 1..MaxIds, NEW a \in Addresses, Mac!McpNotes(i, a) PROVE NoNewClaim
    <3> DEFINE e == [held[i] EXCEPT !.good = a]
    <3>1. held[i] \in Mac!Entry /\ entry' = [held EXCEPT ![i] = e] /\ held' = Mac!NoList
      BY <2>2 DEF Mac!McpNotes, MacInv, MacWorld
    <3>2. e.client = held[i].client
      BY <3>1 DEF Mac!Entry
    <3> HIDE DEF e
    <3>3. \A j \in 1..MaxIds : entry'[j].client = held[j].client
      BY <3>1, <3>2 DEF MacInv, MacWorld
    <3>4. \A j \in 1..MaxIds : held'[j].client = 0
      BY <3>1 DEF Mac!NoList, Mac!NoEntry, Mac!Ids, Mac!NoToken
    <3> QED
      BY <3>3, <3>4 DEF NoNewClaim, Claim
  <2> QED
    BY <2>1, <2>2
<1>3. OneKeeps
  BY <1>1 DEF OneKeeps, KeepsToken
<1> QED
  BY <1>1, <1>2, <1>3, ClaimsStay

(* An answer: a pairing's token is the newest there is. *)
LEMMA ClaimsAnswered ==
  ASSUME MacInv, MacInv', ClaimsFit, NEW t \in Tasks, NEW a \in Addresses, Mac!Answered(t, a)
  PROVE  ClaimsFit'
<1>0. MacWorld /\ task[t].pc = "send" /\ Mac!HostDoes(t) /\ task[t] \in Sent
      /\ UNCHANGED <<entry, held, keychain, crossed, removing>> /\ paired \in Nat /\ paired' \in Nat
  BY DEF MacInv, MacWorld, Mac!Answered, Mac!Trying
<1>1. PICK r \in Sent : task' = [task EXCEPT ![t] = r] /\ Answers(task[t], r, a)
  BY AnsweredIs
<1>2. paired <= paired' /\ (task[t].op = "pair" => paired' = paired + 1)
  BY <1>0, HostDid
<1>3. NoNewClaim
  BY <1>0 DEF NoNewClaim, Claim
<1>4. r.op = task[t].op /\ r.id = task[t].id /\ task[t].op \in Mac!Ops
  BY <1>0, <1>1, Fields DEF Answers
<1>5. task'[t] = r /\ \A o \in Tasks \ {t} : task'[o] = task[o]
  BY <1>0, <1>1, Sets
<1>6. CASE task[t].op # "pair"
  <2>1. ~HasToken(r)
    BY <1>1, <1>6 DEF Answers, HasToken
  <2>2. OneKeeps
    BY <1>4, <1>5, <2>1 DEF OneKeeps, KeepsToken, Changes
  <2> QED
    BY <1>0, <1>2, <1>3, <2>2, ClaimsStay
<1>7. CASE task[t].op = "pair"
  <2>1. r.pc = "keep" /\ r.token = paired'
    BY <1>1, <1>2, <1>7 DEF Answers
  <2>2. r.id \in 1..MaxIds
    BY <1>0, <1>4 DEF MacInv, FitsIn
  <2>3. \A i \in 1..MaxIds, c \in 1..MaxClients : Claim(i, c)' => c <= paired'
    BY <1>0, <1>2, <1>3 DEF ClaimsFit, NoNewClaim
  <2>4. ASSUME ~crossed
        PROVE  /\ Sole'
               /\ \A i \in (1..MaxIds) \ removing, c \in 1..MaxClients :
                    Claim(i, c)' => keychain[i] # 0 /\ keychain[i] >= c
               /\ \A o \in Tasks : HasToken(task'[o]) =>
                    /\ \A c \in 1..MaxClients : Claim(task[o].id, c)' => c <= task'[o].token
                    /\ task'[o].id \notin removing /\ Saved(task'[o]) =>
                         keychain[task'[o].id] = task'[o].token
    <3>1. Sole'
      BY <1>4, <1>5, <2>4 DEF ClaimsFit, Sole, Changes
    <3>2. \A o \in Tasks \ {t} : ~HasToken(task[o])
      BY <1>7, <2>4, PairOnly DEF ClaimsFit, Sole, Changes
    <3>3. \A i \in (1..MaxIds) \ removing, c \in 1..MaxClients :
            Claim(i, c)' => keychain[i] # 0 /\ keychain[i] >= c
      BY <1>3, <2>4 DEF ClaimsFit, NoNewClaim
    <3>4. ASSUME NEW c \in 1..MaxClients, NEW o \in Tasks, o = t, Claim(task[o].id, c)'
          PROVE  c <= task'[o].token
      <4>1. Claim(r.id, c)'
        BY <1>0, <1>5, <3>4 DEF Claim
      <4> QED
        BY <1>5, <2>1, <2>2, <2>3, <3>4, <4>1
    <3> QED
      BY <1>5, <2>1, <3>1, <3>2, <3>3, <3>4 DEF Saved
  <2> QED
    BY <1>0, <2>3, <2>4 DEF ClaimsFit
<1> QED
  BY <1>6, <1>7

LEMMA ClaimsSend ==
  ASSUME MacInv, MacInv', ClaimsFit, NEW t \in Tasks, NEW a \in Addresses,
         Mac!Unreachable(t, a) \/ Mac!Refused(t, a) \/ Mac!Answered(t, a) \/ Mac!Lost(t, a)
  PROVE  ClaimsFit'
<1>1. CASE Mac!Unreachable(t, a) \/ Mac!Refused(t, a) \/ Mac!Lost(t, a)
  <2>1. /\ UNCHANGED <<entry, held, keychain, removing>> /\ (crossed => crossed')
        /\ task[t].pc = "send" /\ MacWorld /\ paired \in Nat
    BY <1>1 DEF Mac!Unreachable, Mac!Refused, Mac!Lost, Mac!Trying, MacInv, MacWorld
  <2>2. NoNewClaim
    BY <2>1 DEF NoNewClaim, Claim
  <2>3. OneKeeps
    BY <1>1, <2>1, OneContinues, OneFails DEF Mac!Unreachable, Mac!Refused, Mac!Lost
  <2>4. paired <= paired'
    <3>1. CASE paired' = paired
      BY <2>1, <3>1
    <3>2. CASE Mac!HostDoes(t)
      BY <2>1, <3>2, HostDid
    <3> QED
      BY <1>1, <3>1, <3>2 DEF Mac!Unreachable, Mac!Refused, Mac!Lost
  <2> QED
    BY <2>1, <2>2, <2>3, <2>4, ClaimsStay
<1> QED
  BY <1>1, ClaimsAnswered

(* The token is kept: it is no earlier than any claim. *)
LEMMA ClaimsKeep ==
  ASSUME MacInv, MacInv', ClaimsFit, NEW t \in Tasks, Mac!Keep(t)
  PROVE  ClaimsFit'
<1>0. /\ MacWorld /\ UNCHANGED <<entry, held, crossed, removing, paired>> /\ paired \in Nat
      /\ task[t].pc = "keep" /\ HasToken(task[t])
  BY DEF MacInv, MacWorld, Mac!Keep, HasToken
<1>1. NoNewClaim
  BY <1>0 DEF NoNewClaim, Claim
<1>2. CASE Mac!Goto(t, "giveBack") /\ UNCHANGED keychain
  BY <1>0, <1>1, <1>2, OneGoes, ClaimsStay
<1>3. CASE keychain' = [keychain EXCEPT ![task[t].id] = task[t].token] /\ Mac!Goto(t, "keepCache")
  <2>1. task[t].id \in 1..MaxIds /\ task[t].token \in 1..MaxClients /\ task[t].op = "pair"
    BY <1>0, PairOnly
  <2>2. keychain'[task[t].id] = task[t].token
        /\ \A j \in (1..MaxIds) \ {task[t].id} : keychain'[j] = keychain[j]
    BY <1>0, <1>3, <2>1 DEF MacWorld
  <2>3. PICK r \in Sent : /\ task' = [task EXCEPT ![t] = r]
                          /\ r.pc = "keepCache" /\ r.op = task[t].op /\ r.id = task[t].id
                          /\ r.token = task[t].token
    BY <1>0, <1>3, StepsAre, GotoIs
  <2>4. task'[t] = r /\ \A o \in Tasks \ {t} : task'[o] = task[o]
    BY <1>0, <2>3, Sets
  <2>5. ASSUME ~crossed
        PROVE  /\ Sole'
               /\ \A i \in (1..MaxIds) \ removing, c \in 1..MaxClients :
                    Claim(i, c)' => keychain'[i] # 0 /\ keychain'[i] >= c
               /\ \A o \in Tasks : HasToken(task'[o]) =>
                    /\ \A c \in 1..MaxClients : Claim(task[o].id, c)' => c <= task'[o].token
                    /\ task'[o].id \notin removing /\ Saved(task'[o]) =>
                         keychain'[task'[o].id] = task'[o].token
    <3>1. Sole'
      BY <2>3, <2>4, <2>5 DEF ClaimsFit, Sole, Changes
    <3>2. \A o \in Tasks \ {t} : ~HasToken(task[o])
      BY <2>1, <2>5, PairOnly DEF ClaimsFit, Sole, Changes
    <3>3. \A c \in 1..MaxClients : Claim(task[t].id, c) => c <= task[t].token
      BY <1>0, <2>5 DEF ClaimsFit
    <3>4. ASSUME NEW i \in (1..MaxIds) \ removing, NEW c \in 1..MaxClients, Claim(i, c)'
          PROVE  keychain'[i] # 0 /\ keychain'[i] >= c
      <4>1. Claim(i, c)
        BY <1>1, <3>4 DEF NoNewClaim
      <4>2. CASE i = task[t].id
        BY <2>1, <2>2, <3>3, <4>1, <4>2
      <4>3. CASE i # task[t].id
        BY <2>2, <2>5, <4>1, <4>3 DEF ClaimsFit
      <4> QED
        BY <4>2, <4>3
    <3>5. ASSUME NEW c \in 1..MaxClients, NEW o \in Tasks, o = t, Claim(task[o].id, c)'
          PROVE  c <= task'[o].token
      <4>1. task'[o].id = task[o].id /\ task'[o].token = task[o].token
        BY <2>3, <2>4, <3>5
      <4>2. Claim(task[o].id, c)
        BY <1>0, <3>5, <4>1 DEF Claim
      <4> QED
        BY <3>3, <3>5, <4>1, <4>2
    <3> QED
      BY <2>2, <2>3, <2>4, <3>1, <3>2, <3>4, <3>5
  <2>6. \A i \in 1..MaxIds, c \in 1..MaxClients : Claim(i, c)' => c <= paired'
    BY <1>0, <1>1 DEF ClaimsFit, NoNewClaim
  <2> QED
    BY <1>0, <2>5, <2>6 DEF ClaimsFit
<1> QED
  BY <1>2, <1>3 DEF Mac!Keep

(* The entry is saved: it claims the token that was kept. *)
LEMMA ClaimsSave ==
  ASSUME MacInv, MacInv', ClaimsFit, NEW t \in Tasks, Mac!Save(t)
  PROVE  ClaimsFit'
<1>0. /\ MacWorld /\ UNCHANGED <<keychain, held, crossed, removing, paired>>
      /\ paired \in Nat /\ task[t].pc = "list" /\ HasToken(task[t])
      /\ task' = [task EXCEPT ![t] = Mac!Idle]
  BY DEF MacInv, MacWorld, Mac!Save, HasToken, Mac!End, Mac!Set
<1> DEFINE i == task[t].id
<1>1. i \in 1..MaxIds /\ task[t].token \in 1..MaxClients /\ task[t].op = "pair" /\ task[t].token <= paired
  BY <1>0, PairOnly
<1>2. PICK l : entry' = [entry EXCEPT ![i] = Mac!Paired(t, l)]
  BY DEF Mac!Save
<1>3. entry'[i].client = task[t].token /\ \A j \in (1..MaxIds) \ {i} : entry'[j] = entry[j]
  <2>1. Mac!Paired(t, l).client = task[t].token
    BY DEF Mac!Paired
  <2>2. entry'[i] = Mac!Paired(t, l) /\ \A j \in (1..MaxIds) \ {i} : entry'[j] = entry[j]
    BY <1>0, <1>1, <1>2 DEF MacWorld
  <2> QED
    BY <2>1, <2>2
<1>4. \A j \in 1..MaxIds, c \in 1..MaxClients : Claim(j, c)' => Claim(j, c) \/ (j = i /\ c = task[t].token)
  BY <1>0, <1>3 DEF Claim
<1>5. task'[t] = Mac!Idle /\ \A o \in Tasks \ {t} : task'[o] = task[o]
  BY <1>0, IdleIs, Sets
<1>6. ASSUME ~crossed
      PROVE  /\ Sole'
             /\ \A j \in (1..MaxIds) \ removing, c \in 1..MaxClients :
                  Claim(j, c)' => keychain[j] # 0 /\ keychain[j] >= c
             /\ \A o \in Tasks : ~HasToken(task'[o])
  <2>1. Sole'
    BY <1>5, <1>6, IdleIs DEF ClaimsFit, Sole, Changes
  <2>2. \A o \in Tasks : ~HasToken(task'[o])
    BY <1>1, <1>5, <1>6, PairOnly, IdleIs DEF ClaimsFit, Sole, Changes, HasToken
  <2>3. ASSUME NEW j \in (1..MaxIds) \ removing, NEW c \in 1..MaxClients, Claim(j, c)'
        PROVE  keychain[j] # 0 /\ keychain[j] >= c
    <3>1. CASE Claim(j, c)
      BY <1>6, <3>1 DEF ClaimsFit
    <3>2. CASE j = i /\ c = task[t].token
      <4>1. keychain[i] = task[t].token
        BY <1>0, <1>6, <2>3, <3>2 DEF ClaimsFit, Saved
      <4> QED
        BY <1>1, <3>2, <4>1
    <3> QED
      BY <1>4, <2>3, <3>1, <3>2
  <2> QED
    BY <2>1, <2>2, <2>3
<1>7. \A j \in 1..MaxIds, c \in 1..MaxClients : Claim(j, c)' => c <= paired'
  BY <1>0, <1>1, <1>4 DEF ClaimsFit
<1> QED
  BY <1>0, <1>6, <1>7 DEF ClaimsFit

LEMMA ClaimsAfter ==
  ASSUME MacInv, MacInv', ClaimsFit, NEW t \in Tasks,
         \/ Mac!Tokenless(t) \/ Mac!ReadToken(t) \/ Mac!CacheToken(t)
         \/ Mac!Note(t) \/ Mac!Look(t)
         \/ Mac!GiveBack(t) \/ Mac!SaveFails(t)
         \/ Mac!DeleteToken(t) \/ Mac!DeleteEntry(t)
  PROVE  ClaimsFit'
<1>0. MacWorld /\ paired' = paired /\ paired \in Nat /\ removing' = removing /\ held' = held
      /\ (crossed => crossed') /\ task[t] \in Sent
  <2>0. MacWorld
    BY DEF MacInv
  <2>1. paired \in Nat /\ task[t] \in Sent
    BY <2>0 DEF MacWorld
  <2>2. paired' = paired /\ removing' = removing /\ held' = held
    BY DEF Mac!Tokenless, Mac!ReadToken, Mac!CacheToken, Mac!Note, Mac!Look, Mac!GiveBack,
           Mac!SaveFails, Mac!DeleteToken, Mac!DeleteEntry
  <2>3. crossed => crossed'
    BY DEF Mac!Tokenless, Mac!ReadToken, Mac!CacheToken, Mac!Note, Mac!Look, Mac!GiveBack,
           Mac!SaveFails, Mac!DeleteToken, Mac!DeleteEntry
  <2> QED
    BY <2>0, <2>1, <2>2, <2>3
<1>1. OneKeeps
  <2>1. ASSUME Mac!ReadToken(t) PROVE OneKeeps
    <3> DEFINE n == keychain[task[t].id]
               r == [task[t] EXCEPT !.token = n, !.pc = "cache"]
    <3>1. r.pc = "cache" /\ r.op = task[t].op
      BY <1>0 DEF Sent
    <3>2. Mac!Set(t, r)
      BY <2>1 DEF Mac!ReadToken
    <3> HIDE DEF r
    <3>3. KeepsToken(task[t], r) /\ (Changes(r) => Changes(task[t]))
      BY <3>1 DEF KeepsToken, HasToken, Changes
    <3> QED
      BY <1>0, <3>2, <3>3, OneSet
  <2>2. \/ Mac!ReadToken(t) \/ Mac!End(t)
        \/ \E step \in {"send", "look", "deleteToken", "deleteEntry"} : Mac!Goto(t, step)
        \/ task[t].pc = "keepCache" /\ Mac!Goto(t, "list")
    BY DEF Mac!Tokenless, Mac!CacheToken, Mac!Note, Mac!Look, Mac!GiveBack, Mac!SaveFails,
           Mac!DeleteToken, Mac!DeleteEntry
  <2> QED
    BY <1>0, <2>1, <2>2, OneEnds, OneGoes
<1>2. \A i \in (1..MaxIds) \ removing : keychain'[i] = keychain[i]
  <2>1. CASE keychain' = keychain
    BY <2>1
  <2>2. CASE Mac!DeleteToken(t) /\ keychain' = [keychain EXCEPT ![task[t].id] = Mac!NoToken]
    <3>1. task[t].id \in removing
      BY <2>2, RemoveOnly DEF Mac!DeleteToken
    <3> QED
      BY <1>0, <2>2, <3>1 DEF MacWorld
  <2> QED
    BY <2>1, <2>2 DEF Mac!Tokenless, Mac!ReadToken, Mac!CacheToken, Mac!Note, Mac!Look, Mac!GiveBack,
       Mac!SaveFails, Mac!DeleteToken, Mac!DeleteEntry
<1>3. NoNewClaim
  <2> DEFINE i == task[t].id
  <2>1. CASE entry' = entry
    BY <1>0, <2>1 DEF NoNewClaim, Claim
  <2>2. CASE Mac!Note(t) /\ Mac!Listed(i) /\ entry' # entry
    <3> DEFINE e == [entry[i] EXCEPT !.good = task[t].by]
    <3>1. i \in 1..MaxIds
      BY <1>0, <2>2 DEF Mac!Note, MacInv, FitsIn
    <3>2. entry[i] \in Mac!Entry /\ entry' = [entry EXCEPT ![i] = e]
      BY <1>0, <2>2, <3>1, ListedIs DEF Mac!Note
    <3>3. e.client = entry[i].client
      BY <3>2 DEF Mac!Entry
    <3> HIDE DEF e
    <3> QED
      BY <1>0, <3>1, <3>2, <3>3, SameClients
  <2>3. CASE Mac!Look(t) /\ Mac!Listed(i)
    <3> DEFINE d == Mac!Carried(entry[i].colors, task[t].from, task[t].to)
               e == [entry[i] EXCEPT !.colors = d]
    <3>1. i \in 1..MaxIds
      BY <1>0, <2>3 DEF Mac!Look, MacInv, FitsIn
    <3>2. entry[i] \in Mac!Entry /\ entry' = [entry EXCEPT ![i] = e]
      BY <1>0, <2>3, <3>1, ListedIs DEF Mac!Look
    <3> HIDE DEF d
    <3>3. e.client = entry[i].client
      BY <3>2 DEF Mac!Entry
    <3> HIDE DEF e
    <3> QED
      BY <1>0, <3>1, <3>2, <3>3, SameClients
  <2>4. CASE Mac!DeleteEntry(t)
    <3>1. entry' = [entry EXCEPT ![i] = Mac!NoEntry] /\ Mac!NoEntry.client = 0
      BY <2>4 DEF Mac!DeleteEntry, Mac!NoEntry, Mac!NoToken
    <3>2. \A j \in 1..MaxIds : entry'[j].client \in {entry[j].client, 0}
      BY <1>0, <3>1 DEF MacWorld
    <3> QED
      BY <1>0, <3>2 DEF NoNewClaim, Claim
  <2> QED
    BY <2>1, <2>2, <2>3, <2>4 DEF Mac!Tokenless, Mac!ReadToken, Mac!CacheToken, Mac!Note, Mac!Look,
       Mac!GiveBack, Mac!SaveFails, Mac!DeleteToken, Mac!DeleteEntry
<1> QED
  BY <1>0, <1>1, <1>2, <1>3, ClaimsStay

LEMMA ClaimsStart == ASSUME Mac!Init, MacInv PROVE ClaimsFit
<1>1. /\ \A i \in 1..MaxIds : held[i].client = 0
      /\ \A i \in 1..MaxIds : keychain[i] = IF entry[i] = Mac!NoEntry THEN 0 ELSE 1
      /\ \A t \in Tasks : task[t] = Mac!Idle
  BY DEF Mac!Init, Mac!NoList, Mac!NoEntry, Mac!NoToken, Mac!Ids
<1>2. \A i \in 1..MaxIds : entry[i].client \in {0, 1} /\ (entry[i] = Mac!NoEntry => entry[i].client = 0)
                           /\ (entry[i].client = 1 => paired = 1)
  <2>1. PICK a \in Addresses : \A i \in 1..MaxIds :
           entry[i] = IF i = 1 /\ paired = 1
                      THEN [client |-> 1, good |-> a, label |-> Mac!NoOne, colors |-> Mac!NewLooks.colors]
                      ELSE Mac!NoEntry
    BY DEF Mac!Init, Mac!Ids
  <2> QED
    BY <2>1 DEF Mac!NoEntry, Mac!NoToken
<1>3. Sole /\ \A t \in Tasks : ~HasToken(task[t])
  BY <1>1, IdleIs DEF Sole, Changes, HasToken
<1>4. \A i \in 1..MaxIds, c \in 1..MaxClients : Claim(i, c) => c = 1 /\ paired = 1 /\ keychain[i] = 1
  BY <1>1, <1>2 DEF Claim
<1> QED
  BY <1>3, <1>4 DEF ClaimsFit

LEMMA HeldKnown ==
  ASSUME MacInv, ClaimsFit
  PROVE  \A i \in 1..MaxIds : held[i] # Mac!NoEntry => held[i].client <= paired
<1>1. \A i \in 1..MaxIds : held[i] # Mac!NoEntry => held[i].client \in 1..MaxClients
  BY EntryNotNo DEF MacInv, MacWorld
<1> QED
  BY <1>1 DEF ClaimsFit, Claim

LEMMA ClaimsStep == ASSUME MacInv, MacInv', ClaimsFit, Mac!Next PROVE ClaimsFit'
<1>0. Mac!Ids = 1..MaxIds
  BY DEF Mac!Ids
<1>1. ASSUME NEW t \in Tasks, NEW i \in 1..MaxIds,
             \/ Mac!Request(t, i)
             \/ \E op \in Mac!AccountOps, a, b \in Accounts : Mac!Account(t, i, op, a, b)
             \/ Mac!Pair(t, i)
             \/ Mac!Remove(t, i)
      PROVE  ClaimsFit'
  BY <1>1, ClaimsBegin
<1>2. ASSUME NEW t \in Tasks,
             \/ Mac!Tokenless(t) \/ Mac!ReadToken(t) \/ Mac!CacheToken(t)
             \/ Mac!Note(t) \/ Mac!Look(t)
             \/ Mac!Keep(t) \/ Mac!GiveBack(t) \/ Mac!Save(t) \/ Mac!SaveFails(t)
             \/ Mac!DeleteToken(t) \/ Mac!DeleteEntry(t)
      PROVE  ClaimsFit'
  BY <1>2, ClaimsAfter, ClaimsKeep, ClaimsSave
<1> QED
  BY <1>0, <1>1, <1>2, ClaimsLook, ClaimsSend, ClaimsQuit, ClaimsMcp DEF Mac!Next

LEMMA ClaimsSame == ASSUME ClaimsFit, UNCHANGED macVars PROVE ClaimsFit'
<1>1. UNCHANGED <<entry, keychain, task, held, crossed, removing, paired>>
  BY DEF macVars
<1> QED
  BY <1>1 DEF ClaimsFit, Claim, Sole

------------------------------------------------------------------------------
LEMMA MacStep == ASSUME MacInv, ClaimsFit, Mac!Next PROVE MacInv'
<1>0. Mac!Ids = 1..MaxIds
  BY DEF Mac!Ids
<1>1. ASSUME NEW t \in Tasks, NEW i \in 1..MaxIds,
             \/ Mac!Request(t, i)
             \/ \E op \in Mac!AccountOps, a, b \in Accounts : Mac!Account(t, i, op, a, b)
             \/ Mac!Pair(t, i)
             \/ Mac!Remove(t, i)
      PROVE  MacInv'
  BY <1>1, MacRequest, MacAccount, MacPair, MacRemove
<1>2. ASSUME NEW t \in Tasks, NEW a \in Addresses,
             Mac!Unreachable(t, a) \/ Mac!Refused(t, a) \/ Mac!Answered(t, a) \/ Mac!Lost(t, a)
      PROVE  MacInv'
  BY <1>2, MacUnreachable, MacRefused, MacAnswered, MacLost
<1>3. ASSUME NEW t \in Tasks,
             \/ Mac!Tokenless(t) \/ Mac!ReadToken(t) \/ Mac!CacheToken(t)
             \/ Mac!Note(t) \/ Mac!Look(t)
             \/ Mac!Keep(t) \/ Mac!GiveBack(t) \/ Mac!Save(t) \/ Mac!SaveFails(t)
             \/ Mac!DeleteToken(t) \/ Mac!DeleteEntry(t)
      PROVE  MacInv'
  BY <1>3, MacTokenless, MacReadToken, MacCacheToken, MacNote, MacLook, MacKeep, MacGiveBack,
     MacSave, MacSaveFails, MacDeleteToken, MacDeleteEntry
<1>4. ASSUME Mac!Quit \/ Mac!McpReads \/ \E i \in 1..MaxIds, a \in Addresses : Mac!McpNotes(i, a)
      PROVE  MacInv'
  BY <1>4, HeldKnown, MacQuit, MacMcpReads, MacMcpNotes
<1> QED
  BY <1>0, <1>1, <1>2, <1>3, <1>4, MacLabel, MacColor DEF Mac!Next

LEMMA EntriesAlways == AllSpec => [](OnMac => MacInv /\ ClaimsFit)
<1>1. AllInit => (OnMac => MacInv /\ ClaimsFit)
  BY MacStart, ClaimsStart DEF AllInit, Called, AtStore, AtDoor, OnMac, AtSetup
<1>2. (OnMac => MacInv /\ ClaimsFit) /\ [AllNext]_allVars => (OnMac => MacInv /\ ClaimsFit)'
  <2> SUFFICES ASSUME OnMac => MacInv /\ ClaimsFit, [AllNext]_allVars, OnMac'
               PROVE  MacInv' /\ ClaimsFit'
    OBVIOUS
  <2>1. part' = part /\ OnMac
    BY DEF AllNext, allVars, OnMac
  <2>2. Mac!Next \/ UNCHANGED macVars
    BY <2>1 DEF AllNext, allVars, Called, AtStore, AtDoor, OnMac, AtSetup
  <2> QED
    BY <2>1, <2>2, MacStep, MacStays, ClaimsStep, ClaimsSame
<1> QED
  BY <1>1, <1>2, PTL DEF AllSpec

LEMMA MacAlways == AllSpec => [](OnMac => MacInv)
<1>1. (OnMac => MacInv /\ ClaimsFit) => (OnMac => MacInv)
  OBVIOUS
<1> QED
  BY <1>1, EntriesAlways, PTL

(* What changes something on the host is carried out once at most, whatever *)
(* becomes of its answer and however many addresses are tried.              *)
THEOREM NotDoneTwiceAlways == AllSpec => []NotDoneTwice
<1>1. MacInv => Mac!NotDoneTwice
  BY DEF MacInv, FitsIn, DoneOnce, Mac!NotDoneTwice
<1>2. (OnMac => MacInv) => NotDoneTwice
  BY <1>1 DEF NotDoneTwice
<1> QED
  BY <1>2, MacAlways, PTL

(* A listed host has its token, its own client's or a later one's, whoever  *)
(* quits and whatever the MCP server writes back (ClaimsFit); and the label  *)
(* and the colors the user gave last are shown, whatever else was answered   *)
(* meanwhile, unless the MCP server wrote back a list that had changed.      *)
THEOREM EntriesAlwaysHold == AllSpec => []EntriesHold
<1>1. ASSUME MacInv, ClaimsFit PROVE Mac!TokenBelongs
  <2>1. \A i \in 1..MaxIds : Mac!Listed(i) => entry[i].client \in 1..MaxClients
    BY <1>1, ListedIs DEF MacInv
  <2> QED
    BY <1>1, <2>1 DEF ClaimsFit, Claim, Mac!TokenBelongs, Mac!Ids, Mac!NoToken
<1>2. ASSUME MacInv PROVE Mac!LooksFollow
  <2> SUFFICES ASSUME ~crossed, ~overwritten, \A t \in Tasks : task[t].op \in {"request", "remove"},
                      NEW i \in 1..MaxIds, Mac!Listed(i)
               PROVE  entry[i].label = given.label /\ entry[i].colors = given.colors
    BY DEF Mac!LooksFollow, Mac!Ids
  <2>1. \A t \in Tasks : ~DoneThere(task[t])
    BY DEF DoneThere
  <2> QED
    BY <1>2, <2>1 DEF MacInv, Calm, LabelFits, ColorsFit
<1>3. (OnMac => MacInv /\ ClaimsFit) => EntriesHold
  BY <1>1, <1>2 DEF EntriesHold
<1> QED
  BY <1>3, EntriesAlways, PTL
-------------------------------------------------------------------------------
(***************************************************************************)
(* Types (RemoteHosts).  A request was carried out no more often than      *)
(* there are addresses: each is tried once, so that what was done and what *)
(* is left to try are never more.                                          *)
(***************************************************************************)
Spends(k, r) ==
  \/ r.left = k.left /\ r.done = k.done
  \/ r.left \subseteq Addresses /\ r.done = 0
  \/ \E a \in k.left : r.left \subseteq k.left \ {a} /\ r.done \in {k.done, k.done + 1}

OneSpends ==
  \/ UNCHANGED task
  \/ \E t \in Tasks : /\ \A o \in Tasks \ {t} : task'[o] = task[o]
                      /\ Spends(task[t], task'[t])
  \/ \A t \in Tasks : Spends(task[t], task'[t])

Spent == \A t \in Tasks : task[t].done + Cardinality(task[t].left) <= Cardinality(Addresses)

------------------------------------------------------------------------------
LEMMA SetSpends ==
  ASSUME MacWorld, NEW t \in Tasks, NEW r, Mac!Set(t, r), Spends(task[t], r)
  PROVE  OneSpends
<1>1. task' = [task EXCEPT ![t] = r] /\ task \in [Tasks -> Sent]
  BY DEF Mac!Set, MacWorld
<1>2. task'[t] = r /\ \A o \in Tasks \ {t} : task'[o] = task[o]
  BY <1>1
<1> QED
  BY <1>2 DEF OneSpends

LEMMA EndSpends == ASSUME MacWorld, NEW t \in Tasks, Mac!End(t) PROVE OneSpends
<1>1. Mac!Idle.left \subseteq Addresses /\ Mac!Idle.done = 0
  BY DEF Mac!Idle
<1>2. Spends(task[t], Mac!Idle)
  BY <1>1 DEF Spends
<1> QED
  BY <1>2, SetSpends DEF Mac!End

LEMMA GotoSpends ==
  ASSUME MacWorld, NEW t \in Tasks, NEW step, Mac!Goto(t, step)
  PROVE  OneSpends
<1> DEFINE r == [task[t] EXCEPT !.pc = step]
<1>1. task[t] \in Sent
  BY DEF MacWorld
<1>2. r.left = task[t].left /\ r.done = task[t].done
  BY <1>1 DEF Sent
<1>3. Mac!Set(t, r)
  BY DEF Mac!Set, Mac!Goto
<1>4. Spends(task[t], r)
  BY <1>2 DEF Spends
<1> QED
  BY <1>3, <1>4, SetSpends

LEMMA FailSpends == ASSUME MacWorld, NEW t \in Tasks, Mac!Fail(t) PROVE OneSpends
BY EndSpends, GotoSpends DEF Mac!Fail

LEMMA ContinueSpends ==
  ASSUME MacWorld, NEW t \in Tasks, NEW a \in task[t].left,
         \/ Mac!Continue(t, a, task[t])
         \/ Mac!Continue(t, a, [task[t] EXCEPT !.done = task[t].done + 1])
  PROVE  OneSpends
<1>0. task[t] \in Sent
  BY DEF MacWorld
<1>1. CASE task[t].left = {a}
  BY <1>1, FailSpends DEF Mac!Continue
<1>2. CASE task[t].left # {a} /\ Mac!Continue(t, a, task[t])
  <2> DEFINE r == [task[t] EXCEPT !.left = task[t].left \ {a}]
  <2>1. r.left = task[t].left \ {a} /\ r.done = task[t].done
    BY <1>0 DEF Sent
  <2>2. Mac!Set(t, r)
    BY <1>2 DEF Mac!Continue
  <2>3. Spends(task[t], r)
    BY <2>1 DEF Spends
  <2> QED
    BY <2>2, <2>3, SetSpends
<1>3. CASE /\ task[t].left # {a}
           /\ Mac!Continue(t, a, [task[t] EXCEPT !.done = task[t].done + 1])
  <2> DEFINE k == [task[t] EXCEPT !.done = task[t].done + 1]
             r == [k EXCEPT !.left = k.left \ {a}]
  <2>1. r.left = task[t].left \ {a} /\ r.done = task[t].done + 1
    BY <1>0 DEF Sent
  <2>2. Mac!Set(t, r)
    BY <1>3 DEF Mac!Continue
  <2>3. Spends(task[t], r)
    BY <2>1 DEF Spends
  <2> QED
    BY <2>2, <2>3, SetSpends
<1> QED
  BY <1>1, <1>2, <1>3

(* A command that begins has every address to try. *)
LEMMA ConnectSpends ==
  ASSUME MacWorld, NEW t \in Tasks, NEW op, NEW how, NEW i
  PROVE  LET k == Mac!Connected(t, op, how, i)
         IN  k.left = Addresses /\ k.done = 0
BY DEF Mac!Connected, Mac!Idle

LEMMA BeginSpends ==
  ASSUME MacWorld, NEW t \in Tasks, NEW i,
         \/ Mac!Request(t, i)
         \/ \E op \in Mac!AccountOps, a, b \in Accounts : Mac!Account(t, i, op, a, b)
         \/ Mac!Pair(t, i)
         \/ Mac!Remove(t, i)
  PROVE  OneSpends
<1>1. PICK r : Mac!Set(t, r) /\ r.left = Addresses /\ r.done = 0
  <2>1. CASE Mac!Request(t, i)
    BY <2>1, ConnectSpends DEF Mac!Request
  <2>2. ASSUME NEW op \in Mac!AccountOps, NEW a \in Accounts, NEW b \in Accounts,
               Mac!Account(t, i, op, a, b)
        PROVE  \E r : Mac!Set(t, r) /\ r.left = Addresses /\ r.done = 0
    <3> DEFINE k == Mac!Connected(t, op, Mac!AccountRequests[op], i)
               r == [k EXCEPT !.from = a, !.to = b]
    <3>1. Mac!Set(t, r)
      BY <2>2 DEF Mac!Account
    <3>2. r.left = Addresses /\ r.done = 0
      BY DEF Mac!Connected, Mac!Idle
    <3> QED
      BY <3>1, <3>2
  <2>3. CASE Mac!Pair(t, i)
    <3> DEFINE r == [Mac!Idle EXCEPT !.pc = "send", !.op = "pair", !.how = Mac!Doing, !.id = i,
                                     !.host = entry[i], !.left = Addresses]
    <3>1. Mac!Set(t, r)
      BY <2>3 DEF Mac!Pair
    <3>2. r.left = Addresses /\ r.done = 0
      BY DEF Mac!Idle
    <3> QED
      BY <3>1, <3>2
  <2>4. CASE Mac!Remove(t, i)
    BY <2>4, ConnectSpends DEF Mac!Remove
  <2> QED
    BY <2>1, <2>2, <2>3, <2>4
<1>2. Spends(task[t], r)
  BY <1>1 DEF Spends
<1> QED
  BY <1>1, <1>2, SetSpends

LEMMA AnsweredSpends ==
  ASSUME MacWorld, NEW t \in Tasks, NEW a \in task[t].left, Mac!Answered(t, a)
  PROVE  OneSpends
<1>0. task[t] \in Sent
  BY DEF MacWorld
<1>1. PICK b, n, s : Mac!Set(t, [task[t] EXCEPT !.done = task[t].done + 1, !.left = {},
                                                !.by = b, !.token = n, !.pc = s])
  BY DEF Mac!Answered
<1> DEFINE r == [task[t] EXCEPT !.done = task[t].done + 1, !.left = {},
                                !.by = b, !.token = n, !.pc = s]
<1>2. r.left = {} /\ r.done = task[t].done + 1
  BY <1>0 DEF Sent
<1>3. Spends(task[t], r)
  BY <1>2 DEF Spends
<1> QED
  BY <1>1, <1>3, SetSpends

LEMMA SendSpends ==
  ASSUME MacWorld, NEW t \in Tasks, NEW a \in Addresses,
         Mac!Unreachable(t, a) \/ Mac!Refused(t, a) \/ Mac!Answered(t, a) \/ Mac!Lost(t, a)
  PROVE  OneSpends
<1>1. a \in task[t].left
  BY DEF Mac!Unreachable, Mac!Refused, Mac!Answered, Mac!Lost, Mac!Trying
<1>2. CASE Mac!Unreachable(t, a)
  BY <1>1, <1>2, ContinueSpends DEF Mac!Unreachable
<1>3. CASE Mac!Refused(t, a)
  BY <1>3, FailSpends DEF Mac!Refused
<1>4. CASE Mac!Answered(t, a)
  BY <1>1, <1>4, AnsweredSpends
<1>5. CASE Mac!Lost(t, a)
  BY <1>1, <1>5, ContinueSpends, FailSpends DEF Mac!Lost
<1> QED
  BY <1>2, <1>3, <1>4, <1>5

LEMMA AfterSpends ==
  ASSUME MacWorld, NEW t \in Tasks,
         \/ Mac!Tokenless(t) \/ Mac!ReadToken(t) \/ Mac!CacheToken(t)
         \/ Mac!Note(t) \/ Mac!Look(t)
         \/ Mac!Keep(t) \/ Mac!GiveBack(t) \/ Mac!Save(t) \/ Mac!SaveFails(t)
         \/ Mac!DeleteToken(t) \/ Mac!DeleteEntry(t)
  PROVE  OneSpends
<1>1. ASSUME Mac!ReadToken(t) PROVE OneSpends
  <2> DEFINE n == keychain[task[t].id]
             r == [task[t] EXCEPT !.token = n, !.pc = "cache"]
  <2>1. task[t] \in Sent
    BY DEF MacWorld
  <2>2. r.left = task[t].left /\ r.done = task[t].done
    BY <2>1 DEF Sent
  <2>3. Mac!Set(t, r)
    BY <1>1 DEF Mac!ReadToken
  <2>4. Spends(task[t], r)
    BY <2>2 DEF Spends
  <2> QED
    BY <2>3, <2>4, SetSpends
<1>2. Mac!ReadToken(t) \/ Mac!End(t) \/ \E step : Mac!Goto(t, step)
  BY DEF Mac!Tokenless, Mac!CacheToken, Mac!Note, Mac!Look, Mac!Keep, Mac!GiveBack, Mac!Save,
         Mac!SaveFails, Mac!DeleteToken, Mac!DeleteEntry
<1> QED
  BY <1>1, <1>2, EndSpends, GotoSpends

LEMMA NextSpends == ASSUME MacWorld, Mac!Next PROVE OneSpends
<1>1. ASSUME NEW i, NEW l, Mac!Label(i, l) PROVE OneSpends
  BY <1>1 DEF Mac!Label, OneSpends
<1>2. ASSUME NEW i, NEW a, NEW c, Mac!Color(i, a, c) PROVE OneSpends
  BY <1>2 DEF Mac!Color, OneSpends
<1>3. ASSUME Mac!Quit PROVE OneSpends
  <2>1. \A t \in Tasks : task'[t] = Mac!Idle
    BY <1>3 DEF Mac!Quit
  <2>2. Mac!Idle.left \subseteq Addresses /\ Mac!Idle.done = 0
    BY DEF Mac!Idle
  <2> QED
    BY <2>1, <2>2 DEF OneSpends, Spends
<1>4. ASSUME Mac!McpReads \/ \E i \in Mac!Ids, a \in Addresses : Mac!McpNotes(i, a)
      PROVE  OneSpends
  BY <1>4 DEF Mac!McpReads, Mac!McpNotes, OneSpends
<1> QED
  BY <1>1, <1>2, <1>3, <1>4, BeginSpends, SendSpends, AfterSpends DEF Mac!Next

LEMMA LeftCount ==
  ASSUME NEW k \in Sent
  PROVE  /\ IsFiniteSet(k.left) /\ Cardinality(k.left) \in Nat
         /\ Cardinality(k.left) <= Cardinality(Addresses)
BY Fields, DoorLimits, FS_Subset, FS_CardinalityType

LEMMA SpentStep ==
  ASSUME MacWorld, MacWorld', Spent, OneSpends
  PROVE  Spent'
<1>0. Cardinality(Addresses) \in Nat
  BY DoorLimits, FS_CardinalityType
<1> SUFFICES ASSUME NEW t \in Tasks
             PROVE  task'[t].done + Cardinality(task'[t].left) <= Cardinality(Addresses)
  BY DEF Spent
<1> DEFINE k == task[t]  r == task'[t]
<1>1. k \in Sent /\ r \in Sent /\ k.done + Cardinality(k.left) <= Cardinality(Addresses)
  BY DEF MacWorld, Spent
<1>2. r = k \/ Spends(k, r)
  BY DEF OneSpends
<1> HIDE DEF k, r
<1>3. /\ k.done \in Nat /\ r.done \in Nat
      /\ Cardinality(k.left) \in Nat /\ Cardinality(r.left) \in Nat
      /\ Cardinality(r.left) <= Cardinality(Addresses)
      /\ IsFiniteSet(k.left) /\ IsFiniteSet(r.left)
  BY <1>1, Fields, LeftCount
<1>4. ASSUME NEW a \in k.left, r.left \subseteq k.left \ {a}, r.done \in {k.done, k.done + 1}
      PROVE  r.done + Cardinality(r.left) <= Cardinality(Addresses)
  <2>1. /\ IsFiniteSet(k.left \ {a}) /\ Cardinality(k.left \ {a}) = Cardinality(k.left) - 1
    BY <1>3, FS_RemoveElement
  <2>2. Cardinality(r.left) <= Cardinality(k.left \ {a})
    BY <1>4, <2>1, FS_Subset
  <2> QED
    BY <1>0, <1>1, <1>3, <1>4, <2>1, <2>2
<1>5. r.done + Cardinality(r.left) <= Cardinality(Addresses)
  BY <1>0, <1>1, <1>2, <1>3, <1>4 DEF Spends
<1> QED
  BY <1>5 DEF r

LEMMA SpentAtFirst == ASSUME Mac!Init PROVE Spent
<1>1. \A t \in Tasks : task[t].done = 0 /\ task[t].left = {}
  BY DEF Mac!Init, Mac!Idle
<1>2. Cardinality(Addresses) \in Nat
  BY DoorLimits, FS_CardinalityType
<1>3. \A t \in Tasks : Cardinality(task[t].left) = 0
  BY <1>1, FS_EmptySet
<1> QED
  BY <1>1, <1>2, <1>3 DEF Spent

LEMMA SpentAlways == AllSpec => [](OnMac => Spent)
<1>1. AllInit => (OnMac => Spent)
  BY SpentAtFirst DEF AllInit, Called, AtStore, AtDoor, OnMac, AtSetup
<1>2. (OnMac => Spent) /\ (OnMac => MacInv) /\ (OnMac => MacInv)' /\ [AllNext]_allVars
        => (OnMac => Spent)'
  <2> SUFFICES ASSUME OnMac => Spent, OnMac => MacInv, (OnMac => MacInv)', [AllNext]_allVars,
                      OnMac'
               PROVE  Spent'
    OBVIOUS
  <2>1. part' = part /\ OnMac
    BY DEF AllNext, allVars, OnMac
  <2>2. Mac!Next \/ UNCHANGED task
    BY <2>1 DEF AllNext, allVars, macVars, Called, AtStore, AtDoor, OnMac, AtSetup
  <2>3. MacWorld /\ MacWorld' /\ Spent
    BY <2>1 DEF MacInv
  <2>4. OneSpends
    BY <2>2, <2>3, NextSpends DEF OneSpends
  <2> QED
    BY <2>3, <2>4, SpentStep
<1> QED
  BY <1>1, <1>2, MacAlways, PTL DEF AllSpec

LEMMA MacCount ==
  ASSUME NEW S
  PROVE  Mac!Cardinality(S) = Cardinality(S)
BY DEF Mac!Cardinality, Cardinality

LEMMA MacTyped == ASSUME MacInv, Spent PROVE Mac!TypeOK
<1>0. /\ Mac!Ids = 1..MaxIds /\ Mac!Tokens = 0..MaxClients /\ Mac!Clients = 1..MaxClients
      /\ Mac!Ids \cup {0} = 0..MaxIds
  BY DEF Mac!Ids, Mac!Tokens, Mac!Clients, Mac!NoToken
<1>1. MacWorld
  BY DEF MacInv
<1>2. ASSUME NEW t \in Tasks
      PROVE  /\ task[t].pc \in Mac!Steps /\ task[t].op \in Mac!Ops /\ task[t].id \in Mac!Ids \cup {0}
             /\ task[t].left \subseteq Addresses /\ task[t].token \in Mac!Tokens
             /\ task[t].by \in Mac!Maybe(Addresses)
             /\ task[t].done \in 0..Mac!Cardinality(Addresses)
  <2>1. task[t] \in Sent
    BY <1>1 DEF MacWorld
  <2>2. /\ task[t].done \in Nat /\ Cardinality(task[t].left) \in Nat
        /\ Cardinality(Addresses) \in Nat
        /\ task[t].done + Cardinality(task[t].left) <= Cardinality(Addresses)
    BY <2>1, Fields, LeftCount, DoorLimits, FS_CardinalityType DEF Spent
  <2>3. task[t].done \in 0..Cardinality(Addresses)
    BY <2>2
  <2> QED
    BY <1>0, <2>1, <2>3, Fields, MacCount
<1>3. /\ entry \in [Mac!Ids -> Mac!Entry \cup {Mac!NoEntry}]
      /\ keychain \in [Mac!Ids -> Mac!Tokens] /\ cache \in [Mac!Ids -> Mac!Tokens]
      /\ granted \subseteq Mac!Clients /\ there \subseteq Accounts
      /\ held \in [Mac!Ids -> Mac!Entry \cup {Mac!NoEntry}] /\ overwritten \in BOOLEAN
      /\ crossed \in BOOLEAN /\ removing \subseteq Mac!Ids
      /\ paired \in 0..MaxClients /\ calls \in 0..MaxCalls
  BY <1>0, <1>1 DEF MacWorld
<1> QED
  BY <1>2, <1>3 DEF Mac!TypeOK

(* The files' and the names' types, in the behaviours of each part. *)
LEMMA NamesAreTyped == ASSUME NamesInv PROVE Naming!TypeOK
<1>1. NamesWorld
  BY DEF NamesInv
<1>2. Len(lines) <= MaxWrites
  BY <1>1 DEF NamesWorld
<1>3. \A l \in Tasks : lists[l].info \in 0..MaxWrites
  BY <1>1 DEF NamesWorld, Listing
<1>4. rename.name \in Naming!AnyName /\ rename.answer \in Naming!AnyName
  BY <1>1 DEF NamesWorld, Renaming
<1> QED
  BY <1>1, <1>2, <1>3, <1>4 DEF NamesWorld, Naming!TypeOK

LEMMA StoreTyped == AllSpec => []TypeOK
<1>1. AllInit => TypeOK
  BY TypeInit DEF AllInit
<1>2. TypeOK /\ [AllNext]_allVars => TypeOK'
  BY TypeStep DEF AllNext, allVars
<1> QED
  BY <1>1, <1>2, PTL DEF AllSpec

(* Every part's variables have their types: among them that a request is   *)
(* carried out no more often than the host has addresses, and that no      *)
(* moment the door keeps lies before the first or past the last it may.    *)
THEOREM TypesAlwaysOK == AllSpec => []TypesOK
<1>1. /\ TypeOK
      /\ AtDoor => DoorInv
      /\ OnMac => MacInv
      /\ OnMac => Spent
      /\ AtSetup => SetupInv
      /\ Called => NamesInv
      => TypesOK
  BY DoorTyped, MacTyped, SetupTyped, NamesAreTyped DEF TypesOK
<1> QED
  BY <1>1, StoreTyped, DoorAlways, MacAlways, SpentAlways, SetupAlways, NamesAlways, PTL
=============================================================================
