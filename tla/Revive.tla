------------------------------- MODULE Revive -------------------------------
(***************************************************************************)
(* Sessions that come back after a reboot (revive.rs): the server writes   *)
(* down what runs in tmux (remember), every half minute and at the end of  *)
(* each request that stops a session, and brings it back when it starts    *)
(* after a reboot, or without its tmux session (revive).                   *)
(*                                                                         *)
(* Stopping and starting a session, under its account's lock, is a step    *)
(* (AccountSessions has the details); remember takes no lock: it looks at  *)
(* account after account, writes running.json.tmp and renames it.          *)
(***************************************************************************)
EXTENDS Naturals, FiniteSets

CONSTANTS
  Session,      \* sessions
  Account,      \* accounts
  AccountOf,    \* the account each session is of
  Requester,    \* threads that serve requests
  Background,   \* the thread that revives, then remembers now and then
  Nobody,       \* the holder of a free lock
  NoSession,    \* no session
  MaxBoots,     \* bound: times the machine starts
  MaxStops,     \* bound: requests that stop a session
  MaxStarts,    \* bound: sessions started by other requests
  MaxKills      \* bound: times the server alone is killed

Thread == Requester \cup {Background}

ASSUME ThreadAssumption == Background \notin Requester /\ Nobody \notin Thread
ASSUME SessionAssumption == NoSession \notin Session /\ AccountOf \in [Session -> Account]
ASSUME BoundsAssumption ==
  MaxBoots \in Nat \ {0} /\ MaxStops \in Nat /\ MaxStarts \in Nat /\ MaxKills \in Nat

VARIABLES
  pc,        \* where each thread is
  at,        \* the session it stops or resumes
  todo,      \* the sessions revive has still to see to
  left,      \* the accounts a remember has still to look at
  draft,     \* what it has seen running
  handle,    \* the file it writes: running.json.tmp until that is renamed
  lock,      \* who holds each account's lock
  running,   \* the sessions registered, in a window
  atPrompt,  \* the sessions whose window waits at a prompt
  tmuxUp,    \* the server's tmux session is there
  boot,      \* the kernel's id for this boot
  tmp,       \* what running.json.tmp says
  file,      \* what running.json says
  noted,     \* history: the sessions that were written down and run since
  due,       \* history: what a reboot ended and has to come back, and how
  stopped,   \* history: sessions that a request has stopped, as it answered
  mixed,     \* history: the threads whose remember overlaps another one
  clash,     \* history: running.json was put in place by one of those
  counts     \* stops, starts and kills so far

memoryVars  == <<pc, at, todo, left, draft, handle, lock>>
tmuxVars    == <<running, atPrompt, tmuxUp>>
diskVars    == <<tmp, file>>
historyVars == <<noted, due, stopped, mixed, clash>>
vars == <<memoryVars, tmuxVars, boot, diskVars, historyVars, counts>>

Nothing == [kind |-> "none", boot |-> 0, list |-> {}]
Broken  == [kind |-> "broken", boot |-> 0, list |-> {}]
Listing(b, l) == [kind |-> "list", boot |-> b, list |-> l]
------------------------------------------------------------------------------
(* The server's first start; sessions may run in tmux since an earlier one. *)
Init ==
  /\ pc = [t \in Thread |-> IF t = Background THEN "read" ELSE "idle"]
  /\ at = [t \in Thread |-> NoSession]
  /\ todo = {}
  /\ left = [t \in Thread |-> {}]
  /\ draft = [t \in Thread |-> {}]
  /\ handle = [t \in Thread |-> "none"]
  /\ lock = [a \in Account |-> Nobody]
  /\ running \in SUBSET Session /\ atPrompt = {}
  /\ tmuxUp = (running # {})
  /\ boot = 1
  /\ tmp = Nothing /\ file = Nothing
  /\ noted = {} /\ stopped = {} /\ mixed = {} /\ clash = FALSE
  /\ due = [s \in Session |-> "nothing"]
  /\ counts = [stops |-> 0, starts |-> 0, kills |-> 0]

Goto(t, place) == pc' = [pc EXCEPT ![t] = place]

Up == pc[Background] # "off"
Reviving == pc[Background] \in {"read", "each", "lock", "resume"}
Remembering == {t \in Thread : pc[t] \in {"look", "open", "fill", "rename"}}

Take(t)    == lock[AccountOf[at[t]]] = Nobody /\ lock' = [lock EXCEPT ![AccountOf[at[t]]] = t]
Release(t) == lock' = [a \in Account |-> IF lock[a] = t THEN Nobody ELSE lock[a]]

(* A session is started: it registers, or its window waits at a prompt.    *)
Launch(s) ==
  /\ \/ s \notin atPrompt /\ running' = running \cup {s} /\ UNCHANGED atPrompt
     \/ s \notin running  /\ atPrompt' = atPrompt \cup {s} /\ UNCHANGED running
  /\ tmuxUp' = TRUE

Ended(S) ==
  /\ running' = running \ S
  /\ atPrompt' = atPrompt \ S
  /\ noted' = noted \ S

Settled(s) == due' = [due EXCEPT ![s] = "nothing"]
------------------------------------------------------------------------------
(* remember *)

BeginRemember(t) ==
  /\ Goto(t, "look")
  /\ left' = [left EXCEPT ![t] = Account]
  /\ draft' = [draft EXCEPT ![t] = {}]
  /\ mixed' = IF Remembering = {} THEN mixed ELSE mixed \cup Remembering \cup {t}

Remembered(t) ==
  /\ Goto(t, IF t = Background THEN "sleep" ELSE "answer")
  /\ draft' = [draft EXCEPT ![t] = {}]
  /\ mixed' = mixed \ {t}

(* What runs in tmux, account after account. *)
LookAt(t) ==
  /\ pc[t] = "look"
  /\ \E a \in left[t] :
       /\ left' = [left EXCEPT ![t] = @ \ {a}]
       /\ draft' = [draft EXCEPT ![t] = @ \cup {s \in running : AccountOf[s] = a}]
       /\ Goto(t, IF left[t] = {a} THEN "open" ELSE "look")
  /\ UNCHANGED <<at, todo, handle, lock, tmuxVars, boot, diskVars, historyVars, counts>>

(* fs::write empties running.json.tmp, or makes it... *)
OpenTmp(t) ==
  /\ pc[t] = "open"
  /\ tmp' = Broken
  /\ handle' = [handle EXCEPT ![t] = "tmp"]
  /\ Goto(t, "fill")
  /\ UNCHANGED <<at, todo, left, draft, lock, tmuxVars, boot, file, historyVars, counts>>

(* What a file says once the list is written over what it said before:     *)
(* where that was longer, its end is left.                                 *)
Written(before, t) ==
  {Listing(boot, draft[t])} \cup
  (IF before.kind = "list" /\ before.list # draft[t] THEN {Broken} ELSE {})

(* ...and writes the list, into the file it opened, whatever that is       *)
(* called by now.  An error leaves it there.                               *)
Fill(t) ==
  /\ pc[t] = "fill"
  /\ \/ handle[t] = "tmp" /\ tmp' \in Written(tmp, t) /\ UNCHANGED file
     \/ handle[t] = "file" /\ file' \in Written(file, t) /\ UNCHANGED tmp
     \/ handle[t] = "gone" /\ UNCHANGED diskVars
  /\ handle' = [handle EXCEPT ![t] = "none"]
  /\ Goto(t, "rename")
  /\ UNCHANGED <<at, todo, left, draft, lock, tmuxVars, boot, historyVars, counts>>

(* running.json.tmp becomes running.json; if another thread has renamed it *)
(* already, that fails.                                                    *)
Rename(t) ==
  /\ pc[t] = "rename"
  /\ IF tmp.kind = "none"
     THEN UNCHANGED <<diskVars, handle, noted, due, clash>>
     ELSE /\ file' = tmp
          /\ tmp' = Nothing
          /\ handle' = [u \in Thread |-> CASE handle[u] = "file" -> "gone"
                                           [] handle[u] = "tmp"  -> "file"
                                           [] OTHER -> handle[u]]
          /\ noted' = noted \cup (draft[t] \cap running)
          /\ clash' = (t \in mixed)
          /\ due' = [s \in Session |->
                       IF t \in Requester /\ due[s] = "apart" THEN "rewritten" ELSE due[s]]
  /\ stopped' = IF t \in Requester \ mixed /\ tmp.kind # "none" /\ ~Reviving
                THEN stopped \cup {at[t]} ELSE stopped
  /\ Remembered(t)
  /\ UNCHANGED <<at, todo, left, lock, tmuxVars, boot, counts>>

(* The file can't be written: what running.json says stays. *)
RememberFails(t) ==
  /\ pc[t] \in {"open", "fill", "rename"}
  /\ handle' = [handle EXCEPT ![t] = "none"]
  /\ Remembered(t)
  /\ UNCHANGED <<at, todo, left, lock, tmuxVars, boot, diskVars, noted, due, stopped,
                 clash, counts>>
------------------------------------------------------------------------------
(* revive *)

(* Variant: the list is used up as it is read. *)
ReadListAway ==
  /\ pc[Background] = "read"
  /\ todo' = IF file.kind = "list" /\ (file.boot # boot \/ ~tmuxUp) THEN file.list ELSE {}
  /\ file' = Nothing
  /\ Goto(Background, "each")
  /\ UNCHANGED <<at, left, draft, handle, lock, tmuxVars, boot, tmp, historyVars, counts>>

(* The list counts after a reboot, or when the tmux session is gone. *)
ReadList ==
  /\ pc[Background] = "read"
  /\ todo' = IF file.kind = "list" /\ (file.boot # boot \/ ~tmuxUp) THEN file.list ELSE {}
  /\ Goto(Background, "each")
  /\ UNCHANGED <<at, left, draft, handle, lock, tmuxVars, boot, diskVars, historyVars, counts>>

(* The next one, unless it runs by now. *)
NextListed ==
  /\ pc[Background] = "each"
  /\ \E s \in todo :
       IF s \in running
       THEN todo' = todo \ {s} /\ Settled(s) /\ UNCHANGED <<pc, at>>
       ELSE /\ at' = [at EXCEPT ![Background] = s]
            /\ Goto(Background, "lock")
            /\ UNCHANGED <<todo, due>>
  /\ UNCHANGED <<left, draft, handle, lock, tmuxVars, boot, diskVars, noted, stopped, mixed,
                 clash, counts>>

(* Variant: it is resumed whoever holds its account's lock. *)
ReviveUnlocked ==
  /\ pc[Background] = "lock"
  /\ Goto(Background, "resume")
  /\ UNCHANGED <<at, todo, left, draft, handle, lock, tmuxVars, boot, diskVars, historyVars, counts>>

TakeToRevive ==
  /\ pc[Background] = "lock"
  /\ Take(Background)
  /\ Goto(Background, "resume")
  /\ UNCHANGED <<at, todo, left, draft, handle, tmuxVars, boot, diskVars, historyVars, counts>>

(* Variant: it is tried until it runs. *)
ResumeUntilItRuns ==
  LET s == at[Background] IN
  /\ pc[Background] = "resume"
  /\ \/ Launch(s) /\ todo' = todo \ {s} /\ Settled(s)
     \/ UNCHANGED <<tmuxVars, todo, due>>
  /\ Release(Background)
  /\ at' = [at EXCEPT ![Background] = NoSession]
  /\ Goto(Background, "each")
  /\ UNCHANGED <<left, draft, handle, boot, diskVars, noted, stopped, mixed, clash, counts>>

(* It is resumed, or runs or waits already, or can't be. *)
Resume ==
  LET s == at[Background] IN
  /\ pc[Background] = "resume"
  /\ Launch(s) \/ UNCHANGED tmuxVars
  /\ todo' = todo \ {s}
  /\ Settled(s)
  /\ Release(Background)
  /\ at' = [at EXCEPT ![Background] = NoSession]
  /\ Goto(Background, "each")
  /\ UNCHANGED <<left, draft, handle, boot, diskVars, noted, stopped, mixed, clash, counts>>

(* All tried: from now on what runs is remembered, every half minute.      *)
RememberNowAndThen ==
  /\ pc[Background] = "sleep" \/ (pc[Background] = "each" /\ todo = {})
  /\ BeginRemember(Background)
  /\ UNCHANGED <<at, todo, handle, lock, tmuxVars, boot, diskVars, noted, due, stopped, clash,
                 counts>>
------------------------------------------------------------------------------
(* Requests that stop a session: stop, transfer, logout and the like *)

AskStop(t) ==
  /\ Up /\ pc[t] = "idle" /\ counts.stops < MaxStops
  /\ counts' = [counts EXCEPT !.stops = @ + 1]
  /\ \E s \in Session : at' = [at EXCEPT ![t] = s]
  /\ Goto(t, "wait")
  /\ UNCHANGED <<todo, left, draft, handle, lock, tmuxVars, boot, diskVars, historyVars>>

TakeToStop(t) ==
  /\ pc[t] = "wait"
  /\ Take(t)
  /\ Goto(t, "stop")
  /\ UNCHANGED <<at, todo, left, draft, handle, tmuxVars, boot, diskVars, historyVars, counts>>

(* The tmux session goes with its last window, unless someone has one.     *)
WindowsGone(S) ==
  /\ Ended(S)
  /\ tmuxUp' \in {tmuxUp} \cup (IF running \cup atPrompt \subseteq S THEN {FALSE} ELSE {})

(* The session is stopped, if it runs or waits, and what runs remembered;  *)
(* it has not to come back any more.                                       *)
Stop(t) ==
  /\ pc[t] = "stop"
  /\ WindowsGone({at[t]})
  /\ Settled(at[t])
  /\ BeginRemember(t)
  /\ UNCHANGED <<at, todo, handle, lock, boot, diskVars, stopped, clash, counts>>

StopFails(t) ==
  /\ pc[t] = "stop" /\ at[t] \in running \cup atPrompt
  /\ Goto(t, "answer")
  /\ UNCHANGED <<at, todo, left, draft, handle, lock, tmuxVars, boot, diskVars, historyVars, counts>>

Answer(t) ==
  /\ pc[t] = "answer"
  /\ Release(t)
  /\ at' = [at EXCEPT ![t] = NoSession]
  /\ Goto(t, "idle")
  /\ UNCHANGED <<todo, left, draft, handle, tmuxVars, boot, diskVars, historyVars, counts>>
------------------------------------------------------------------------------
(* Other requests, Claude, tmux, kills and reboots *)

StartOther(s) ==
  /\ Up /\ lock[AccountOf[s]] = Nobody
  /\ s \notin running \cup atPrompt /\ counts.starts < MaxStarts
  /\ counts' = [counts EXCEPT !.starts = @ + 1]
  /\ Launch(s)
  /\ Settled(s)
  /\ stopped' = stopped \ {s}
  /\ UNCHANGED <<memoryVars, boot, diskVars, noted, mixed, clash>>

Register(s) ==
  /\ s \in atPrompt
  /\ running' = running \cup {s}
  /\ atPrompt' = atPrompt \ {s}
  /\ UNCHANGED <<memoryVars, tmuxUp, boot, diskVars, historyVars, counts>>

End(s) ==
  /\ s \in running \cup atPrompt
  /\ WindowsGone({s})
  /\ UNCHANGED <<memoryVars, boot, diskVars, due, stopped, mixed, clash, counts>>

(* What the end of the server's process leaves of its threads. *)
ThreadsGone ==
  /\ pc' = [t \in Thread |-> IF t = Background THEN "off" ELSE "idle"]
  /\ at' = [t \in Thread |-> NoSession]
  /\ todo' = {}
  /\ left' = [t \in Thread |-> {}]
  /\ draft' = [t \in Thread |-> {}]
  /\ handle' = [t \in Thread |-> "none"]
  /\ lock' = [a \in Account |-> Nobody]
  /\ mixed' = {}

(* Only the server is killed: tmux and every Claude go on. *)
Kill ==
  /\ Up /\ counts.kills < MaxKills
  /\ counts' = [counts EXCEPT !.kills = @ + 1]
  /\ ThreadsGone
  /\ UNCHANGED <<tmuxVars, boot, diskVars, noted, due, stopped, clash>>

(* What ran and was written down has to come back. *)
Reboot ==
  /\ boot < MaxBoots
  /\ boot' = boot + 1
  /\ ThreadsGone
  /\ Ended(Session)
  /\ tmuxUp' = FALSE
  /\ due' = [s \in Session |-> IF s \notin noted THEN due[s]
                               ELSE IF clash THEN "clashed" ELSE "apart"]
  /\ UNCHANGED <<diskVars, stopped, clash, counts>>

(* systemd starts the server, after a boot as after a kill. *)
Start ==
  /\ ~Up
  /\ Goto(Background, "read")
  /\ UNCHANGED <<at, todo, left, draft, handle, lock, tmuxVars, boot, diskVars, historyVars, counts>>

Remember(t) == LookAt(t) \/ OpenTmp(t) \/ Fill(t) \/ Rename(t) \/ RememberFails(t)

Bring == ReadList \/ NextListed \/ TakeToRevive \/ Resume \/ RememberNowAndThen \/ Remember(Background)

Serve(t) == TakeToStop(t) \/ Stop(t) \/ StopFails(t) \/ Remember(t) \/ Answer(t)

Next ==
  \/ Bring
  \/ \E t \in Requester : AskStop(t) \/ Serve(t)
  \/ \E s \in Session : StartOther(s) \/ Register(s) \/ End(s)
  \/ Kill \/ Reboot \/ Start

Spec == Init /\ [][Next]_vars

(* Threads run on, and systemd starts the server (Restart=on-failure). *)
FairSpec ==
  /\ Spec
  /\ WF_vars(Bring \/ Start)
  /\ \A t \in Requester : WF_vars(Serve(t))
------------------------------------------------------------------------------
(* Properties *)

Place == {"off", "read", "each", "lock", "resume", "sleep", "idle", "wait", "stop", "answer",
          "look", "open", "fill", "rename"}

Content == [kind : {"none", "broken", "list"}, boot : 0 .. MaxBoots, list : SUBSET Session]

(* Types, and a session is resumed or stopped under its account's lock,    *)
(* which the request keeps until it has answered.                          *)
Holding(t) == pc[t] = "resume" \/ (t \in Requester /\ pc[t] \notin {"idle", "wait"})

TypeOK ==
  /\ pc \in [Thread -> Place]
  /\ at \in [Thread -> Session \cup {NoSession}]
  /\ todo \in SUBSET Session
  /\ left \in [Thread -> SUBSET Account]
  /\ draft \in [Thread -> SUBSET Session]
  /\ handle \in [Thread -> {"none", "tmp", "file", "gone"}]
  /\ lock \in [Account -> Thread \cup {Nobody}]
  /\ \A t \in Thread : pc[t] \in {"lock", "wait"} \/ Holding(t) => at[t] \in Session
  /\ \A t \in Thread : Holding(t) => lock[AccountOf[at[t]]] = t
  /\ running \in SUBSET Session
  /\ atPrompt \in SUBSET (Session \ running)
  /\ tmuxUp \in BOOLEAN
  /\ boot \in 1 .. MaxBoots
  /\ tmp \in Content
  /\ file \in Content
  /\ noted \in SUBSET running
  /\ due \in [Session -> {"nothing", "apart", "rewritten", "clashed"}]
  /\ stopped \in SUBSET Session
  /\ mixed \in SUBSET Thread
  /\ clash \in BOOLEAN
  /\ counts \in [stops : 0 .. MaxStops, starts : 0 .. MaxStarts, kills : 0 .. MaxKills]

(* A session still comes back: the list has it, to be read by the server's *)
(* next start, or revive has it yet to see to.                             *)
ComesBack(s) ==
  \/ s \in todo
  \/ file.kind = "list" /\ s \in file.list /\ file.boot # boot

(* What ran at a reboot, and was written down, comes back, through kills   *)
(* and further reboots while it is seen to: if the list was put in place   *)
(* by one thread at a time, and no request has written it anew since.      *)
ApartComesBack == \A s \in Session : due[s] = "apart" => ComesBack(s)

(* The same if requests stop sessions meanwhile, and write the list anew:  *)
(* "If the server reboots, the sessions that were running come back by     *)
(* themselves" (README.md:61).                                             *)
RestComesBack == \A s \in Session : due[s] \in {"apart", "rewritten"} => ComesBack(s)

(* A session that a request has stopped isn't brought back, by any later   *)
(* start of the server, unless it has been started again: if nothing was   *)
(* being revived or written down when the request did.                     *)
StoppedStays == pc[Background] \in {"lock", "resume"} => at[Background] \notin stopped

(* Everything that has to come back is tried in the end. *)
Waiting == {s \in Session : due[s] = "apart"}
TriedAtLast == Waiting # {} ~> Waiting = {}
------------------------------------------------------------------------------
(* What the threads know, on which the properties above rest *)

(* Remembers that overlap know it, and only they can write into a list     *)
(* that is in place already.                                               *)
OverlapsKnown ==
  /\ \A t, u \in Remembering : t # u => t \in mixed
  /\ \A t \in Thread : handle[t] # "none" => pc[t] = "fill"
  /\ \A t \in Thread : handle[t] = "file" => clash /\ Waiting = {}

(* A remember by itself sees what is on the list and runs, and writes just *)
(* what it has seen.                                                       *)
SeenAlone ==
  \A t \in Remembering \ mixed :
    /\ \A s \in noted : AccountOf[s] \in left[t] \/ s \in draft[t]
    /\ pc[t] # "look" => left[t] = {}
    /\ pc[t] = "fill" => tmp = Broken /\ handle[t] = "tmp"
    /\ pc[t] = "rename" => tmp = Listing(boot, draft[t])

(* What was written down is on the list, of this boot or an earlier one.   *)
NotedListed ==
  /\ file.boot <= boot /\ tmp.boot <= boot
  /\ ~clash => \A s \in noted : file.kind = "list" /\ s \in file.list

(* What has to come back stays on the list of the earlier boot, which      *)
(* nobody replaces, until revive has seen to it.                           *)
ApartKept ==
  /\ \A s \in Waiting :
       /\ file.kind = "list" /\ s \in file.list /\ file.boot # boot
       /\ pc[Background] = "off" \/ Reviving
       /\ pc[Background] \in {"off", "read"} \/ s \in todo
  /\ pc[Background] \in {"lock", "resume"} => at[Background] \in todo
  /\ pc[Background] \in {"each", "lock", "resume"} \/ todo = {}

(* What a request has stopped doesn't run, and nobody writes it down.      *)
StoppedKept ==
  /\ \A t \in Requester \cap Remembering : at[t] \notin running \cup atPrompt \cup draft[t]
  /\ stopped \cap (running \cup atPrompt \cup todo \cup file.list \cup tmp.list) = {}
  /\ \A t \in Remembering : stopped \cap draft[t] = {}

ReviveInv == TypeOK /\ OverlapsKnown /\ SeenAlone /\ NotedListed /\ ApartKept /\ StoppedKept
=============================================================================
