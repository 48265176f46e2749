------------------------------- MODULE SignOut -------------------------------
(***************************************************************************)
(* Signing an account out and in again: logout and submit_login            *)
(* (routes.rs), and the list of sessions that wait on the next sign-in     *)
(* (revive.rs), which a thread of its own works off after it.              *)
(*                                                                         *)
(* One account.  A session here runs (Claude has registered it), has a     *)
(* window that waits at a prompt, or is off: starting and stopping one,    *)
(* under the account's lock, is a step, detailed in AccountSessions.       *)
(***************************************************************************)
EXTENDS Naturals

CONSTANTS
  Session,      \* the account's sessions
  Leaver,       \* threads that serve sign-outs
  Resumer,      \* threads that resume what waits on a sign-in
  Nobody,       \* the holder of the free lock
  NoSession,    \* no session
  MaxSignOuts,  \* bound: sign-outs that arrive
  MaxSignIns,   \* bound: sign-ins
  MaxStarts,    \* bound: sessions started by other requests
  MaxMishaps    \* bound: times pending-resume.json can't be read or written,
                \* or the server is killed

Thread == Leaver \cup Resumer

ASSUME ThreadAssumption == Leaver \cap Resumer = {} /\ Nobody \notin Thread
ASSUME SessionAssumption == NoSession \notin Session
ASSUME BoundsAssumption ==
  MaxSignOuts \in Nat /\ MaxSignIns \in Nat /\ MaxStarts \in Nat /\ MaxMishaps \in Nat

VARIABLES
  pc,        \* where each thread is
  comeBack,  \* whether each sign-out asked for its sessions to be resumed
  seen,      \* the sessions each sign-out has still to stop
  list,      \* the sessions each resumer has still to see to
  current,   \* the one it is at
  lock,      \* who holds the account's lock
  running,   \* the sessions Claude has registered
  atPrompt,  \* the sessions whose window waits at a prompt, not registered
  late,      \* history: the sessions that registered since they were started
  signedIn,  \* the account is signed in
  waiting,   \* pending-resume.json
  lost,      \* history: what a failed read or write of it left out
  kept,      \* history: what one left in when it was to be let go of
  owed,      \* history: how the sessions a sign-out was to bring back stand
  raced,     \* history: the sign-outs a sign-in or its resumer got between
  counts     \* sign-outs, sign-ins, starts, failures and crashes so far

leaverVars  == <<comeBack, seen>>
resumerVars == <<list, current>>
sessionVars == <<running, atPrompt, late>>
waitingVars == <<waiting, lost, kept>>
vars == <<pc, leaverVars, resumerVars, lock, sessionVars, signedIn, waitingVars, owed, raced,
          counts>>
------------------------------------------------------------------------------
Init ==
  /\ pc = [t \in Thread |-> "idle"]
  /\ comeBack = [t \in Leaver |-> FALSE]
  /\ seen = [t \in Leaver |-> {}]
  /\ list = [t \in Resumer |-> {}]
  /\ current = [t \in Resumer |-> NoSession]
  /\ lock = Nobody
  /\ running \in SUBSET Session
  /\ atPrompt = {}
  /\ late = {}
  /\ signedIn = TRUE
  /\ waiting = {} /\ lost = {} /\ kept = {}
  /\ owed = [s \in Session |-> "nothing"]
  /\ raced = {}
  /\ counts = [outs |-> 0, ins |-> 0, starts |-> 0, failures |-> 0, crashes |-> 0]

Goto(t, place) == pc' = [pc EXCEPT ![t] = place]

Take(t) == lock = Nobody /\ lock' = t
Release == lock' = Nobody

(* A session is started: it registers, or its window waits at a prompt.    *)
(* One that runs or waits already is left as it is.                        *)
StartSession(s) ==
  /\ \/ s \notin atPrompt /\ running' = running \cup {s} /\ UNCHANGED atPrompt
     \/ s \notin running  /\ atPrompt' = atPrompt \cup {s} /\ UNCHANGED running
  /\ UNCHANGED late

(* What brings a session back, or tries to, settles what it was owed. *)
Settled(s) == owed' = [owed EXCEPT ![s] = "nothing"]

MayFail == counts.failures + counts.crashes < MaxMishaps

(* A read or a write of the list fails. *)
Failing ==
  /\ MayFail
  /\ counts' = [counts EXCEPT !.failures = @ + 1]

(* update_pending: the list is to be `changed`.  One that can't be read    *)
(* is taken for an empty one, for which the change makes `unread`, and one *)
(* that can't be written stays as it was: nobody is told.                  *)
Rewrite(changed, unread) ==
  /\ \/ waiting' = changed /\ UNCHANGED counts
     \/ waiting' \in {waiting, unread} /\ Failing
  /\ lost' = (lost \cup changed) \ waiting'
  /\ kept' = waiting' \ (changed \ kept)
------------------------------------------------------------------------------
(* logout *)

AskSignOut(t) ==
  /\ pc[t] = "idle" /\ counts.outs < MaxSignOuts
  /\ counts' = [counts EXCEPT !.outs = @ + 1]
  /\ \E back \in BOOLEAN : comeBack' = [comeBack EXCEPT ![t] = back]
  /\ Goto(t, "lock")
  /\ UNCHANGED <<seen, resumerVars, lock, sessionVars, signedIn, waitingVars, owed, raced>>

(* Variant: the sign-out doesn't wait for the account's lock. *)
TakeNoLock(t) ==
  /\ pc[t] = "lock"
  /\ seen' = [seen EXCEPT ![t] = running]
  /\ Goto(t, "hold")
  /\ UNCHANGED <<comeBack, resumerVars, lock, sessionVars, signedIn, waitingVars, owed,
                 raced, counts>>

(* The lock, and what runs: refused unless it may stop that. *)
LockAndLook(t) ==
  /\ pc[t] = "lock"
  /\ Take(t)
  /\ \/ /\ seen' = [seen EXCEPT ![t] = running]
        /\ Goto(t, "hold")
     \/ /\ running # {}
        /\ UNCHANGED seen
        /\ Goto(t, "done")
  /\ raced' = IF \E r \in Resumer : pc[r] # "idle" THEN raced \cup {t} ELSE raced
  /\ UNCHANGED <<comeBack, resumerVars, sessionVars, signedIn, waitingVars, owed, counts>>

(* Variant: what waited on the sign-in before is forgotten. *)
HoldOnly(t) ==
  /\ pc[t] = "hold"
  /\ waiting' = IF comeBack[t] THEN seen[t] ELSE waiting
  /\ Goto(t, "stop")
  /\ UNCHANGED <<leaverVars, resumerVars, lock, sessionVars, signedIn, lost, kept, owed,
                 raced,
                 counts>>

(* hold_for_sign_in, before anything stops: whether or not it could be     *)
(* written down, the sign-out goes on.                                     *)
Hold(t) ==
  /\ pc[t] = "hold"
  /\ \/ comeBack[t]  /\ Rewrite(waiting \cup seen[t], seen[t])
     \/ ~comeBack[t] /\ UNCHANGED <<waitingVars, counts>>
  /\ Goto(t, "stop")
  /\ UNCHANGED <<leaverVars, resumerVars, lock, sessionVars, signedIn, owed, raced>>

(* One session stopped, if it still runs: it is owed its return. *)
StopOne(t) ==
  /\ pc[t] = "stop"
  /\ \E s \in seen[t] :
       /\ seen' = [seen EXCEPT ![t] = @ \ {s}]
       /\ running' = running \ {s}
       /\ late' = late \ {s}
       /\ owed' = IF ~comeBack[t] \/ s \notin running THEN owed
                  ELSE [owed EXCEPT ![s] = IF t \in raced THEN "raced" ELSE "apart"]
  /\ UNCHANGED <<pc, comeBack, resumerVars, lock, atPrompt, signedIn, waitingVars, raced,
                 counts>>

(* It can't be stopped, or claude can't sign out: the request fails. *)
SignOutFails(t) ==
  /\ \/ pc[t] = "stop" /\ seen[t] \cap running # {}
     \/ pc[t] = "logout"
  /\ Goto(t, "done")
  /\ UNCHANGED <<leaverVars, resumerVars, lock, sessionVars, signedIn, waitingVars, owed,
                 raced, counts>>

AllStopped(t) ==
  /\ pc[t] = "stop" /\ seen[t] = {}
  /\ Goto(t, "logout")
  /\ UNCHANGED <<leaverVars, resumerVars, lock, sessionVars, signedIn, waitingVars, owed,
                 raced, counts>>

AuthLogout(t) ==
  /\ pc[t] = "logout"
  /\ signedIn' = FALSE
  /\ Goto(t, "done")
  /\ UNCHANGED <<leaverVars, resumerVars, lock, sessionVars, waitingVars, owed, raced,
                 counts>>

Answer(t) ==
  /\ pc[t] = "done"
  /\ Release
  /\ seen' = [seen EXCEPT ![t] = {}]
  /\ comeBack' = [comeBack EXCEPT ![t] = FALSE]
  /\ raced' = raced \ {t}
  /\ Goto(t, "idle")
  /\ UNCHANGED <<resumerVars, sessionVars, signedIn, waitingVars, owed, counts>>
------------------------------------------------------------------------------
(* submit_login and resume_pending *)

(* The code is accepted; if sessions wait on it, a thread sees to them.    *)
(* A list that can't be read has none.                                     *)
SignIn ==
  /\ counts.ins < MaxSignIns
  /\ signedIn' = TRUE
  /\ \/ /\ counts' = [counts EXCEPT !.ins = @ + 1]
        /\ IF waiting = {} THEN UNCHANGED pc
           ELSE \E t \in Resumer : pc[t] = "idle" /\ Goto(t, "read")
     \/ /\ waiting # {} /\ MayFail
        /\ counts' = [counts EXCEPT !.ins = @ + 1, !.failures = @ + 1]
        /\ UNCHANGED pc
  /\ raced' = raced \cup {t \in Leaver : pc[t] \in {"hold", "stop"}}
  /\ UNCHANGED <<leaverVars, resumerVars, lock, sessionVars, waitingVars, owed>>

(* The list is read once. *)
ReadWaiting(t) ==
  /\ pc[t] = "read"
  /\ \/ list' = [list EXCEPT ![t] = waiting] /\ kept' = {} /\ UNCHANGED counts
     \/ Failing /\ UNCHANGED <<list, kept>>
  /\ Goto(t, "next")
  /\ UNCHANGED <<leaverVars, current, lock, sessionVars, signedIn, waiting, lost, owed,
                 raced>>

(* The next one; if it runs already, which is asked without the lock,      *)
(* there is nothing to do for it.                                          *)
NextWaiting(t) ==
  /\ pc[t] = "next" /\ list[t] # {}
  /\ \E s \in list[t] :
       /\ current' = [current EXCEPT ![t] = s]
       /\ Goto(t, IF s \in running THEN "letGo" ELSE "resume")
  /\ UNCHANGED <<leaverVars, list, lock, sessionVars, signedIn, waitingVars, owed, raced,
                 counts>>

(* resume_held, under the account's lock: it runs, or can't be resumed. *)
TakeToResume(t) ==
  /\ pc[t] = "resume"
  /\ Take(t)
  /\ Goto(t, "start")
  /\ UNCHANGED <<leaverVars, resumerVars, sessionVars, signedIn, waitingVars, owed,
                 raced, counts>>

Resume(t) ==
  /\ pc[t] = "start"
  /\ StartSession(current[t]) \/ UNCHANGED sessionVars
  /\ Settled(current[t])
  /\ Release
  /\ Goto(t, "letGo")
  /\ UNCHANGED <<leaverVars, resumerVars, signedIn, waitingVars, raced, counts>>

(* Variant: one that didn't come back waits on. *)
LetGoRunning(t) ==
  LET s == current[t] IN
  /\ pc[t] = "letGo"
  /\ waiting' = IF s \in running THEN waiting \ {s} ELSE waiting
  /\ list' = [list EXCEPT ![t] = @ \ {s}]
  /\ current' = [current EXCEPT ![t] = NoSession]
  /\ Goto(t, "next")
  /\ UNCHANGED <<leaverVars, lock, sessionVars, signedIn, lost, kept, owed, raced, counts>>

(* It no longer waits, "whether or not it came back". *)
LetGo(t) ==
  LET s == current[t] IN
  /\ pc[t] = "letGo"
  /\ Rewrite(waiting \ {s}, {})
  /\ list' = [list EXCEPT ![t] = @ \ {s}]
  /\ current' = [current EXCEPT ![t] = NoSession]
  /\ Goto(t, "next")
  /\ UNCHANGED <<leaverVars, lock, sessionVars, signedIn, owed, raced>>

AllSeenTo(t) ==
  /\ pc[t] = "next" /\ list[t] = {}
  /\ Goto(t, "idle")
  /\ UNCHANGED <<leaverVars, resumerVars, lock, sessionVars, signedIn, waitingVars, owed,
                 raced, counts>>
------------------------------------------------------------------------------
(* Other requests, Claude, and the kill of the server *)

(* Another request starts the session, with the lock to itself. *)
StartOther(s) ==
  /\ lock = Nobody /\ s \notin running \cup atPrompt /\ counts.starts < MaxStarts
  /\ counts' = [counts EXCEPT !.starts = @ + 1]
  /\ StartSession(s)
  /\ Settled(s)
  /\ UNCHANGED <<pc, leaverVars, resumerVars, lock, signedIn, waitingVars, raced>>

(* A sign-out or a resumer of another account rewrites the list they       *)
(* share, and may not be able to read it.                                  *)
OtherAccount ==
  /\ Rewrite(waiting, {})
  /\ UNCHANGED <<pc, leaverVars, resumerVars, lock, sessionVars, signedIn, owed, raced>>

(* The prompt is answered at the window: the session registers. *)
Register(s) ==
  /\ s \in atPrompt
  /\ running' = running \cup {s}
  /\ atPrompt' = atPrompt \ {s}
  /\ late' = late \cup {s}
  /\ UNCHANGED <<pc, leaverVars, resumerVars, lock, signedIn, waitingVars, owed, raced,
                 counts>>

(* A session ends by itself. *)
End(s) ==
  /\ s \in running \cup atPrompt
  /\ running' = running \ {s}
  /\ atPrompt' = atPrompt \ {s}
  /\ late' = late \ {s}
  /\ UNCHANGED <<pc, leaverVars, resumerVars, lock, signedIn, waitingVars, owed, raced,
                 counts>>

Crash ==
  /\ MayFail
  /\ counts' = [counts EXCEPT !.crashes = @ + 1]
  /\ pc' = [t \in Thread |-> "idle"]
  /\ comeBack' = [t \in Leaver |-> FALSE]
  /\ seen' = [t \in Leaver |-> {}]
  /\ list' = [t \in Resumer |-> {}]
  /\ current' = [t \in Resumer |-> NoSession]
  /\ lock' = Nobody
  /\ raced' = {}
  /\ UNCHANGED <<sessionVars, signedIn, waitingVars, owed>>

Serve(t) ==
  \/ LockAndLook(t) \/ Hold(t) \/ StopOne(t) \/ SignOutFails(t) \/ AllStopped(t)
  \/ AuthLogout(t) \/ Answer(t)

SeeTo(t) ==
  \/ ReadWaiting(t) \/ NextWaiting(t) \/ TakeToResume(t) \/ Resume(t) \/ LetGo(t) \/ AllSeenTo(t)

Next ==
  \/ \E t \in Leaver : AskSignOut(t) \/ Serve(t)
  \/ SignIn
  \/ \E t \in Resumer : SeeTo(t)
  \/ \E s \in Session : StartOther(s) \/ Register(s) \/ End(s)
  \/ OtherAccount
  \/ Crash

Spec == Init /\ [][Next]_vars

(* Threads run on: each step of theirs takes a bounded time.  The lock is  *)
(* taken again and again by others at most as often as requests arrive.    *)
FairSpec ==
  /\ Spec
  /\ \A t \in Leaver : WF_vars(Serve(t))
  /\ \A t \in Resumer : WF_vars(SeeTo(t))
------------------------------------------------------------------------------
(* Properties *)

(* Types, and the account's lock is held by whoever is past taking it. *)
TypeOK ==
  /\ pc \in [Thread -> {"idle", "lock", "hold", "stop", "logout", "done", "read", "next",
                        "resume", "start", "letGo"}]
  /\ comeBack \in [Leaver -> BOOLEAN]
  /\ seen \in [Leaver -> SUBSET Session]
  /\ list \in [Resumer -> SUBSET Session]
  /\ current \in [Resumer -> Session \cup {NoSession}]
  /\ lock \in Thread \cup {Nobody}
  /\ \A t \in Thread : pc[t] \in {"hold", "stop", "logout", "done", "start"} => lock = t
  /\ running \in SUBSET Session
  /\ atPrompt \in SUBSET (Session \ running)
  /\ late \in SUBSET running
  /\ signedIn \in BOOLEAN
  /\ waiting \in SUBSET Session
  /\ lost \in SUBSET (Session \ waiting)
  /\ kept \in SUBSET waiting
  /\ owed \in [Session -> {"nothing", "apart", "raced"}]
  /\ raced \in SUBSET Leaver
  /\ counts \in [outs : 0 .. MaxSignOuts, ins : 0 .. MaxSignIns, starts : 0 .. MaxStarts,
                 failures : 0 .. MaxMishaps, crashes : 0 .. MaxMishaps]

(* What a sign-out stopped and was to bring back waits on the next         *)
(* sign-in until it is started or its resume was tried, though the         *)
(* sign-out fails halfway, another one follows or the server is killed:    *)
(* if no sign-in came in between, and no earlier one's resumer was still   *)
(* at work.  "Written down before anything stops" (logout) is so only when *)
(* the list could be read and written: nobody looks whether it was, and    *)
(* the sign-out goes on.  What such a failure leaves out, of this account  *)
(* or when another's sessions are written down, is lost; nothing else is,  *)
(* and what is written down again is lost no longer.                       *)
ApartHeld == \A s \in Session : owed[s] = "apart" => s \in waiting \cup lost

(* Why ApartHeld and NothingLeftRunning hold: while a sign-out that        *)
(* nothing raced stops sessions, no resumer is at work; what it has to     *)
(* stop waits already; what is owed its return is off; a resumer lets go   *)
(* of nothing owed; and what the sign-out didn't see registered late.      *)
ResumersIdle ==
  \A t \in Leaver : pc[t] \in {"hold", "stop"} /\ t \notin raced =>
    \A r \in Resumer : pc[r] = "idle"

SeenWaits ==
  \A t \in Leaver : pc[t] = "stop" /\ comeBack[t] /\ t \notin raced =>
    seen[t] \subseteq waiting \cup lost

OwedOff == \A s \in Session : owed[s] # "nothing" => s \notin running \cup atPrompt

LetGoSettled ==
  \A r \in Resumer :
    /\ pc[r] \in {"resume", "start", "letGo"} => current[r] \in Session
    /\ pc[r] = "letGo" => owed[current[r]] # "apart"

NoneUnseen ==
  \A t \in Leaver :
    /\ pc[t] \in {"hold", "stop"} => running \ seen[t] \subseteq late
    /\ pc[t] = "logout" => running \subseteq late

SignOutInv ==
  TypeOK /\ ApartHeld /\ ResumersIdle /\ SeenWaits /\ OwedOff /\ LetGoSettled /\ NoneUnseen

(* The same of every session a sign-out stopped: "a sign-out that fails    *)
(* halfway still brings back what it stopped" (logout).                    *)
StoppedHeld == \A s \in Session : owed[s] # "nothing" => s \in waiting

(* When a sign-out has signed the account out, nothing runs but what was   *)
(* waiting at a prompt when it was started: no request and no resumer      *)
(* starts a session between the sign-out's look and its end.               *)
NothingLeftRunning ==
  [][signedIn /\ ~signedIn' => running \subseteq late]_vars

(* "So a session that can't resume doesn't wait forever" (resume_pending): *)
(* what a resumer has on its list waits no longer in the end, unless the   *)
(* server is killed, or that it waits no longer couldn't be written.       *)
LetGoAtLast ==
  \A s \in Session :
    (\E t \in Resumer : s \in list[t]) ~> (s \notin waiting \/ s \in kept \/ counts.crashes > 0)
=============================================================================
