----------------------------- MODULE ServedProofs -----------------------------
(***************************************************************************)
(* How a host serves requests, for any number of sessions, threads and     *)
(* looks at a window: SignOut keeps what a sign-out stopped for the next   *)
(* sign-in, and signs out with nothing running that it could see; the      *)
(* trust prompt is answered as it was asked to be.                         *)
(***************************************************************************)
EXTENDS MCServed, TLAPS

USE DEF Thread

LEMMA CountsTyped ==
  ASSUME TypeOK
  PROVE  LET C == [outs : 0 .. MaxSignOuts, ins : 0 .. MaxSignIns, starts : 0 .. MaxStarts,
                   failures : 0 .. MaxMishaps, crashes : 0 .. MaxMishaps]
         IN  /\ counts.outs < MaxSignOuts => [counts EXCEPT !.outs = @ + 1] \in C
             /\ counts.ins < MaxSignIns => [counts EXCEPT !.ins = @ + 1] \in C
             /\ counts.starts < MaxStarts => [counts EXCEPT !.starts = @ + 1] \in C
             /\ MayFail => [counts EXCEPT !.crashes = @ + 1] \in C
             /\ MayFail => [counts EXCEPT !.failures = @ + 1] \in C
             /\ counts.ins < MaxSignIns /\ MayFail
                  => [counts EXCEPT !.ins = @ + 1, !.failures = @ + 1] \in C
<1>1. counts \in [outs : 0 .. MaxSignOuts, ins : 0 .. MaxSignIns, starts : 0 .. MaxStarts,
                 failures : 0 .. MaxMishaps, crashes : 0 .. MaxMishaps]
  BY DEF TypeOK
<1>2. MayFail => counts.failures + 1 \in 0 .. MaxMishaps /\ counts.crashes + 1 \in 0 .. MaxMishaps
  <2>1. counts.failures \in Nat /\ counts.crashes \in Nat
    BY <1>1
  <2> QED
    BY <2>1, BoundsAssumption DEF MayFail
<1>3. counts.outs < MaxSignOuts => counts.outs + 1 \in 0 .. MaxSignOuts
  BY <1>1, BoundsAssumption
<1>4. counts.ins < MaxSignIns => counts.ins + 1 \in 0 .. MaxSignIns
  BY <1>1, BoundsAssumption
<1>5. counts.starts < MaxStarts => counts.starts + 1 \in 0 .. MaxStarts
  BY <1>1, BoundsAssumption
<1> QED
  BY <1>1, <1>2, <1>3, <1>4, <1>5

(* Starting a session leaves it running or at a prompt, and no other. *)
LEMMA Starts ==
  ASSUME TypeOK, NEW s \in Session, StartSession(s)
  PROVE  /\ running' \in SUBSET Session /\ atPrompt' \in SUBSET (Session \ running')
         /\ late' = late /\ late \subseteq running'
         /\ running' \ {s} = running \ {s} /\ atPrompt' \ {s} = atPrompt \ {s}
BY DEF TypeOK, StartSession

(* Whatever fails as the list is rewritten, what was to be on it is there  *)
(* or lost, and what was lost before is there or lost still.               *)
LEMMA Rewritten ==
  ASSUME TypeOK, NEW changed \in SUBSET Session, NEW unread \in SUBSET Session,
         unread \subseteq changed, Rewrite(changed, unread)
  PROVE  /\ waiting' \in SUBSET Session /\ lost' \in SUBSET (Session \ waiting')
         /\ kept' \in SUBSET waiting'
         /\ changed \cup lost \subseteq waiting' \cup lost'
         /\ counts' \in [outs : 0 .. MaxSignOuts, ins : 0 .. MaxSignIns, starts : 0 .. MaxStarts,
                         failures : 0 .. MaxMishaps, crashes : 0 .. MaxMishaps]
<1>1. waiting' \in SUBSET Session
  BY DEF TypeOK, Rewrite
<1>2. counts' = counts \/ Failing
  BY DEF Rewrite
<1>3. counts' \in [outs : 0 .. MaxSignOuts, ins : 0 .. MaxSignIns, starts : 0 .. MaxStarts,
                  failures : 0 .. MaxMishaps, crashes : 0 .. MaxMishaps]
  BY <1>2, CountsTyped DEF TypeOK, Failing
<1> QED
  BY <1>1, <1>3 DEF TypeOK, Rewrite

(* A sign-out arrives.                                                     *)
LEMMA AskSignOutKeeps ==
  ASSUME SignOutInv, NEW t \in Leaver, AskSignOut(t)
  PROVE  SignOutInv'
<1> USE DEF SignOutInv, AskSignOut, Goto, resumerVars, sessionVars, waitingVars
<1>1. TypeOK'
  BY CountsTyped DEF TypeOK
<1>2. ResumersIdle'
  BY ThreadAssumption DEF TypeOK, ResumersIdle
<1>3. ApartHeld' /\ SeenWaits' /\ OwedOff' /\ LetGoSettled' /\ NoneUnseen'
  BY DEF TypeOK, ApartHeld, SeenWaits, OwedOff, LetGoSettled, NoneUnseen
<1> QED
  BY <1>1, <1>2, <1>3

LEMMA LockAndLookKeeps ==
  ASSUME SignOutInv, NEW t \in Leaver, LockAndLook(t)
  PROVE  SignOutInv'
<1> USE DEF SignOutInv, LockAndLook, Goto, Take, resumerVars, sessionVars, waitingVars
<1>1. TypeOK'
  BY ThreadAssumption DEF TypeOK
<1>2. ApartHeld' /\ ResumersIdle' /\ SeenWaits' /\ OwedOff' /\ LetGoSettled' /\ NoneUnseen'
  BY DEF TypeOK, ApartHeld, ResumersIdle, SeenWaits, OwedOff, LetGoSettled, NoneUnseen
<1> QED
  BY <1>1, <1>2

LEMMA HoldKeeps ==
  ASSUME SignOutInv, NEW t \in Leaver, Hold(t)
  PROVE  SignOutInv'
<1> USE DEF SignOutInv, Hold, Goto, leaverVars, resumerVars, sessionVars, waitingVars
<1>1. \/ ~comeBack[t] /\ UNCHANGED <<waitingVars, counts>>
      \/ /\ Rewrite(waiting \cup seen[t], seen[t])
         /\ waiting \cup seen[t] \cup lost \subseteq waiting' \cup lost'
         /\ waiting' \in SUBSET Session /\ lost' \in SUBSET (Session \ waiting')
         /\ kept' \in SUBSET waiting'
         /\ counts' \in [outs : 0 .. MaxSignOuts, ins : 0 .. MaxSignIns, starts : 0 .. MaxStarts,
                         failures : 0 .. MaxMishaps, crashes : 0 .. MaxMishaps]
  <2>1. seen[t] \in SUBSET Session /\ waiting \cup seen[t] \in SUBSET Session
    BY DEF TypeOK
  <2> QED
    BY <2>1, Rewritten
<1>2. TypeOK'
  BY <1>1 DEF TypeOK
<1>3. ApartHeld'
  BY <1>1 DEF TypeOK, ApartHeld
<1>4. SeenWaits'
  BY <1>1 DEF TypeOK, SeenWaits
<1>5. ResumersIdle' /\ OwedOff' /\ LetGoSettled' /\ NoneUnseen'
  BY DEF TypeOK, ResumersIdle, OwedOff, LetGoSettled, NoneUnseen
<1> QED
  BY <1>2, <1>3, <1>4, <1>5

(* What is owed its return waits, and no resumer is at work to let go of it. *)
LEMMA StopOneKeeps ==
  ASSUME SignOutInv, NEW t \in Leaver, StopOne(t)
  PROVE  SignOutInv'
<1> USE DEF SignOutInv, StopOne, resumerVars, waitingVars
<1>1. TypeOK'
  BY DEF TypeOK
<1>2. ApartHeld'
  BY DEF TypeOK, ApartHeld, SeenWaits
<1>3. LetGoSettled'
  BY DEF TypeOK, ResumersIdle, LetGoSettled
<1>4. ResumersIdle' /\ SeenWaits' /\ OwedOff' /\ NoneUnseen'
  BY DEF TypeOK, ResumersIdle, SeenWaits, OwedOff, NoneUnseen
<1> QED
  BY <1>1, <1>2, <1>3, <1>4

LEMMA SignOutFailsKeeps ==
  ASSUME SignOutInv, NEW t \in Leaver, SignOutFails(t)
  PROVE  SignOutInv'
<1> USE DEF SignOutInv, SignOutFails, Goto, leaverVars, resumerVars, sessionVars, waitingVars
<1>1. TypeOK'
  BY DEF TypeOK
<1>2. ApartHeld' /\ ResumersIdle' /\ SeenWaits' /\ OwedOff' /\ LetGoSettled' /\ NoneUnseen'
  BY DEF TypeOK, ApartHeld, ResumersIdle, SeenWaits, OwedOff, LetGoSettled, NoneUnseen
<1> QED
  BY <1>1, <1>2

LEMMA AllStoppedKeeps ==
  ASSUME SignOutInv, NEW t \in Leaver, AllStopped(t)
  PROVE  SignOutInv'
<1> USE DEF SignOutInv, AllStopped, Goto, leaverVars, resumerVars, sessionVars, waitingVars
<1>1. TypeOK'
  BY DEF TypeOK
<1>2. ApartHeld' /\ ResumersIdle' /\ SeenWaits' /\ OwedOff' /\ LetGoSettled' /\ NoneUnseen'
  BY DEF TypeOK, ApartHeld, ResumersIdle, SeenWaits, OwedOff, LetGoSettled, NoneUnseen
<1> QED
  BY <1>1, <1>2

LEMMA AuthLogoutKeeps ==
  ASSUME SignOutInv, NEW t \in Leaver, AuthLogout(t)
  PROVE  SignOutInv'
<1> USE DEF SignOutInv, AuthLogout, Goto, leaverVars, resumerVars, sessionVars, waitingVars
<1>1. TypeOK'
  BY DEF TypeOK
<1>2. ApartHeld' /\ ResumersIdle' /\ SeenWaits' /\ OwedOff' /\ LetGoSettled' /\ NoneUnseen'
  BY DEF TypeOK, ApartHeld, ResumersIdle, SeenWaits, OwedOff, LetGoSettled, NoneUnseen
<1> QED
  BY <1>1, <1>2

LEMMA AnswerKeeps ==
  ASSUME SignOutInv, NEW t \in Leaver, Answer(t)
  PROVE  SignOutInv'
<1> USE DEF SignOutInv, Answer, Goto, Release, resumerVars, sessionVars, waitingVars
<1>1. TypeOK'
  BY DEF TypeOK
<1>2. ApartHeld' /\ ResumersIdle' /\ SeenWaits' /\ OwedOff' /\ LetGoSettled' /\ NoneUnseen'
  BY DEF TypeOK, ApartHeld, ResumersIdle, SeenWaits, OwedOff, LetGoSettled, NoneUnseen
<1> QED
  BY <1>1, <1>2

LEMMA ReadWaitingKeeps ==
  ASSUME SignOutInv, NEW t \in Resumer, ReadWaiting(t)
  PROVE  SignOutInv'
<1> USE DEF SignOutInv, ReadWaiting, Goto, Failing, leaverVars, sessionVars
<1>1. TypeOK'
  BY CountsTyped DEF TypeOK
<1>2. ApartHeld' /\ ResumersIdle' /\ SeenWaits' /\ OwedOff' /\ LetGoSettled' /\ NoneUnseen'
  BY DEF TypeOK, ApartHeld, ResumersIdle, SeenWaits, OwedOff, LetGoSettled, NoneUnseen
<1> QED
  BY <1>1, <1>2

(* What runs is owed nothing.                                              *)
LEMMA NextWaitingKeeps ==
  ASSUME SignOutInv, NEW t \in Resumer, NextWaiting(t)
  PROVE  SignOutInv'
<1> USE DEF SignOutInv, NextWaiting, Goto, leaverVars, sessionVars, waitingVars
<1>1. TypeOK'
  BY DEF TypeOK
<1>2. LetGoSettled'
  BY DEF TypeOK, OwedOff, LetGoSettled
<1>3. ApartHeld' /\ ResumersIdle' /\ SeenWaits' /\ OwedOff' /\ NoneUnseen'
  BY DEF TypeOK, ApartHeld, ResumersIdle, SeenWaits, OwedOff, NoneUnseen
<1> QED
  BY <1>1, <1>2, <1>3

LEMMA TakeToResumeKeeps ==
  ASSUME SignOutInv, NEW t \in Resumer, TakeToResume(t)
  PROVE  SignOutInv'
<1> USE DEF SignOutInv, TakeToResume, Goto, Take, leaverVars, resumerVars, sessionVars, waitingVars
<1>1. TypeOK'
  BY ThreadAssumption DEF TypeOK
<1>2. ApartHeld' /\ ResumersIdle' /\ SeenWaits' /\ OwedOff' /\ LetGoSettled' /\ NoneUnseen'
  BY DEF TypeOK, ApartHeld, ResumersIdle, SeenWaits, OwedOff, LetGoSettled, NoneUnseen
<1> QED
  BY <1>1, <1>2

LEMMA ResumeKeeps ==
  ASSUME SignOutInv, NEW t \in Resumer, Resume(t)
  PROVE  SignOutInv'
<1> USE DEF SignOutInv, Resume, Goto, Release, Settled, leaverVars, resumerVars, sessionVars, waitingVars
<1>1. current[t] \in Session
  BY DEF LetGoSettled
<1>2. TypeOK' /\ OwedOff'
  <2>1. CASE StartSession(current[t])
    <3>1. TypeOK'
      BY <1>1, <2>1, Starts, ThreadAssumption DEF TypeOK
    <3>2. OwedOff'
      BY <1>1, <2>1, Starts DEF TypeOK, OwedOff
    <3> QED
      BY <3>1, <3>2
  <2>2. CASE UNCHANGED sessionVars
    <3>1. TypeOK'
      BY <2>2, ThreadAssumption DEF TypeOK
    <3>2. OwedOff'
      BY <1>1, <2>2 DEF TypeOK, OwedOff
    <3> QED
      BY <3>1, <3>2
  <2> QED
    BY <2>1, <2>2
<1>3. ApartHeld' /\ ResumersIdle' /\ SeenWaits' /\ LetGoSettled' /\ NoneUnseen'
  BY <1>1, Starts DEF TypeOK, ApartHeld, ResumersIdle, SeenWaits, LetGoSettled, NoneUnseen
<1> QED
  BY <1>2, <1>3

(* What is let go of is owed nothing.                                      *)
LEMMA LetGoKeeps ==
  ASSUME SignOutInv, NEW t \in Resumer, LetGo(t)
  PROVE  SignOutInv'
<1> USE DEF SignOutInv, LetGo, Goto, leaverVars, sessionVars
<1>1. /\ (waiting \ {current[t]}) \cup lost \subseteq waiting' \cup lost'
      /\ waiting' \in SUBSET Session /\ lost' \in SUBSET (Session \ waiting')
      /\ kept' \in SUBSET waiting'
      /\ counts' \in [outs : 0 .. MaxSignOuts, ins : 0 .. MaxSignIns, starts : 0 .. MaxStarts,
                      failures : 0 .. MaxMishaps, crashes : 0 .. MaxMishaps]
  <2>1. waiting \ {current[t]} \in SUBSET Session /\ {} \in SUBSET Session
    BY DEF TypeOK
  <2>2. Rewrite(waiting \ {current[t]}, {})
    OBVIOUS
  <2> QED
    BY <2>1, <2>2, Rewritten
<1>2. TypeOK'
  BY <1>1 DEF TypeOK
<1>3. ApartHeld'
  BY <1>1 DEF TypeOK, ApartHeld, LetGoSettled
<1>4. SeenWaits'
  BY DEF TypeOK, SeenWaits, ResumersIdle
<1>5. ResumersIdle' /\ OwedOff' /\ LetGoSettled' /\ NoneUnseen'
  BY DEF TypeOK, ResumersIdle, OwedOff, LetGoSettled, NoneUnseen
<1> QED
  BY <1>2, <1>3, <1>4, <1>5

(* What another account's sessions lose this one's, they are lost.         *)
LEMMA OtherAccountKeeps ==
  ASSUME SignOutInv, OtherAccount
  PROVE  SignOutInv'
<1> USE DEF SignOutInv, OtherAccount, leaverVars, resumerVars, sessionVars
<1>1. /\ waiting \cup lost \subseteq waiting' \cup lost'
      /\ waiting' \in SUBSET Session /\ lost' \in SUBSET (Session \ waiting')
      /\ kept' \in SUBSET waiting'
      /\ counts' \in [outs : 0 .. MaxSignOuts, ins : 0 .. MaxSignIns, starts : 0 .. MaxStarts,
                      failures : 0 .. MaxMishaps, crashes : 0 .. MaxMishaps]
  BY Rewritten DEF TypeOK
<1>2. TypeOK'
  BY <1>1 DEF TypeOK
<1>3. ApartHeld' /\ SeenWaits'
  BY <1>1 DEF TypeOK, ApartHeld, SeenWaits
<1>4. ResumersIdle' /\ OwedOff' /\ LetGoSettled' /\ NoneUnseen'
  BY DEF TypeOK, ResumersIdle, OwedOff, LetGoSettled, NoneUnseen
<1> QED
  BY <1>2, <1>3, <1>4

LEMMA AllSeenToKeeps ==
  ASSUME SignOutInv, NEW t \in Resumer, AllSeenTo(t)
  PROVE  SignOutInv'
<1> USE DEF SignOutInv, AllSeenTo, Goto, leaverVars, resumerVars, sessionVars, waitingVars
<1>1. TypeOK'
  BY DEF TypeOK
<1>2. ApartHeld' /\ ResumersIdle' /\ SeenWaits' /\ OwedOff' /\ LetGoSettled' /\ NoneUnseen'
  BY DEF TypeOK, ApartHeld, ResumersIdle, SeenWaits, OwedOff, LetGoSettled, NoneUnseen
<1> QED
  BY <1>1, <1>2

LEMMA StartOtherKeeps ==
  ASSUME SignOutInv, NEW s \in Session, StartOther(s)
  PROVE  SignOutInv'
<1> USE DEF SignOutInv, StartOther, Settled, leaverVars, resumerVars, waitingVars
<1>1. TypeOK'
  BY CountsTyped, Starts DEF TypeOK
<1>2. OwedOff'
  BY Starts DEF TypeOK, OwedOff
<1>3. NoneUnseen'
  BY Starts, ThreadAssumption DEF TypeOK, NoneUnseen
<1>4. ApartHeld' /\ ResumersIdle' /\ SeenWaits' /\ LetGoSettled'
  BY DEF TypeOK, ApartHeld, ResumersIdle, SeenWaits, LetGoSettled
<1> QED
  BY <1>1, <1>2, <1>3, <1>4

LEMMA RegisterKeeps ==
  ASSUME SignOutInv, NEW s \in Session, Register(s)
  PROVE  SignOutInv'
<1> USE DEF SignOutInv, Register, leaverVars, resumerVars, waitingVars
<1>1. TypeOK'
  BY DEF TypeOK
<1>2. ApartHeld' /\ ResumersIdle' /\ SeenWaits' /\ OwedOff' /\ LetGoSettled' /\ NoneUnseen'
  BY DEF TypeOK, ApartHeld, ResumersIdle, SeenWaits, OwedOff, LetGoSettled, NoneUnseen
<1> QED
  BY <1>1, <1>2

LEMMA EndKeeps ==
  ASSUME SignOutInv, NEW s \in Session, End(s)
  PROVE  SignOutInv'
<1> USE DEF SignOutInv, End, leaverVars, resumerVars, waitingVars
<1>1. TypeOK'
  BY DEF TypeOK
<1>2. ApartHeld' /\ ResumersIdle' /\ SeenWaits' /\ OwedOff' /\ LetGoSettled' /\ NoneUnseen'
  BY DEF TypeOK, ApartHeld, ResumersIdle, SeenWaits, OwedOff, LetGoSettled, NoneUnseen
<1> QED
  BY <1>1, <1>2

(* No sign-out that a sign-in gets between is taken for one left in peace. *)
LEMMA SignInKeeps ==
  ASSUME SignOutInv, SignIn
  PROVE  SignOutInv'
<1> USE DEF SignOutInv, SignIn, Goto, leaverVars, resumerVars, sessionVars, waitingVars
<1>1. pc' = pc \/ \E r \in Resumer : pc[r] = "idle" /\ pc' = [pc EXCEPT ![r] = "read"]
  OBVIOUS
<1>2. /\ \A t \in Leaver : pc'[t] = pc[t]
      /\ \A r \in Resumer : pc'[r] = pc[r] \/ pc'[r] = "read"
  BY <1>1, ThreadAssumption DEF TypeOK
<1>3. TypeOK'
  <2>1. pc' \in [Thread -> {"idle", "lock", "hold", "stop", "logout", "done", "read", "next",
                           "resume", "start", "letGo"}]
    BY <1>1 DEF TypeOK
  <2>2. counts' \in [outs : 0 .. MaxSignOuts, ins : 0 .. MaxSignIns, starts : 0 .. MaxStarts,
                    failures : 0 .. MaxMishaps, crashes : 0 .. MaxMishaps]
    <3>1. CASE counts' = [counts EXCEPT !.ins = @ + 1]
      BY <3>1, CountsTyped
    <3>2. CASE /\ counts.failures + counts.crashes < MaxMishaps
               /\ counts' = [counts EXCEPT !.ins = @ + 1, !.failures = @ + 1]
      BY <3>2, CountsTyped DEF MayFail
    <3> QED
      BY <3>1, <3>2 DEF MayFail
  <2>3. \A t \in Thread : pc'[t] \in {"hold", "stop", "logout", "done", "start"} => lock' = t
    BY <1>2 DEF TypeOK
  <2> QED
    BY <2>1, <2>2, <2>3 DEF TypeOK
<1>4. ResumersIdle'
  BY <1>2 DEF TypeOK, ResumersIdle
<1>5. ApartHeld' /\ SeenWaits' /\ OwedOff' /\ LetGoSettled' /\ NoneUnseen'
  BY <1>2 DEF TypeOK, ApartHeld, SeenWaits, OwedOff, LetGoSettled, NoneUnseen
<1> QED
  BY <1>3, <1>4, <1>5

(* A kill forgets every sign-out and resumer; the files and windows stay. *)
LEMMA CrashKeeps ==
  ASSUME SignOutInv, Crash
  PROVE  SignOutInv'
<1> USE DEF SignOutInv, Crash, sessionVars, waitingVars
<1>1. TypeOK'
  BY CountsTyped DEF TypeOK
<1>2. ApartHeld' /\ OwedOff'
  BY DEF ApartHeld, OwedOff
<1>3. ResumersIdle' /\ SeenWaits' /\ LetGoSettled' /\ NoneUnseen'
  BY DEF ResumersIdle, SeenWaits, LetGoSettled, NoneUnseen
<1> QED
  BY <1>1, <1>2, <1>3
------------------------------------------------------------------------------
LEMMA InvInit == Init => SignOutInv
<1> SUFFICES ASSUME Init PROVE SignOutInv
  OBVIOUS
<1>1. TypeOK
  BY BoundsAssumption DEF Init, TypeOK
<1> QED
  BY <1>1 DEF Init, SignOutInv, ApartHeld, ResumersIdle, SeenWaits, OwedOff, LetGoSettled, NoneUnseen

LEMMA InvNext == SignOutInv /\ [Next]_vars => SignOutInv'
<1> SUFFICES ASSUME SignOutInv, [Next]_vars PROVE SignOutInv'
  OBVIOUS
<1>1. ASSUME NEW t \in Leaver, AskSignOut(t) \/ Serve(t) PROVE SignOutInv'
  BY <1>1, AskSignOutKeeps, LockAndLookKeeps, HoldKeeps, StopOneKeeps, SignOutFailsKeeps,
     AllStoppedKeeps, AuthLogoutKeeps, AnswerKeeps DEF Serve
<1>2. ASSUME NEW t \in Resumer, SeeTo(t) PROVE SignOutInv'
  BY <1>2, ReadWaitingKeeps, NextWaitingKeeps, TakeToResumeKeeps, ResumeKeeps, LetGoKeeps,
     AllSeenToKeeps DEF SeeTo
<1>3. ASSUME NEW s \in Session, StartOther(s) \/ Register(s) \/ End(s) PROVE SignOutInv'
  BY <1>3, StartOtherKeeps, RegisterKeeps, EndKeeps
<1>4. CASE SignIn
  BY <1>4, SignInKeeps
<1>5. CASE OtherAccount \/ Crash
  BY <1>5, OtherAccountKeeps, CrashKeeps
<1>6. CASE UNCHANGED vars
  BY <1>6 DEF SignOutInv, TypeOK, ApartHeld, ResumersIdle, SeenWaits, OwedOff, LetGoSettled,
              NoneUnseen, vars, leaverVars, resumerVars, sessionVars, waitingVars
<1> QED
  BY <1>1, <1>2, <1>3, <1>4, <1>5, <1>6 DEF Next

LEMMA InvAlways == Spec => []SignOutInv
<1>1. Init => SignOutInv
  BY InvInit
<1>2. SignOutInv /\ [Next]_vars => SignOutInv'
  BY InvNext
<1> QED
  BY <1>1, <1>2, PTL DEF Spec
------------------------------------------------------------------------------
(* What a sign-out that nothing raced stopped waits on the next sign-in,   *)
(* through failures, further sign-outs and kills, for any number of        *)
(* sessions and threads (logout, hold_for_sign_in, resume_pending).        *)
THEOREM ApartAlwaysHeld == Spec => []ApartHeld
<1>1. SignOutInv => ApartHeld
  BY DEF SignOutInv
<1> QED
  BY <1>1, InvAlways, PTL

(* Only the step that signs out leaves the account signed out, and then    *)
(* nothing runs that had registered when the sign-out looked (logout).     *)
THEOREM NothingEverLeftRunning == Spec => NothingLeftRunning
<1>1. SignOutInv /\ [Next]_vars => [signedIn /\ ~signedIn' => running \subseteq late]_vars
  <2> SUFFICES ASSUME SignOutInv, [Next]_vars, signedIn, ~signedIn'
               PROVE  running \subseteq late
    OBVIOUS
  <2>1. PICK t \in Leaver : AuthLogout(t)
    BY DEF Next, Serve, SeeTo, AskSignOut, LockAndLook, Hold, StopOne, SignOutFails, AllStopped,
           Answer, SignIn, ReadWaiting, NextWaiting, TakeToResume, Resume, LetGo, AllSeenTo,
           StartOther, Register, End, OtherAccount, Crash, vars, waitingVars
  <2> QED
    BY <2>1 DEF AuthLogout, SignOutInv, NoneUnseen
<1> QED
  BY <1>1, InvAlways, PTL DEF Spec, NothingLeftRunning

(* A behaviour of MCServed is one of SignOut: another part's steps leave   *)
(* sessions, sign-ins and what waits on them as they are.                  *)
LEMMA ServedRunsSignOut == ServedSpec => Spec
<1>1. ServedInit => Init
  BY DEF ServedInit
<1>2. [ServedNext]_<<part, vars, requestVars, windowVars>> => [Next]_vars
  BY DEF ServedNext
<1> QED
  BY <1>1, <1>2, PTL DEF ServedSpec, Spec

(* So what a sign-out stopped waits on the next sign-in, and a sign-out    *)
(* leaves nothing running that it could see, on a host as well.            *)
THEOREM ServedKeepsSignOuts == ServedSpec => []ApartHeld /\ NothingLeftRunning
BY ServedRunsSignOut, ApartAlwaysHeld, NothingEverLeftRunning, PTL
------------------------------------------------------------------------------
(***************************************************************************)
(* The trust prompt.  What a capture shows is the prompt as it is only     *)
(* when nothing is left to draw.  A screen is acted on when it equals the  *)
(* one before, so a half drawn one would have been captured twice, which   *)
(* Prompt!Captures excludes.                                               *)
(***************************************************************************)

(* Until Claude asks nothing is shown, and the server only looks.          *)
BareAtFirst ==
  claude = "starting" => pane = Prompt!Bare /\ watch.last = Prompt!Bare /\ watch.at # "press"

(* The prompt has the parts it is to have, the question first, and the     *)
(* answer that is selected.                                                *)
ShownAsIs ==
  claude = "asking" =>
    /\ pane.parts \subseteq Prompt!Full
    /\ pane.parts # {} => "question" \in pane.parts
    /\ "answers" \in pane.parts => pane.sel = selected

(* A screen captured with nothing left to draw is bare or full.            *)
SeenWhole ==
  claude = "asking" =>
    watch.drawing \/ watch.last = Prompt!Bare \/ watch.last.parts = Prompt!Full

(* The Enter that is about to be pressed is the one asked for.             *)
PressedAsAsked ==
  watch.at = "press" /\ watch.key = "Enter" /\ claude = "asking"
    => trust /\ ~warns /\ (unseen \/ selected = "yes")

PromptInv == /\ Prompt!TypeOK /\ BareAtFirst /\ ShownAsIs /\ SeenWhole
             /\ PressedAsAsked /\ Prompt!AnsweredAsAsked

USE DEF Prompt!Answers, Prompt!Parts, Prompt!request, Prompt!others

LEMMA BareTyped ==
  Prompt!Bare \in Prompt!Panes /\ Prompt!Bare.parts = {} /\ Prompt!Bare.older = "none"
BY DEF Prompt!Bare, Prompt!Panes

LEMMA InitPromptInv == ASSUME Prompt!Init PROVE PromptInv
<1> USE DEF Prompt!Init
<1>1. /\ Prompt!Watching \in Prompt!Watches /\ Prompt!Watching.last = Prompt!Bare
      /\ Prompt!Watching.at = "look" /\ Prompt!Watching.key = "none"
  BY BareTyped DEF Prompt!Watching, Prompt!Watches
<1>2. Prompt!TypeOK
  <2>1. redraws \in 0..MaxRedraws /\ typed \in 0..MaxTyped
    BY PromptAssumption
  <2> QED
    BY <1>1, <2>1, BareTyped DEF Prompt!TypeOK
<1>3. BareAtFirst /\ ShownAsIs /\ SeenWhole /\ PressedAsAsked /\ Prompt!AnsweredAsAsked
  BY <1>1 DEF BareAtFirst, ShownAsIs, SeenWhole, PressedAsAsked, Prompt!AnsweredAsAsked
<1> QED
  BY <1>2, <1>3 DEF PromptInv

(* What the server holds after it has looked, pressed and answered.        *)
LEMMA Looks ==
  ASSUME Prompt!TypeOK
  PROVE  /\ Prompt!Seen \in Prompt!Watches
         /\ Prompt!Seen.at = watch.at /\ Prompt!Seen.key = watch.key
         /\ Prompt!Seen.last = pane /\ Prompt!Seen.drawing = Prompt!Drawing
BY DEF Prompt!TypeOK, Prompt!Watches, Prompt!Seen, Prompt!Drawing

LEMMA Pressing ==
  ASSUME Prompt!TypeOK, NEW key \in {"Down", "Enter"}, Prompt!Presses(key)
  PROVE  /\ watch' \in Prompt!Watches /\ watch'.at = "press" /\ watch'.key = key
         /\ watch'.last = pane /\ watch'.drawing = Prompt!Drawing
BY Looks DEF Prompt!Watches, Prompt!Presses

LEMMA Saying ==
  ASSUME Prompt!TypeOK, Prompt!Says("registered") \/ Prompt!Says("exited")
    \/ Prompt!Says("trustPrompt") \/ Prompt!Says("trustPermissions") \/ Prompt!Says("waiting")
  PROVE  /\ watch' \in Prompt!Watches /\ watch'.at = "done"
         /\ watch'.last = watch.last /\ watch'.drawing = watch.drawing
BY DEF Prompt!TypeOK, Prompt!Watches, Prompt!Says

(* A new copy of the prompt has nothing of it yet.                         *)
LEMMA RedrawnBare ==
  ASSUME Prompt!TypeOK, Prompt!Redrawn
  PROVE  pane' \in Prompt!Panes /\ pane'.parts = {}
BY DEF Prompt!TypeOK, Prompt!Redrawn, Prompt!Anew, Prompt!Panes, Prompt!Bare

(* A key that Claude takes while it asks selects another answer, or ends   *)
(* the prompt; otherwise it changes nothing.                               *)
LEMMA TakesOnly ==
  ASSUME Prompt!TypeOK, NEW key, Prompt!Takes(key)
  PROVE  /\ claude' \in {"starting", "asking", "past", "registered", "gone"}
         /\ selected' \in Prompt!Answers /\ pane' \in Prompt!Panes
         /\ claude # "asking" => claude' = claude /\ pane' = pane /\ selected' = selected
         /\ claude = "asking" => claude' # "starting"
         /\ claude = "asking" /\ claude' = "asking" => pane'.parts = {} /\ key # "Enter"
<1>1. CASE claude # "asking"
  BY <1>1 DEF Prompt!Takes, Prompt!TypeOK
<1>2. CASE claude = "asking" /\ key = "Down" /\ claude' = claude
            /\ selected' \in Prompt!Answers /\ Prompt!Redrawn
  BY <1>2, RedrawnBare
<1>3. CASE claude = "asking" /\ key = "Enter" /\ claude' \in {"past", "gone"}
            /\ pane' = [Prompt!Bare EXCEPT !.older = pane.older] /\ selected' = selected
  BY <1>3 DEF Prompt!TypeOK, Prompt!Panes, Prompt!Bare
<1> QED
  BY <1>1, <1>2, <1>3 DEF Prompt!Takes

(* The server acts on a prompt that's shown in full.                       *)
LEMMA ActsOnFull ==
  ASSUME PromptInv, Prompt!Captures, Prompt!MayAnswer, claude = "asking"
  PROVE  pane.parts = Prompt!Full
         /\ Prompt!Latest(pane) = [parts |-> Prompt!Full, sel |-> selected]
<1> USE DEF PromptInv, ShownAsIs, SeenWhole
<1>1. "question" \in Prompt!Full /\ "answers" \in Prompt!Full
  BY DEF Prompt!Full
<1>2. Prompt!HasAnswers(pane) /\ pane = watch.last
  BY DEF Prompt!MayAnswer, Prompt!Drawn
<1>3. pane.parts = Prompt!Full
  <2> SUFFICES ASSUME pane.parts # Prompt!Full PROVE FALSE
    OBVIOUS
  <2>1. ~watch.drawing
    BY DEF Prompt!Captures, Prompt!Drawing
  <2>2. pane = Prompt!Bare
    BY <1>2, <2>1
  <2> QED
    BY <1>2, <2>2, BareTyped DEF Prompt!HasAnswers
<1>4. pane.sel = selected
  BY <1>1, <1>3
<1>5. Prompt!Latest(pane) = [parts |-> pane.parts, sel |-> pane.sel]
  BY <1>1, <1>3 DEF Prompt!Latest
<1> QED
  BY <1>3, <1>4, <1>5

(* Claude's own steps, and what someone else types.                        *)
LEMMA ClaudeKeeps ==
  ASSUME PromptInv,
         \/ Prompt!Begin \/ Prompt!Draw \/ Prompt!Redraw
         \/ Prompt!Register \/ Prompt!Dies \/ Prompt!Typed
  PROVE  PromptInv'
<1> USE DEF PromptInv, Prompt!TypeOK, BareAtFirst, ShownAsIs, SeenWhole, PressedAsAsked,
            Prompt!AnsweredAsAsked
<1>1. CASE Prompt!Begin
  <2>1. Prompt!TypeOK' /\ BareAtFirst' /\ PressedAsAsked' /\ Prompt!AnsweredAsAsked'
    BY <1>1 DEF Prompt!Begin
  <2>2. ShownAsIs' /\ SeenWhole'
    BY <1>1, BareTyped DEF Prompt!Begin, Prompt!Full
  <2> QED
    BY <2>1, <2>2
<1>2. CASE Prompt!Draw
  <2>1. PICK piece \in Prompt!Full \ pane.parts :
          /\ piece = "question" \/ "question" \in pane.parts
          /\ pane' = [pane EXCEPT !.parts = @ \cup {piece},
                                  !.sel = IF piece = "answers" THEN selected ELSE @]
    BY <1>2 DEF Prompt!Draw
  <2>2. Prompt!Full \subseteq Prompt!Parts /\ Prompt!Full' = Prompt!Full
    BY <1>2 DEF Prompt!Draw, Prompt!Full
  <2>3. /\ pane' \in Prompt!Panes
        /\ pane'.parts = pane.parts \cup {piece}
        /\ pane'.sel = IF piece = "answers" THEN selected ELSE pane.sel
    BY <2>1, <2>2 DEF Prompt!Panes
  <2>4. Prompt!TypeOK' /\ BareAtFirst' /\ SeenWhole' /\ PressedAsAsked' /\ Prompt!AnsweredAsAsked'
    BY <1>2, <2>2, <2>3 DEF Prompt!Draw
  <2>5. ShownAsIs'
    BY <1>2, <2>1, <2>2, <2>3 DEF Prompt!Draw
  <2> QED
    BY <2>4, <2>5
<1>3. CASE Prompt!Redraw
  <2>1. redraws' \in 0..MaxRedraws
    BY <1>3, PromptAssumption DEF Prompt!Redraw
  <2> QED
    BY <1>3, <2>1, RedrawnBare DEF Prompt!Redraw, Prompt!Full
<1>4. CASE Prompt!Register \/ Prompt!Dies
  BY <1>4 DEF Prompt!Register, Prompt!Dies, Prompt!Full
<1>5. CASE Prompt!Typed
  <2>1. PICK key \in {"Down", "Enter"} : Prompt!Takes(key)
    BY <1>5 DEF Prompt!Typed
  <2>2. typed' \in 0..MaxTyped
    BY <1>5, PromptAssumption DEF Prompt!Typed
  <2> QED
    BY <1>5, <2>1, <2>2, TakesOnly DEF Prompt!Typed, Prompt!Full
<1> QED
  BY <1>1, <1>2, <1>3, <1>4, <1>5

(* The server's steps.                                                     *)
LEMMA ServerKeeps ==
  ASSUME PromptInv,
         \/ Prompt!Settles \/ Prompt!Reports \/ Prompt!Decides
         \/ Prompt!LooksAgain \/ Prompt!Press \/ Prompt!Expires
  PROVE  PromptInv'
<1> USE DEF PromptInv, Prompt!TypeOK, BareAtFirst, ShownAsIs, SeenWhole, PressedAsAsked,
            Prompt!AnsweredAsAsked
<1>1. CASE Prompt!Settles \/ Prompt!Reports \/ Prompt!Expires
  <2>1. /\ watch' \in Prompt!Watches /\ watch'.at = "done"
        /\ watch'.last = watch.last /\ watch'.drawing = watch.drawing
    BY <1>1, Saying DEF Prompt!Settles, Prompt!Reports, Prompt!Expires
  <2> QED
    BY <1>1, <2>1 DEF Prompt!Settles, Prompt!Reports, Prompt!Expires, Prompt!Full
<1>2. CASE Prompt!LooksAgain
  BY <1>2, Looks DEF Prompt!LooksAgain, Prompt!Captures, Prompt!Drawing, Prompt!Full
<1>3. CASE Prompt!Decides
  <2>1. claude # "starting"
    BY <1>3, BareTyped DEF Prompt!Decides, Prompt!MayAnswer, Prompt!Asks, Prompt!Latest
  <2>2. claude = "asking" => pane.parts = Prompt!Full
                             /\ Prompt!Latest(pane) = [parts |-> Prompt!Full, sel |-> selected]
    BY <1>3, ActsOnFull DEF Prompt!Decides
  <2>3. \/ Prompt!Presses("Enter") /\ Prompt!YesSelected(pane)
        \/ Prompt!Presses("Down")
        \/ watch' = Prompt!Seen
    BY <1>3 DEF Prompt!Decides
  <2>4. claude = "asking" /\ Prompt!YesSelected(pane) => trust /\ ~warns /\ selected = "yes"
    BY <1>3, <2>2 DEF Prompt!Decides, Prompt!YesSelected, Prompt!Full
  <2>5. /\ watch' \in Prompt!Watches
        /\ watch'.last = pane /\ watch'.drawing = Prompt!Drawing
        /\ watch'.at = "press" /\ watch'.key = "Enter" => Prompt!YesSelected(pane)
    BY <1>3, <2>3, Looks, Pressing DEF Prompt!Decides, Prompt!Captures
  <2> QED
    BY <1>3, <2>1, <2>2, <2>4, <2>5 DEF Prompt!Decides, Prompt!Drawing, Prompt!Full
<1>4. CASE Prompt!Press
  <2>1. /\ watch' \in Prompt!Watches /\ watch'.at = "look"
        /\ watch'.last = watch.last /\ watch'.drawing = watch.drawing
    BY <1>4 DEF Prompt!Press, Prompt!Watches
  <2>2. Prompt!Takes(watch.key)
    BY <1>4 DEF Prompt!Press
  <2> QED
    BY <1>4, <2>1, <2>2, TakesOnly DEF Prompt!Press, Prompt!Full
<1> QED
  BY <1>1, <1>2, <1>3, <1>4

LEMMA PromptAlways == ServedSpec => [](AtPrompt => PromptInv)
<1> DEFINE I == AtPrompt => PromptInv
<1>1. ServedInit => I
  BY InitPromptInv DEF ServedInit, AtPrompt, SigningOut, Requested
<1>2. I /\ [ServedNext]_<<part, vars, requestVars, windowVars>> => I'
  <2> SUFFICES ASSUME I, [ServedNext]_<<part, vars, requestVars, windowVars>>, AtPrompt'
      PROVE PromptInv'
    OBVIOUS
  <2>1. AtPrompt /\ PromptInv
    BY DEF ServedNext, AtPrompt
  <2>2. CASE Prompt!Next
    BY <2>1, <2>2, ClaudeKeeps, ServerKeeps DEF Prompt!Next
  <2>3. CASE UNCHANGED windowVars
    BY <2>1, <2>3 DEF windowVars, PromptInv, Prompt!TypeOK, BareAtFirst, ShownAsIs, SeenWhole,
                PressedAsAsked, Prompt!AnsweredAsAsked, Prompt!Full
  <2> QED
    BY <2>1, <2>2, <2>3 DEF ServedNext, AtPrompt, SigningOut, Requested
<1> QED
  BY <1>1, <1>2, PTL DEF ServedSpec

(* Claude is given "yes", and only when it may be and the folder's         *)
(* settings pre-approve nothing, unless someone typed between the server's *)
(* look and its key.                                                       *)
THEOREM AlwaysSettledRight == ServedSpec => []SettledRight
<1>1. (AtPrompt => PromptInv) => SettledRight
  BY DEF PromptInv, SettledRight
<1> QED
  BY <1>1, PromptAlways, PTL

(***************************************************************************)
(* Types.  What AccountSessionsProofs says of any number of accounts it    *)
(* says of the two here: Proved's actions are those of OnSessions.         *)
(***************************************************************************)
Proved == INSTANCE AccountSessionsProofs WITH
  NAccounts <- 2, Session <- Moved, OldSession <- Moved, Served <- {"restart", "transfer"},
  MoveOptions <- [stopFirst : BOOLEAN, confirm : {FALSE}, after : {"delete"}, resume : {TRUE}],
  MaxRequests <- 2, MaxCrashes <- 0, RemainOnExit <- TRUE, OwnTerminals <- FALSE,
  MoveToSelf <- FALSE, pc <- place

(* What it assumes of its constants. *)
LEMMA Assumed ==
  /\ 2 \in Nat \ {0} /\ Moved \subseteq Moved /\ Moved # {}
  /\ NoWindow \notin Window /\ NoWorker \notin Worker
  /\ 2 \in Nat /\ 0 \in Nat /\ TRUE \in BOOLEAN /\ FALSE \in BOOLEAN
  /\ {"restart", "transfer"} \subseteq Proved!Op \ {"none"}
  /\ [stopFirst : BOOLEAN, confirm : {FALSE}, after : {"delete"}, resume : {TRUE}]
       \subseteq Proved!Options
<1>1. {"restart", "transfer"} \subseteq Proved!Op \ {"none"}
  BY DEF Proved!Op
<1>2. [stopFirst : BOOLEAN, confirm : {FALSE}, after : {"delete"}, resume : {TRUE}]
        \subseteq Proved!Options
  BY DEF Proved!Options, Proved!Afterwards
<1>3. TRUE \in BOOLEAN /\ FALSE \in BOOLEAN
  OBVIOUS
<1>4. 2 \in Nat \ {0} /\ 2 \in Nat /\ 0 \in Nat /\ Moved \subseteq Moved
  OBVIOUS
<1> QED
  BY <1>1, <1>2, <1>3, <1>4, MovedAssumption

LEMMA SameTypes == Proved!TypeOK <=> OnSessions!TypeOK
BY DEF OnSessions!Account, OnSessions!Op, OnSessions!Afterwards,
       OnSessions!Options, OnSessions!Job, OnSessions!PaneState,
       OnSessions!Tag, OnSessions!WindowRecord, OnSessions!Place,
       OnSessions!TypeOK, Proved!Account, Proved!Op, Proved!Afterwards,
       Proved!Options, Proved!Job, Proved!PaneState, Proved!Tag,
       Proved!WindowRecord, Proved!Place, Proved!TypeOK

LEMMA SameFirst == Proved!Init <=> OnSessions!Init
BY DEF OnSessions!Account, OnSessions!AnySession, OnSessions!NoOptions,
       OnSessions!Asks, OnSessions!NoJob, OnSessions!Closed,
       OnSessions!NoAnswer, OnSessions!Init, Proved!Account, Proved!AnySession,
       Proved!NoOptions, Proved!Asks, Proved!NoJob, Proved!Closed,
       Proved!NoAnswer, Proved!Init

(* Each action is the one it is there. *)
LEMMA SameRequests ==
  ASSUME NEW w \in Worker
  PROVE  /\ Proved!Begin(w) <=> OnSessions!Begin(w)
         /\ Proved!TakeLock(w) <=> OnSessions!TakeLock(w)
         /\ Proved!TakeSecondLock(w) <=> OnSessions!TakeSecondLock(w)
         /\ Proved!Finish(w) <=> OnSessions!Finish(w)
BY DEF OnSessions!Account, OnSessions!hostVars, OnSessions!fileVars,
       OnSessions!boundVars, OnSessions!AnySession, OnSessions!NoOptions,
       OnSessions!Asks, OnSessions!NoJob, OnSessions!Lower, OnSessions!Higher,
       OnSessions!HasCopy, OnSessions!Open, OnSessions!Known, OnSessions!Goto,
       OnSessions!Requested, OnSessions!Begin, OnSessions!FirstStep,
       OnSessions!TakeLock, OnSessions!TakeSecondLock, OnSessions!Finish,
       Proved!Account, Proved!hostVars, Proved!fileVars, Proved!boundVars,
       Proved!AnySession, Proved!NoOptions, Proved!Asks, Proved!NoJob,
       Proved!Lower, Proved!Higher, Proved!HasCopy, Proved!Open, Proved!Known,
       Proved!Goto, Proved!Requested, Proved!Begin, Proved!FirstStep,
       Proved!TakeLock, Proved!TakeSecondLock, Proved!Finish

LEMMA SameStops ==
  ASSUME NEW w \in Worker
  PROVE  /\ Proved!StopRunning(w) <=> OnSessions!StopRunning(w)
         /\ Proved!StopFails(w) <=> OnSessions!StopFails(w)
         /\ Proved!StopNotRunning(w) <=> OnSessions!StopNotRunning(w)
         /\ Proved!LookAgain(w) <=> OnSessions!LookAgain(w)
         /\ Proved!ListWaiting(w) <=> OnSessions!ListWaiting(w)
         /\ Proved!CloseWaiting(w) <=> OnSessions!CloseWaiting(w)
BY DEF OnSessions!Account, OnSessions!hostVars, OnSessions!fileVars,
       OnSessions!boundVars, OnSessions!AnySession, OnSessions!Closed,
       OnSessions!Open, OnSessions!Registered, OnSessions!Running,
       OnSessions!Tagged, OnSessions!Hidden, OnSessions!WaitingWindows,
       OnSessions!Forgotten, OnSessions!Goto, OnSessions!Stopped,
       OnSessions!Left, OnSessions!StopRunning, OnSessions!StopFails,
       OnSessions!StopNotRunning, OnSessions!LookAgain, OnSessions!ListWaiting,
       OnSessions!CloseWaiting, Proved!Account, Proved!hostVars,
       Proved!fileVars, Proved!boundVars, Proved!AnySession, Proved!Closed,
       Proved!Open, Proved!Registered, Proved!Running, Proved!Tagged,
       Proved!Hidden, Proved!WaitingWindows, Proved!Forgotten, Proved!Goto,
       Proved!Stopped, Proved!Left, Proved!StopRunning, Proved!StopFails,
       Proved!StopNotRunning, Proved!LookAgain, Proved!ListWaiting,
       Proved!CloseWaiting

LEMMA SameStarts ==
  ASSUME NEW w \in Worker
  PROVE  /\ Proved!Find(w) <=> OnSessions!Find(w)
         /\ Proved!FindTagged(w) <=> OnSessions!FindTagged(w)
         /\ Proved!OpenWindow(w) <=> OnSessions!OpenWindow(w)
         /\ Proved!OpenFails(w) <=> OnSessions!OpenFails(w)
         /\ Proved!TagWindow(w) <=> OnSessions!TagWindow(w)
         /\ Proved!Settle(w) <=> OnSessions!Settle(w)
BY DEF OnSessions!Account, OnSessions!hostVars, OnSessions!fileVars,
       OnSessions!boundVars, OnSessions!Open, OnSessions!Registered,
       OnSessions!NoAnswer, OnSessions!Running, OnSessions!Tagged,
       OnSessions!Hidden, OnSessions!Tag, OnSessions!Goto, OnSessions!Find,
       OnSessions!FindTagged, OnSessions!OpenWindow, OnSessions!OpenFails,
       OnSessions!TagWindow, OnSessions!Settle, Proved!Account,
       Proved!hostVars, Proved!fileVars, Proved!boundVars, Proved!Open,
       Proved!Registered, Proved!NoAnswer, Proved!Running, Proved!Tagged,
       Proved!Hidden, Proved!Tag, Proved!Goto, Proved!Find, Proved!FindTagged,
       Proved!OpenWindow, Proved!OpenFails, Proved!TagWindow, Proved!Settle

LEMMA SameMoves ==
  ASSUME NEW w \in Worker
  PROVE  /\ Proved!PlanMove(w) <=> OnSessions!PlanMove(w)
         /\ Proved!PlanAgain(w) <=> OnSessions!PlanAgain(w)
         /\ Proved!CopySession(w) <=> OnSessions!CopySession(w)
         /\ Proved!TakeOut(w) <=> OnSessions!TakeOut(w)
BY DEF OnSessions!Account, OnSessions!hostVars, OnSessions!fileVars,
       OnSessions!boundVars, OnSessions!Registered, OnSessions!Running,
       OnSessions!Goto, OnSessions!RunningIn, OnSessions!Decided,
       OnSessions!PlanMove, OnSessions!PlanAgain, OnSessions!AfterMove,
       OnSessions!CopySession, OnSessions!TakeOut, Proved!Account,
       Proved!hostVars, Proved!fileVars, Proved!boundVars, Proved!Registered,
       Proved!Running, Proved!Goto, Proved!RunningIn, Proved!Decided,
       Proved!PlanMove, Proved!PlanAgain, Proved!AfterMove, Proved!CopySession,
       Proved!TakeOut

LEMMA SameHost ==
  /\ Proved!Host <=> OnSessions!Host
  /\ Proved!Crash <=> OnSessions!Crash
BY DEF OnSessions!Account, OnSessions!hostVars, OnSessions!fileVars,
       OnSessions!boundVars, OnSessions!workerVars, OnSessions!AnySession,
       OnSessions!NoOptions, OnSessions!Asks, OnSessions!NoJob,
       OnSessions!Closed, OnSessions!Left, OnSessions!Registered,
       OnSessions!NoAnswer, OnSessions!Forgotten, OnSessions!Register,
       OnSessions!Write, OnSessions!Exit, OnSessions!CloseExited,
       OnSessions!OpenOutside, OnSessions!CloseOutside, OnSessions!KeepAnswer,
       OnSessions!AnswerExpires, OnSessions!Crash, OnSessions!Host,
       Proved!Account, Proved!hostVars, Proved!fileVars, Proved!boundVars,
       Proved!workerVars, Proved!AnySession, Proved!NoOptions, Proved!Asks,
       Proved!NoJob, Proved!Closed, Proved!Left, Proved!Registered,
       Proved!NoAnswer, Proved!Forgotten, Proved!Register, Proved!Write,
       Proved!Exit, Proved!CloseExited, Proved!OpenOutside,
       Proved!CloseOutside, Proved!KeepAnswer, Proved!AnswerExpires,
       Proved!Crash, Proved!Host

LEMMA SameNext == Proved!Next <=> OnSessions!Next
BY SameRequests, SameStops, SameStarts, SameMoves, SameHost
   DEF Proved!Next, OnSessions!Next, Proved!Serve, OnSessions!Serve

SessionsTyped == OnSessions!TypeOK /\ Proved!JobsInOrder

LEMMA SessionsStart == OnSessions!Init => SessionsTyped
<1>1. Proved!Init => Proved!TypeOK /\ Proved!JobsInOrder
  BY Assumed, Proved!InitInvariant
<1> QED
  BY <1>1, SameFirst, SameTypes DEF SessionsTyped

LEMMA SessionsStep ==
  SessionsTyped /\ (OnSessions!Next \/ UNCHANGED requestVars) => SessionsTyped'
<1>1. Proved!TypeOK /\ Proved!JobsInOrder /\ [Proved!Next]_(Proved!vars)
        => Proved!TypeOK' /\ Proved!JobsInOrder'
  BY Assumed, Proved!TypeStep
<1>2. UNCHANGED requestVars => UNCHANGED Proved!vars
  BY DEF requestVars, Proved!vars, Proved!workerVars, Proved!hostVars, Proved!fileVars,
         Proved!boundVars
<1>3. (Proved!TypeOK)' <=> (OnSessions!TypeOK)'
  BY SameTypes, PTL
<1> QED
  BY <1>1, <1>2, <1>3, SameNext, SameTypes DEF SessionsTyped

LEMMA SessionsAlways == ServedSpec => [](Requested => SessionsTyped)
<1> DEFINE I == Requested => SessionsTyped
<1>1. ServedInit => I
  BY SessionsStart DEF ServedInit, AtPrompt, SigningOut, Requested
<1>2. I /\ [ServedNext]_<<part, vars, requestVars, windowVars>> => I'
  <2> SUFFICES ASSUME I, [ServedNext]_<<part, vars, requestVars, windowVars>>, Requested'
      PROVE SessionsTyped'
    OBVIOUS
  <2>1. Requested /\ SessionsTyped
    BY DEF ServedNext, Requested
  <2>2. OnSessions!Next \/ UNCHANGED requestVars
    BY <2>1 DEF ServedNext, AtPrompt, SigningOut, Requested
  <2> QED
    BY <2>1, <2>2, SessionsStep
<1> QED
  BY <1>1, <1>2, PTL DEF ServedSpec

(* Every part's variables have their types, and a thread that serves a     *)
(* request on a session is at a step of that request (routes.rs, moves.rs).*)
THEOREM TypesAlwaysOK == ServedSpec => []TypesOK
<1>1. SignOutInv /\ (Requested => SessionsTyped) /\ (AtPrompt => PromptInv) => TypesOK
  BY DEF SignOutInv, SessionsTyped, PromptInv, TypesOK
<1> QED
  BY <1>1, ServedRunsSignOut, InvAlways, SessionsAlways, PromptAlways, PTL
===============================================================================
