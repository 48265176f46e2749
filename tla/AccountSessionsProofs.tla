------------------------ MODULE AccountSessionsProofs ------------------------
(***************************************************************************)
(* What holds of AccountSessions for any number of accounts, sessions,     *)
(* workers and windows.                                                    *)
(***************************************************************************)
EXTENDS AccountSessions, TLAPS

(* What every leaf needs of the constants. *)
LEMMA Constants ==
  /\ 1 \in Account
  /\ \A a \in Account : a \in Nat
  /\ AnySession \in Session
  /\ NoWorker \notin Worker
  /\ NoWindow \notin Window
  /\ OldSession \subseteq Session
  /\ MaxRequests \in Nat /\ MaxCrashes \in Nat
<1>1. \E s \in Session : TRUE
  BY SessionsAssumption
<1>2. AnySession \in Session
  BY <1>1 DEF AnySession
<1> QED
  BY <1>2, AccountsAssumption, SessionsAssumption, WorkersAssumption, WindowsAssumption,
     BoundsAssumption DEF Account

(* The requests that arrive are well-formed ones; only a move names two    *)
(* accounts.                                                               *)
LEMMA RequestedAreJobs ==
  ASSUME NEW j \in Requested
  PROVE  /\ j \in Job
         /\ j.op # "none"
         /\ j.op # "transfer" => j.account = j.dest
<1>1. NoOptions \in Options
  BY DEF NoOptions, Options, Afterwards
<1>2. Served \subseteq Op \ {"none"} /\ MoveOptions \subseteq Options
  BY RequestsAssumption
<1>3. CASE \E op \in Served \ {"transfer"}, a \in Account, s \in Session :
             j = Asks(op, a, a, s, NoOptions)
  BY <1>1, <1>2, <1>3 DEF Asks, Job
<1>4. CASE \E op \in Served \cap {"transfer"}, a \in Account, b \in Account, s \in Session,
              options \in MoveOptions : j = Asks(op, a, b, s, options)
  BY <1>2, <1>4 DEF Asks, Job
<1> QED
  BY <1>3, <1>4 DEF Requested

LEMMA FirstSteps ==
  /\ FirstStep["new"] = "open"
  /\ FirstStep["resume"] = "find"
  /\ FirstStep["stop"] = "stop"
  /\ FirstStep["restart"] = "stop"
  /\ FirstStep["transfer"] = "lock2"
BY DEF FirstStep

LEMMA NoJobIsJob == NoJob \in Job
BY Constants DEF NoJob, Asks, NoOptions, Job, Op, Options, Afterwards

LEMMA ClosedIsWindow == Closed \in WindowRecord /\ Closed.state = "closed"
BY Constants DEF Closed, WindowRecord, PaneState
------------------------------------------------------------------------------
(* Type correctness *)

LEMMA InitInvariant == Init => TypeOK /\ JobsInOrder
<1>1. Init => TypeOK
  BY Constants, NoJobIsJob, ClosedIsWindow DEF Init, TypeOK, Place, NoAnswer
<1>2. Init => JobsInOrder
  BY DEF Init, JobsInOrder, InOrder, NoJob, Asks, Starting, Stopping
<1> QED
  BY <1>1, <1>2

(* A step of one worker leaves the others where they are. *)
LEMMA OthersInOrder ==
  ASSUME JobsInOrder, NEW w \in Worker, InOrder(w)',
         \A v \in Worker \ {w} : pc'[v] = pc[v] /\ job'[v] = job[v] /\ target'[v] = target[v]
  PROVE  JobsInOrder'
BY DEF JobsInOrder, InOrder

(* Taking and giving back locks, and beginning and ending requests. *)
LEMMA TypeRequest ==
  ASSUME TypeOK, JobsInOrder, NEW w \in Worker,
         Begin(w) \/ TakeLock(w) \/ TakeSecondLock(w) \/ Finish(w)
  PROVE  TypeOK' /\ JobsInOrder'
<1> USE DEF TypeOK
<1>0. InOrder(w)
  BY DEF JobsInOrder
<1>1. CASE Begin(w)
  <2>1. PICK j \in Requested : /\ job' = [job EXCEPT ![w] = j]
                               /\ target' = [target EXCEPT ![w] = j.account]
    BY <1>1 DEF Begin
  <2>2. /\ j \in Job /\ j.account \in Account /\ j.op # "none"
        /\ j.op # "transfer" => j.account = j.dest
    BY RequestedAreJobs DEF Job
  <2>3. requests' \in 0 .. MaxRequests
    BY <1>1, Constants DEF Begin
  <2>4. TypeOK'
    BY <1>1, <2>1, <2>2, <2>3 DEF Begin, Goto, Place, hostVars, fileVars
  <2>5. InOrder(w)'
    BY <1>1, <2>1, <2>2 DEF Begin, Goto, InOrder, Starting, Stopping
  <2> QED
    BY <1>1, <2>1, <2>4, <2>5, OthersInOrder DEF Begin, Goto
<1>2. CASE TakeLock(w)
  <2>1. FirstStep[job[w].op] \in {"open", "find", "stop", "lock2"}
    BY <1>0, <1>2, FirstSteps DEF Job, Op, TakeLock, InOrder
  <2>2. Lower(job[w]) \in Account
    BY DEF Lower, Job
  <2>3. TypeOK'
    BY <1>2, <2>1, <2>2 DEF TakeLock, Goto, Place, hostVars, fileVars, boundVars
  <2>4. pc'[w] = FirstStep[job[w].op] /\ UNCHANGED <<job, target>>
    BY <1>2 DEF TakeLock, Goto
  <2>5. InOrder(w)'
    BY SMTT(30), <1>0, <1>2, <2>4, FirstSteps DEF TakeLock, Job, Op, InOrder, Starting, Stopping
  <2> QED
    BY <1>2, <2>3, <2>5, OthersInOrder DEF TakeLock, Goto
<1>3. CASE TakeSecondLock(w)
  <2>1. TypeOK'
    BY <1>3 DEF TakeSecondLock, Higher, Job, Goto, Place, hostVars, fileVars, boundVars
  <2>2. InOrder(w)'
    BY <1>0, <1>3 DEF TakeSecondLock, Goto, InOrder, Starting, Stopping
  <2> QED
    BY <1>3, <2>1, <2>2, OthersInOrder DEF TakeSecondLock, Goto
<1>4. CASE Finish(w)
  <2>1. TypeOK'
    BY <1>4, Constants, NoJobIsJob DEF Finish, Goto, Place, hostVars, fileVars, boundVars
  <2>2. InOrder(w)'
    BY <1>4 DEF Finish, Goto, InOrder, Starting, Stopping, NoJob, Asks
  <2> QED
    BY <1>4, <2>1, <2>2, OthersInOrder DEF Finish, Goto
<1> QED
  BY <1>1, <1>2, <1>3, <1>4

(* Where a worker goes once it has stopped a session. *)
LEMMA AfterStopping ==
  ASSUME TypeOK, JobsInOrder, NEW w \in Worker, NEW outcome \in BOOLEAN,
         pc[w] \in Stopping, Stopped(w, outcome), UNCHANGED job
  PROVE  /\ pc' \in [Worker -> Place]
         /\ target' \in [Worker -> Account]
         /\ todo' \in [Worker -> SUBSET Account]
         /\ pc'[w] \in {"done", "wasNotRunning", "find", "replan", "stop"}
         /\ \A v \in Worker \ {w} : pc'[v] = pc[v]
         /\ JobsInOrder'
<1>0. InOrder(w)
  BY DEF JobsInOrder
<1>1. CASE job[w].op = "stop"
  BY ZenonT(60), <1>0, <1>1, OthersInOrder DEF TypeOK, Stopped, Goto, Place, InOrder, Starting, Stopping
<1>2. CASE job[w].op = "restart"
  BY <1>0, <1>2, OthersInOrder DEF TypeOK, Stopped, Goto, Place, InOrder, Starting, Stopping
<1>3. CASE job[w].op = "transfer"
  <2>1. todo' \in [Worker -> SUBSET Account]
    BY <1>3 DEF TypeOK, Stopped
  <2>2. CASE todo[w] \subseteq {target[w]}
    BY <1>0, <1>3, <2>1, <2>2, OthersInOrder DEF TypeOK, Stopped, Goto, Place, InOrder, Starting, Stopping
  <2>3. CASE ~(todo[w] \subseteq {target[w]})
    <3>1. PICK a \in todo[w] \ {target[w]} : target' = [target EXCEPT ![w] = a]
      BY <1>3, <2>3 DEF Stopped
    <3>2. a \in Account
      BY <3>1 DEF TypeOK
    <3>3. pc' = [pc EXCEPT ![w] = "stop"]
      BY <1>3, <2>3 DEF Stopped, Goto
    <3> QED
      BY <1>0, <1>3, <2>1, <3>1, <3>2, <3>3, OthersInOrder DEF TypeOK, Place, InOrder, Starting, Stopping
  <2> QED
    BY <2>2, <2>3
<1> QED
  BY <1>0, <1>1, <1>2, <1>3 DEF InOrder, Stopping

LEMMA ForgottenType ==
  ASSUME TypeOK, NEW a \in Account, NEW s \in Session
  PROVE  Forgotten(a, s) \in [Account -> [kept : BOOLEAN, live : SUBSET Session]]
BY DEF Forgotten, TypeOK

(* Stopping a session, or a window it waits in. *)
LEMMA TypeStop ==
  ASSUME TypeOK, JobsInOrder, NEW w \in Worker,
         \/ StopRunning(w) \/ StopFails(w) \/ StopNotRunning(w)
         \/ LookAgain(w) \/ ListWaiting(w) \/ CloseWaiting(w)
  PROVE  TypeOK' /\ JobsInOrder'
<1>0. InOrder(w) /\ Closed \in WindowRecord
  BY ClosedIsWindow DEF JobsInOrder
<1>1. CASE StopRunning(w)
  <2>1. JobsInOrder' /\ pc' \in [Worker -> Place] /\ target' \in [Worker -> Account]
        /\ todo' \in [Worker -> SUBSET Account]
    BY <1>1, AfterStopping DEF StopRunning, Stopping
  <2>2. tmux' \in [Window -> WindowRecord] /\ outside' \in SUBSET (Account \X Session)
    <3>1. \A n \in Window : tmux[n] \in WindowRecord => Left(n) \in WindowRecord
      BY <1>0 DEF Left, WindowRecord, PaneState
    <3>2. \A n \in Window : Left(n) \in WindowRecord
      BY <3>1 DEF TypeOK
    <3> QED
      BY <1>0, <1>1, <3>2 DEF StopRunning, TypeOK
  <2>3. answer' \in [Account -> [kept : BOOLEAN, live : SUBSET Session]]
    BY <1>1, ForgottenType DEF StopRunning, TypeOK, Job
  <2> QED
    BY <1>1, <2>1, <2>2, <2>3 DEF StopRunning, TypeOK, fileVars, boundVars
<1>2. CASE StopFails(w)
  <2>1. TypeOK'
    BY <1>2 DEF StopFails, Goto, TypeOK, Place, hostVars, fileVars, boundVars
  <2>2. InOrder(w)'
    BY <1>0, <1>2 DEF StopFails, Goto, InOrder, Starting, Stopping, TypeOK
  <2> QED
    BY <1>2, <2>1, <2>2, OthersInOrder DEF StopFails, Goto, TypeOK
<1>3. CASE StopNotRunning(w)
  <2>1. TypeOK'
    BY <1>3 DEF StopNotRunning, Goto, TypeOK, Place, hostVars, fileVars, boundVars
  <2>2. InOrder(w)'
    BY <1>0, <1>3 DEF StopNotRunning, Goto, InOrder, Starting, Stopping, TypeOK
  <2> QED
    BY <1>3, <2>1, <2>2, OthersInOrder DEF StopNotRunning, Goto, TypeOK
<1>4. CASE LookAgain(w)
  <2>1. CASE job[w].session \in Running(target[w])
    <3>1. Stopped(w, FALSE) /\ UNCHANGED job /\ pc[w] \in Stopping
      BY <1>4, <2>1 DEF LookAgain, Stopping
    <3>2. JobsInOrder' /\ pc' \in [Worker -> Place] /\ target' \in [Worker -> Account]
          /\ todo' \in [Worker -> SUBSET Account]
      BY <3>1, AfterStopping
    <3> QED
      BY <1>4, <3>2 DEF LookAgain, TypeOK, hostVars, fileVars, boundVars
  <2>2. CASE ~(job[w].session \in Running(target[w]))
    <3>1. TypeOK'
      BY <1>4, <2>2 DEF LookAgain, Goto, TypeOK, Place, hostVars, fileVars, boundVars
    <3>2. InOrder(w)'
      BY <1>0, <1>4, <2>2 DEF LookAgain, Goto, InOrder, Starting, Stopping, TypeOK
    <3> QED
      BY <1>4, <2>2, <3>1, <3>2, OthersInOrder DEF LookAgain, Goto, TypeOK
  <2> QED
    BY <2>1, <2>2
<1>5. CASE ListWaiting(w)
  <2>1. CASE Stopped(w, FALSE) /\ UNCHANGED opened
    <3>1. UNCHANGED job /\ pc[w] \in Stopping
      BY <1>5 DEF ListWaiting, Stopping
    <3>2. JobsInOrder' /\ pc' \in [Worker -> Place] /\ target' \in [Worker -> Account]
          /\ todo' \in [Worker -> SUBSET Account]
      BY <2>1, <3>1, AfterStopping
    <3> QED
      BY <1>5, <2>1, <3>2 DEF ListWaiting, TypeOK, hostVars, fileVars, boundVars
  <2>2. CASE ~(Stopped(w, FALSE) /\ UNCHANGED opened)
    <3>1. opened' \in [Worker -> Window \cup {NoWindow}]
      BY <1>5, <2>2 DEF ListWaiting, WaitingWindows, Tagged, TypeOK
    <3>2. TypeOK'
      BY <1>5, <2>2, <3>1 DEF ListWaiting, Goto, TypeOK, Place, hostVars, fileVars, boundVars
    <3>3. InOrder(w)'
      BY <1>0, <1>5, <2>2 DEF ListWaiting, Goto, InOrder, Starting, Stopping, TypeOK
    <3> QED
      BY <1>5, <2>2, <3>2, <3>3, OthersInOrder DEF ListWaiting, Goto, TypeOK
  <2> QED
    BY <2>1, <2>2
<1>6. CASE CloseWaiting(w)
  <2>1. /\ pc[w] = "closeWaiting" /\ UNCHANGED job
        /\ \/ Stopped(w, TRUE)
           \/ Goto(w, "done") /\ UNCHANGED <<target, todo>>
    BY <1>6 DEF CloseWaiting
  <2>2. JobsInOrder' /\ pc' \in [Worker -> Place] /\ target' \in [Worker -> Account]
        /\ todo' \in [Worker -> SUBSET Account]
    <3>1. CASE Stopped(w, TRUE)
      BY <2>1, <3>1, AfterStopping DEF Stopping
    <3>2. CASE Goto(w, "done") /\ UNCHANGED <<target, todo>>
      <4>1. InOrder(w)'
        BY <1>0, <2>1, <3>2 DEF Goto, InOrder, Starting, Stopping, TypeOK
      <4>2. pc' \in [Worker -> Place]
        BY <3>2 DEF Goto, TypeOK, Place
      <4>3. \A v \in Worker \ {w} : pc'[v] = pc[v]
        BY <3>2 DEF Goto, TypeOK
      <4> QED
        BY <2>1, <3>2, <4>1, <4>2, <4>3, OthersInOrder DEF TypeOK
    <3> QED
      BY <2>1, <3>1, <3>2
  <2>3. tmux' \in [Window -> WindowRecord]
    <3>1. CASE tmux' = [tmux EXCEPT ![opened[w]] = Closed]
      BY <1>0, <3>1 DEF TypeOK
    <3> QED
      BY <1>6, <3>1 DEF CloseWaiting, TypeOK
  <2>4. answer' \in [Account -> [kept : BOOLEAN, live : SUBSET Session]]
    <3>1. target[w] \in Account /\ job[w].session \in Session
      BY DEF TypeOK, Job
    <3>2. answer' \in {answer, Forgotten(target[w], job[w].session)}
      BY <1>6 DEF CloseWaiting
    <3> QED
      BY <3>1, <3>2, ForgottenType DEF TypeOK
  <2>5. opened' \in [Worker -> Window \cup {NoWindow}]
    BY <1>6 DEF CloseWaiting, TypeOK
  <2> QED
    BY <1>6, <2>2, <2>3, <2>4, <2>5 DEF CloseWaiting, TypeOK, fileVars, boundVars
<1> QED
  BY <1>1, <1>2, <1>3, <1>4, <1>5, <1>6

(* Starting a session. *)
LEMMA TypeStart ==
  ASSUME TypeOK, JobsInOrder, NEW w \in Worker,
         \/ Find(w) \/ FindTagged(w) \/ OpenWindow(w) \/ OpenFails(w)
         \/ TagWindow(w) \/ Settle(w)
  PROVE  TypeOK' /\ JobsInOrder'
<1> USE DEF TypeOK
<1>0. InOrder(w)
  BY DEF JobsInOrder
<1>1. CASE Find(w)
  <2>1. TypeOK'
    BY <1>1 DEF Find, Goto, Place, hostVars, fileVars, boundVars
  <2>2. InOrder(w)'
    BY <1>0, <1>1 DEF Find, Goto, InOrder, Starting, Stopping
  <2> QED
    BY <1>1, <2>1, <2>2, OthersInOrder DEF Find, Goto
<1>2. CASE FindTagged(w)
  <2>1. TypeOK'
    <3>1. blind' \in SUBSET Session
      BY <1>2 DEF FindTagged, Hidden, Job
    <3> QED
      BY <1>2, <3>1 DEF FindTagged, Goto, Place, hostVars, fileVars, boundVars
  <2>2. InOrder(w)'
    BY <1>0, <1>2 DEF FindTagged, Goto, InOrder, Starting, Stopping
  <2> QED
    BY <1>2, <2>1, <2>2, OthersInOrder DEF FindTagged, Goto
<1>3. CASE OpenWindow(w)
  <2>1. PICK n \in Window :
          /\ tmux' = [tmux EXCEPT ![n] = [state |-> "starting", account |-> target[w],
                                          session |-> job[w].session, tags |-> {}]]
          /\ opened' = [opened EXCEPT ![w] = n]
    BY <1>3 DEF OpenWindow
  <2>2. tmux' \in [Window -> WindowRecord]
    BY <2>1 DEF WindowRecord, PaneState, Job
  <2>3. TypeOK'
    BY <1>3, <2>1, <2>2 DEF OpenWindow, Goto, Place, fileVars, boundVars
  <2>4. InOrder(w)'
    BY <1>0, <1>3 DEF OpenWindow, Goto, InOrder, Starting, Stopping
  <2> QED
    BY <1>3, <2>3, <2>4, OthersInOrder DEF OpenWindow, Goto
<1>4. CASE OpenFails(w)
  <2>1. TypeOK'
    BY <1>4 DEF OpenFails, NoAnswer, Goto, Place, hostVars, fileVars, boundVars
  <2>2. InOrder(w)'
    BY <1>0, <1>4 DEF OpenFails, Goto, InOrder, Starting, Stopping
  <2> QED
    BY <1>4, <2>1, <2>2, OthersInOrder DEF OpenFails, Goto
<1>5. CASE TagWindow(w)
  <2>1. tmux' \in [Window -> WindowRecord]
    <3>1. CASE UNCHANGED tmux
      BY <3>1
    <3>2. CASE ~UNCHANGED tmux
      <4>1. PICK tags \in SUBSET Tag : tmux' = [tmux EXCEPT ![opened[w]].tags = tags]
        BY <1>5, <3>2 DEF TagWindow, Tag
      <4>2. \A window \in WindowRecord : [window EXCEPT !.tags = tags] \in WindowRecord
        BY ZenonT(60), <4>1 DEF WindowRecord
      <4> QED
        BY <4>1, <4>2
    <3> QED
      BY <3>1, <3>2
  <2>2. TypeOK'
    BY <1>5, <2>1 DEF TagWindow, Goto, Place, fileVars, boundVars
  <2>3. InOrder(w)'
    BY <1>0, <1>5 DEF TagWindow, Goto, InOrder, Starting, Stopping
  <2> QED
    BY <1>5, <2>2, <2>3, OthersInOrder DEF TagWindow, Goto
<1>6. CASE Settle(w)
  <2>1. TypeOK'
    BY <1>6 DEF Settle, NoAnswer, Goto, Place, hostVars, fileVars, boundVars
  <2>2. InOrder(w)'
    BY <1>0, <1>6 DEF Settle, Goto, InOrder, Starting, Stopping
  <2> QED
    BY <1>6, <2>1, <2>2, OthersInOrder DEF Settle, Goto
<1> QED
  BY <1>1, <1>2, <1>3, <1>4, <1>5, <1>6

(* Moving a session. *)
LEMMA TypeMove ==
  ASSUME TypeOK, JobsInOrder, NEW w \in Worker,
         PlanMove(w) \/ PlanAgain(w) \/ CopySession(w) \/ TakeOut(w)
  PROVE  TypeOK' /\ JobsInOrder'
<1> USE DEF TypeOK
<1>0. /\ InOrder(w) /\ job[w] \in Job
      /\ job[w].account \in Account /\ job[w].dest \in Account /\ job[w].session \in Session
  BY DEF JobsInOrder, Job
<1>1. CASE PlanMove(w)
  <2>1. CASE Decided(w) /\ UNCHANGED <<target, todo>>
    <3>1. TypeOK'
      BY <1>1, <2>1 DEF PlanMove, Decided, Goto, Place, hostVars, fileVars, boundVars
    <3>2. InOrder(w)'
      BY <1>0, <1>1, <2>1 DEF PlanMove, Decided, Goto, InOrder, Starting, Stopping
    <3> QED
      BY <1>1, <2>1, <3>1, <3>2, OthersInOrder DEF PlanMove, Decided, Goto
  <2>2. CASE ~(Decided(w) /\ UNCHANGED <<target, todo>>)
    <3>1. PICK a \in RunningIn(job[w].session) :
            /\ target' = [target EXCEPT ![w] = a]
            /\ todo' = [todo EXCEPT ![w] = RunningIn(job[w].session)]
            /\ pc' = [pc EXCEPT ![w] = "stop"]
      BY <1>1, <2>2 DEF PlanMove, Goto
    <3>2. RunningIn(job[w].session) \subseteq Account
      BY DEF RunningIn
    <3>3. TypeOK'
      BY <1>1, <3>1, <3>2 DEF PlanMove, Place, hostVars, fileVars, boundVars
    <3>4. InOrder(w)'
      BY <1>0, <1>1, <3>1 DEF PlanMove, InOrder, Starting, Stopping
    <3> QED
      BY <1>1, <3>1, <3>3, <3>4, OthersInOrder DEF PlanMove
  <2> QED
    BY <2>1, <2>2
<1>2. CASE PlanAgain(w)
  <2>1. TypeOK'
    BY <1>2 DEF PlanAgain, Decided, Goto, Place, hostVars, fileVars, boundVars
  <2>2. InOrder(w)'
    BY <1>0, <1>2 DEF PlanAgain, Decided, Goto, InOrder, Starting, Stopping
  <2> QED
    BY <1>2, <2>1, <2>2, OthersInOrder DEF PlanAgain, Decided, Goto
<1>3. CASE CopySession(w)
  <2>1. TypeOK'
    <3>1. pc' \in [Worker -> Place]
      BY <1>3 DEF CopySession, AfterMove, Goto, Place
    <3>2. target' \in [Worker -> Account]
      BY <1>0, <1>3 DEF CopySession, AfterMove
    <3>3. transcripts' \in [Account -> SUBSET Session]
      <4>1. transcripts \in [Account -> SUBSET Session]
        OBVIOUS
      <4>2. \/ transcripts' = transcripts
            \/ transcripts' = [transcripts EXCEPT ![job[w].dest] = @ \cup {job[w].session}]
        BY <1>3 DEF CopySession
      <4> HIDE DEF TypeOK
      <4> QED
        BY <1>0, <4>1, <4>2
    <3> QED
      BY <1>3, <3>1, <3>2, <3>3 DEF CopySession, hostVars, boundVars
  <2>2. InOrder(w)'
    BY <1>0, <1>3 DEF CopySession, AfterMove, Goto, InOrder, Starting, Stopping, Job
  <2> QED
    BY <1>3, <2>1, <2>2, OthersInOrder DEF CopySession, AfterMove, Goto
<1>4. CASE TakeOut(w)
  <2>1. TypeOK'
    <3>1. pc' \in [Worker -> Place]
      BY <1>4 DEF TakeOut, AfterMove, Goto, Place
    <3>2. target' \in [Worker -> Account]
      BY <1>0, <1>4 DEF TakeOut, AfterMove
    <3>3. transcripts' \in [Account -> SUBSET Session]
      BY <1>0, <1>4 DEF TakeOut, fileVars
    <3>4. archived' \in [Account -> SUBSET Session]
      BY <1>0, <1>4 DEF TakeOut, fileVars
    <3> QED
      BY <1>4, <3>1, <3>2, <3>3, <3>4 DEF TakeOut, hostVars, boundVars
  <2>2. InOrder(w)'
    BY <1>0, <1>4 DEF TakeOut, AfterMove, Goto, InOrder, Starting, Stopping, Job
  <2> QED
    BY <1>4, <2>1, <2>2, OthersInOrder DEF TakeOut, AfterMove, Goto
<1> QED
  BY <1>1, <1>2, <1>3, <1>4

(* The host and the kill of the server. *)
LEMMA TypeHost ==
  ASSUME TypeOK, JobsInOrder, Host
  PROVE  TypeOK' /\ JobsInOrder'
<1> USE DEF TypeOK
<1>1. UNCHANGED <<workerVars, holder, archived, blind, boundVars>>
  BY DEF Host, Register, Exit, CloseExited, OpenOutside, CloseOutside, Write, KeepAnswer,
         AnswerExpires, hostVars, fileVars
<1>2. JobsInOrder'
  BY <1>1 DEF JobsInOrder, InOrder, workerVars
<1>3. ASSUME NEW n \in Window, Register(n) \/ Exit(n) \/ CloseExited(n)
      PROVE  TypeOK'
  <2>1. tmux[n].account \in Account /\ tmux[n].session \in Session
    BY DEF WindowRecord
  <2>2. tmux' \in [Window -> WindowRecord]
    <3>1. PICK window \in WindowRecord : tmux' = [tmux EXCEPT ![n] = window]
      <4>1. CASE Register(n)
        <5>1. [tmux[n] EXCEPT !.state = "running"] \in WindowRecord
          BY ZenonT(60) DEF WindowRecord, PaneState
        <5> QED
          BY <4>1, <5>1 DEF Register
      <4>2. CASE Exit(n) /\ RemainOnExit
        BY <4>2 DEF Exit, WindowRecord, PaneState
      <4>3. CASE Exit(n) /\ ~RemainOnExit
        BY <4>3, ClosedIsWindow DEF Exit
      <4>4. CASE CloseExited(n)
        BY <4>4, ClosedIsWindow DEF CloseExited
      <4> QED
        BY <1>3, <4>1, <4>2, <4>3, <4>4
    <3> QED
      BY <3>1
  <2>3. answer' \in {answer, Forgotten(tmux[n].account, tmux[n].session)}
    BY <1>3 DEF Register, Exit, CloseExited
  <2>4. answer' \in [Account -> [kept : BOOLEAN, live : SUBSET Session]]
    BY <2>1, <2>3, ForgottenType
  <2>5. UNCHANGED <<outside, transcripts>>
    BY <1>3 DEF Register, Exit, CloseExited, fileVars
  <2> QED
    BY <1>1, <2>2, <2>4, <2>5 DEF workerVars, boundVars
<1>4. ASSUME NEW a \in Account, NEW s \in Session,
             OpenOutside(a, s) \/ CloseOutside(a, s) \/ Write(a, s)
      PROVE  TypeOK'
  <2>1. outside' \in SUBSET (Account \X Session)
    BY <1>4 DEF OpenOutside, CloseOutside, Write, hostVars
  <2>2. transcripts' \in [Account -> SUBSET Session]
    <3>1. CASE Write(a, s)
      BY <3>1 DEF Write
    <3>2. CASE UNCHANGED fileVars
      BY <3>2 DEF fileVars
    <3> QED
      BY <1>4, <3>1, <3>2 DEF OpenOutside, CloseOutside
  <2>3. answer' \in {answer, Forgotten(a, s)}
    BY <1>4 DEF OpenOutside, CloseOutside, Write
  <2>4. answer' \in [Account -> [kept : BOOLEAN, live : SUBSET Session]]
    BY <2>3, ForgottenType
  <2>5. UNCHANGED tmux
    BY <1>4 DEF OpenOutside, CloseOutside, Write, hostVars
  <2> QED
    BY <1>1, <2>1, <2>2, <2>4, <2>5 DEF workerVars, boundVars
<1>5. ASSUME NEW a \in Account, KeepAnswer(a) \/ AnswerExpires(a)
      PROVE  TypeOK'
  <2>1. Registered(a) \subseteq Session
    BY DEF Registered
  <2>2. answer' \in [Account -> [kept : BOOLEAN, live : SUBSET Session]]
    <3>1. CASE KeepAnswer(a)
      BY <2>1, <3>1 DEF KeepAnswer
    <3>2. CASE AnswerExpires(a)
      BY <3>2 DEF AnswerExpires, NoAnswer
    <3> QED
      BY <1>5, <3>1, <3>2
  <2> QED
    BY <1>1, <1>5, <2>2 DEF KeepAnswer, AnswerExpires, workerVars, hostVars, fileVars, boundVars
<1> QED
  BY <1>2, <1>3, <1>4, <1>5 DEF Host

LEMMA TypeCrash ==
  ASSUME TypeOK, JobsInOrder, Crash
  PROVE  TypeOK' /\ JobsInOrder'
<1>1. TypeOK'
  BY Constants, NoJobIsJob DEF Crash, TypeOK, Place, NoAnswer, hostVars, fileVars
<1>2. JobsInOrder'
  BY DEF Crash, JobsInOrder, InOrder, Starting, Stopping, NoJob, Asks
<1> QED
  BY <1>1, <1>2

LEMMA TypeStep == TypeOK /\ JobsInOrder /\ [Next]_vars => TypeOK' /\ JobsInOrder'
<1> SUFFICES ASSUME TypeOK, JobsInOrder, [Next]_vars PROVE TypeOK' /\ JobsInOrder'
  OBVIOUS
<1>1. ASSUME NEW w \in Worker, Begin(w) \/ Serve(w) PROVE TypeOK' /\ JobsInOrder'
  BY <1>1, TypeRequest, TypeStop, TypeStart, TypeMove DEF Serve
<1>2. CASE UNCHANGED vars
  BY <1>2 DEF vars, workerVars, hostVars, fileVars, boundVars, TypeOK, JobsInOrder, InOrder
<1> QED
  BY <1>1, <1>2, TypeHost, TypeCrash DEF Next

(* Every variable keeps its type, and every worker is at a step of the     *)
(* request it serves, in the account that request names: routes.rs'        *)
(* handlers never mix two requests up, however many run.                   *)
THEOREM TypeCorrect == Spec => [](TypeOK /\ JobsInOrder)
BY InitInvariant, TypeStep, PTL DEF Spec
------------------------------------------------------------------------------
(* The locks *)

(* The steps of a request that is past its locks. *)
WorkStep(w) ==
  \/ StopRunning(w) \/ StopFails(w) \/ StopNotRunning(w)
  \/ LookAgain(w) \/ ListWaiting(w) \/ CloseWaiting(w)
  \/ Find(w) \/ FindTagged(w) \/ OpenWindow(w) \/ OpenFails(w) \/ TagWindow(w) \/ Settle(w)
  \/ PlanMove(w) \/ PlanAgain(w) \/ CopySession(w) \/ TakeOut(w)

(* They change neither the request, nor the locks, nor another worker.     *)
LEMMA WorkInside ==
  ASSUME TypeOK, JobsInOrder, NEW w \in Worker, WorkStep(w)
  PROVE  /\ pc[w] \in Inside /\ pc'[w] \in Inside
         /\ UNCHANGED <<job, holder>>
         /\ \A v \in Worker \ {w} : /\ pc'[v] = pc[v] /\ target'[v] = target[v]
                                   /\ opened'[v] = opened[v]
<1>1. CASE \/ StopRunning(w) \/ StopFails(w) \/ StopNotRunning(w)
           \/ LookAgain(w) \/ ListWaiting(w) \/ CloseWaiting(w)
  <2>1. ASSUME NEW outcome \in BOOLEAN, Stopped(w, outcome)
        PROVE  /\ pc'[w] \in Inside
               /\ \A v \in Worker \ {w} : pc'[v] = pc[v] /\ target'[v] = target[v]
    BY <2>1 DEF Stopped, Goto, Inside, Place, TypeOK
  <2>2. CASE StopRunning(w)
    BY <2>1, <2>2 DEF StopRunning, Inside, Place
  <2>3. CASE StopFails(w) \/ StopNotRunning(w)
    BY <2>3 DEF StopFails, StopNotRunning, Goto, Inside, Place, TypeOK
  <2>4. CASE CloseWaiting(w)
    <3>1. /\ pc'[w] \in Inside
          /\ \A v \in Worker \ {w} : pc'[v] = pc[v] /\ target'[v] = target[v]
      BY <2>1, <2>4 DEF CloseWaiting, Goto, Inside, Place, TypeOK
    <3> QED
      BY <2>4, <3>1 DEF CloseWaiting, Inside, Place, TypeOK
  <2>5. CASE LookAgain(w)
    <3>1. /\ pc'[w] \in Inside
          /\ \A v \in Worker \ {w} : pc'[v] = pc[v] /\ target'[v] = target[v]
      BY <2>1, <2>5 DEF LookAgain, Goto, Inside, Place, TypeOK
    <3> QED
      BY <2>5, <3>1 DEF LookAgain, Inside, Place
  <2>6. CASE ListWaiting(w)
    <3>1. /\ pc'[w] \in Inside
          /\ \A v \in Worker \ {w} : pc'[v] = pc[v] /\ target'[v] = target[v]
      BY <2>1, <2>6 DEF ListWaiting, Goto, Inside, Place, TypeOK
    <3> QED
      BY <2>6, <3>1 DEF ListWaiting, Inside, Place, TypeOK
  <2> QED
    BY <1>1, <2>2, <2>3, <2>4, <2>5, <2>6
<1>2. CASE Find(w) \/ FindTagged(w) \/ OpenWindow(w) \/ OpenFails(w) \/ TagWindow(w) \/ Settle(w)
  BY <1>2 DEF Find, FindTagged, OpenWindow, OpenFails, TagWindow, Settle, Goto, Inside, Place,
              TypeOK
<1>3. CASE PlanMove(w) \/ PlanAgain(w) \/ CopySession(w) \/ TakeOut(w)
  BY <1>3 DEF PlanMove, PlanAgain, CopySession, TakeOut, Decided, AfterMove, Goto, Inside, Place,
              TypeOK
<1> QED
  BY <1>1, <1>2, <1>3 DEF WorkStep

LEMMA LocksStep ==
  TypeOK /\ JobsInOrder /\ LocksHeld /\ [Next]_vars => LocksHeld'
<1> SUFFICES ASSUME TypeOK, JobsInOrder, LocksHeld, [Next]_vars PROVE LocksHeld'
  OBVIOUS
<1>1. ASSUME NEW w \in Worker, Begin(w) PROVE LocksHeld'
  BY <1>1 DEF Begin, Goto, LocksHeld, Inside, TypeOK
<1>2. ASSUME NEW w \in Worker, TakeLock(w) PROVE LocksHeld'
  <2>1. InOrder(w) /\ job[w] \in Job /\ Lower(job[w]) \in Account
    BY DEF TypeOK, JobsInOrder, Job, Lower
  <2>2. pc'[w] \in Inside => job[w].op # "transfer"
    BY <1>2, <2>1, FirstSteps DEF TakeLock, Goto, TypeOK, InOrder, Inside
  <2>3. holder'[Lower(job[w])] = w
    BY <1>2, <2>1 DEF TakeLock, TypeOK
  <2>4. pc'[w] \in Inside => holder'[job[w].account] = w /\ holder'[job[w].dest] = w
    BY <2>1, <2>2, <2>3 DEF InOrder, Lower
  <2>5. ASSUME NEW v \in Worker, v # w
        PROVE  /\ pc'[v] = pc[v]
               /\ \A a \in Account : holder[a] = v => holder'[a] = v
    BY <1>2, <2>1, <2>5, Constants DEF TakeLock, Goto, TypeOK
  <2>6. \A v \in Worker : job[v].account \in Account /\ job[v].dest \in Account
                         /\ Lower(job[v]) \in Account
    BY DEF TypeOK, Job, Lower
  <2>7. UNCHANGED job
    BY <1>2 DEF TakeLock
  <2> QED
    BY <2>3, <2>4, <2>5, <2>6, <2>7 DEF LocksHeld
<1>3. ASSUME NEW w \in Worker, TakeSecondLock(w) PROVE LocksHeld'
  <2>1. /\ \A v \in Worker : job[v].account \in Account /\ job[v].dest \in Account
                            /\ Lower(job[v]) \in Account
        /\ Higher(job[w]) \in Account
    BY DEF TypeOK, Job, Lower, Higher
  <2>2. holder'[Higher(job[w])] = w /\ holder'[Lower(job[w])] = w
    BY <1>3, <2>1 DEF TakeSecondLock, TypeOK, LocksHeld
  <2>3. holder'[job[w].account] = w /\ holder'[job[w].dest] = w
    BY <2>2 DEF Lower, Higher
  <2>4. ASSUME NEW v \in Worker, v # w
        PROVE  /\ pc'[v] = pc[v]
               /\ \A a \in Account : holder[a] = v => holder'[a] = v
    BY <1>3, <2>1, <2>4, Constants DEF TakeSecondLock, Goto, TypeOK
  <2>5. UNCHANGED job
    BY <1>3 DEF TakeSecondLock
  <2> QED
    BY <2>1, <2>2, <2>3, <2>4, <2>5 DEF LocksHeld
<1>4. ASSUME NEW w \in Worker, Finish(w) PROVE LocksHeld'
  <2>1. \A v \in Worker : job[v].account \in Account /\ job[v].dest \in Account
                         /\ Lower(job[v]) \in Account
    BY DEF TypeOK, Job, Lower
  <2>2. pc'[w] = "idle"
    BY <1>4 DEF Finish, Goto, TypeOK
  <2>3. ASSUME NEW v \in Worker, v # w
        PROVE  /\ pc'[v] = pc[v] /\ job'[v] = job[v]
               /\ \A a \in Account : holder[a] = v => holder'[a] = v
    BY <1>4, <2>3 DEF Finish, Goto, TypeOK
  <2> QED
    BY <2>1, <2>2, <2>3 DEF LocksHeld, Inside
<1>5. ASSUME NEW w \in Worker, WorkStep(w) PROVE LocksHeld'
  BY <1>5, WorkInside DEF LocksHeld, Inside
<1>6. CASE Host
  BY <1>6 DEF Host, Register, Exit, CloseExited, OpenOutside, CloseOutside, Write, KeepAnswer,
              AnswerExpires, workerVars, LocksHeld
<1>7. CASE Crash
  BY <1>7 DEF Crash, LocksHeld, Inside
<1>8. CASE UNCHANGED vars
  BY <1>8 DEF vars, workerVars, LocksHeld
<1> QED
  BY <1>1, <1>2, <1>3, <1>4, <1>5, <1>6, <1>7, <1>8 DEF Next, Serve, WorkStep

(* Every request past its lock steps holds the locks of all the accounts   *)
(* it names (account_lock, and transfer_session's two in one order), for   *)
(* any number of accounts and threads, and across kills of the server.     *)
THEOREM LocksAlwaysHeld == Spec => []LocksHeld
<1>1. Init => LocksHeld
  BY DEF Init, LocksHeld, Inside
<1> QED
  BY <1>1, TypeCorrect, LocksStep, PTL DEF Spec
------------------------------------------------------------------------------
(* One window for a session *)

(* Two workers that are both starting sessions start them in different     *)
(* accounts: each holds the lock of its own.                               *)
LEMMA StartingApart ==
  ASSUME TypeOK, JobsInOrder, LocksHeld, NEW v \in Worker, NEW w \in Worker,
         pc[v] \in Starting, pc[w] \in Starting, target[v] = target[w]
  PROVE  v = w
<1>1. ASSUME NEW u \in Worker, pc[u] \in Starting PROVE holder[target[u]] = u
  <2>1. target[u] \in {job[u].account, job[u].dest}
    BY <1>1 DEF JobsInOrder, InOrder, Starting, Stopping
  <2> QED
    BY <1>1, <2>1 DEF LocksHeld, Starting, Inside, Place
<1> QED
  BY <1>1

Copies == OneCopy /\ OwnWindow /\ NoneYet

(* No window opens or is tagged in the step. *)
OnlyClosing ==
  \A n \in Window : Open(n)' => /\ Open(n)
                               /\ tmux'[n].account = tmux[n].account
                               /\ tmux'[n].session = tmux[n].session
                               /\ tmux'[n].tags = tmux[n].tags

(* A worker that is to tag a window was to before. *)
OnlyTagged ==
  \A v \in Worker : pc'[v] = "tag" =>
    /\ pc[v] = "tag"
    /\ opened'[v] = opened[v] /\ job'[v] = job[v] /\ target'[v] = target[v]

LEMMA FewerResumed ==
  ASSUME OnlyClosing, OnlyTagged, NEW a, NEW s
  PROVE  Resumed(a, s)' \subseteq Resumed(a, s)
BY DEF OnlyClosing, OnlyTagged, Resumed, Open

(* Such steps keep to one copy, if one about to open a window found none.  *)
LEMMA ClosingKeepsCopies ==
  ASSUME TypeOK, Copies, OnlyClosing, OnlyTagged, blind \subseteq blind',
         \A v \in Worker : pc'[v] = "open" /\ job'[v].op # "new" =>
           \/ pc[v] = "open" /\ job'[v] = job[v] /\ target'[v] = target[v]
           \/ job'[v].session \in blind'
           \/ Resumed(target'[v], job'[v].session) = {}
  PROVE  Copies'
<1>1. OneCopy'
  BY FewerResumed DEF Copies, OneCopy
<1>2. OwnWindow'
  BY DEF Copies, OwnWindow, OnlyTagged, OnlyClosing, Open
<1>3. NoneYet'
  BY FewerResumed DEF Copies, NoneYet
<1> QED
  BY <1>1, <1>2, <1>3 DEF Copies

(* A worker that found no tagged window found none that is to be tagged.   *)
LEMMA NoneFound ==
  ASSUME TypeOK, JobsInOrder, LocksHeld, Copies, NEW w \in Worker,
         pc[w] = "findTagged", Tagged(job[w].session) = {}
  PROVE  Resumed(target[w], job[w].session) = {}
<1>1. SUFFICES ASSUME NEW n \in Resumed(target[w], job[w].session) PROVE FALSE
  OBVIOUS
<1>2. n \in Window /\ Open(n) /\ tmux[n].account = target[w] /\ tmux[n].session = job[w].session
  BY DEF Resumed
<1>3. ~("session" \in tmux[n].tags)
  BY <1>2 DEF Tagged
<1>4. PICK v \in Worker : pc[v] = "tag" /\ opened[v] = n
  BY <1>3 DEF Resumed
<1>5. target[v] = target[w]
  BY <1>2, <1>4 DEF Copies, OwnWindow
<1>6. v = w
  BY <1>4, <1>5, StartingApart DEF Starting
<1> QED
  BY <1>4, <1>6

(* Opening a window for a session that has none. *)
LEMMA OpenKeepsCopies ==
  ASSUME TypeOK, JobsInOrder, LocksHeld, Copies, NEW w \in Worker, OpenWindow(w)
  PROVE  Copies'
<1>1. PICK n \in Window :
        /\ ~Open(n)
        /\ \A v \in Worker \ {w} : pc[v] \in {"tag", "settle", "closeWaiting"} => opened[v] # n
        /\ tmux' = [tmux EXCEPT ![n] = [state |-> "starting", account |-> target[w],
                                        session |-> job[w].session, tags |-> {}]]
        /\ opened' = [opened EXCEPT ![w] = n]
  BY DEF OpenWindow
<1>2. /\ pc[w] = "open" /\ pc'[w] = "tag" /\ opened'[w] = n
      /\ UNCHANGED <<job, target, blind>>
      /\ \A v \in Worker \ {w} : pc'[v] = pc[v] /\ opened'[v] = opened[v]
  BY <1>1 DEF OpenWindow, Goto, TypeOK
<1>3. /\ tmux'[n] = [state |-> "starting", account |-> target[w], session |-> job[w].session,
                     tags |-> {}]
      /\ \A m \in Window \ {n} : tmux'[m] = tmux[m]
  BY <1>1 DEF TypeOK
<1>4. ASSUME NEW a \in Account, NEW s \in Session, NEW m \in Resumed(a, s)'
      PROVE  \/ m \in Resumed(a, s)
             \/ m = n /\ a = target[w] /\ s = job[w].session /\ job[w].op # "new"
  <2>1. /\ m \in Window /\ Open(m)' /\ tmux'[m].account = a /\ tmux'[m].session = s
        /\ \/ "session" \in tmux'[m].tags
           \/ \E v \in Worker : pc'[v] = "tag" /\ opened'[v] = m /\ job'[v].op # "new"
    BY DEF Resumed
  <2>2. CASE m = n
    BY <1>1, <1>2, <1>3, <2>1, <2>2
  <2>3. CASE m # n
    <3>1. tmux'[m] = tmux[m]
      BY <1>3, <2>1, <2>3
    <3>2. \/ "session" \in tmux[m].tags
          \/ \E v \in Worker : pc[v] = "tag" /\ opened[v] = m /\ job[v].op # "new"
      BY <1>2, <2>1, <2>3, <3>1
    <3> QED
      BY <2>1, <3>1, <3>2 DEF Resumed, Open
  <2> QED
    BY <2>2, <2>3
<1>5. job[w].op # "new" /\ ~(job[w].session \in blind) => Resumed(target[w], job[w].session) = {}
  BY <1>2 DEF Copies, NoneYet
<1>6. OneCopy'
  <2>1. SUFFICES ASSUME NEW a \in Account, NEW s \in Session \ blind,
                        NEW m \in Resumed(a, s)', NEW k \in Resumed(a, s)'
                 PROVE  m = k
    BY <1>2 DEF OneCopy
  <2>2. m \in Resumed(a, s) /\ k \in Resumed(a, s) => m = k
    BY DEF Copies, OneCopy
  <2> QED
    BY <1>4, <1>5, <2>2
<1>7. OwnWindow'
  <2>1. ASSUME NEW v \in Worker, pc'[v] = "tag"
        PROVE  /\ opened'[v] \in Window
               /\ Open(opened[v])' => /\ tmux'[opened'[v]].account = target'[v]
                                      /\ tmux'[opened'[v]].session = job'[v].session
    <3>1. CASE v = w
      BY <1>2, <1>3, <3>1
    <3>2. CASE v # w
      <4>1. pc[v] = "tag" /\ opened'[v] = opened[v] /\ opened[v] \in Window \ {n}
        BY <1>1, <1>2, <2>1, <3>2 DEF Copies, OwnWindow
      <4>2. tmux'[opened[v]] = tmux[opened[v]]
        BY <1>3, <4>1
      <4> QED
        BY <1>2, <4>1, <4>2 DEF Copies, OwnWindow, Open
    <3> QED
      BY <3>1, <3>2
  <2> QED
    BY <2>1 DEF OwnWindow
<1>8. NoneYet'
  <2>1. SUFFICES ASSUME NEW v \in Worker, pc'[v] = "open", job'[v].op # "new",
                        ~(job'[v].session \in blind'),
                        NEW m \in Resumed(target[v], job[v].session)'
                 PROVE  FALSE
    BY <1>2 DEF NoneYet
  <2>2. v # w /\ pc[v] = "open" /\ UNCHANGED <<job, target>>
    BY <1>2, <2>1
  <2>3. target[v] # target[w]
    BY <1>2, <2>2, StartingApart DEF Starting
  <2>4. m \in Resumed(target[v], job[v].session)'
    OBVIOUS
  <2>5. target[v] \in Account /\ job[v].session \in Session
    BY DEF TypeOK, Job
  <2>6. m \in Resumed(target[v], job[v].session)
    BY <1>2, <1>4, <2>2, <2>3, <2>5, <2>1
  <2> QED
    BY <1>2, <2>1, <2>2, <2>6 DEF Copies, NoneYet
<1> QED
  BY <1>6, <1>7, <1>8 DEF Copies

(* Tagging the window a resume has opened. *)
LEMMA TagKeepsCopies ==
  ASSUME TypeOK, JobsInOrder, LocksHeld, Copies, NEW w \in Worker, TagWindow(w)
  PROVE  Copies'
<1>1. /\ pc[w] = "tag" /\ pc'[w] = "settle"
      /\ UNCHANGED <<job, target, opened, blind>>
      /\ \A v \in Worker \ {w} : pc'[v] = pc[v]
  BY DEF TagWindow, Goto, TypeOK
<1>2. opened[w] \in Window
  BY <1>1 DEF Copies, OwnWindow
<1>3. \A n \in Window : /\ tmux'[n].state = tmux[n].state
                        /\ tmux'[n].account = tmux[n].account
                        /\ tmux'[n].session = tmux[n].session
                        /\ "session" \in tmux'[n].tags =>
                             \/ "session" \in tmux[n].tags
                             \/ n = opened[w] /\ job[w].op # "new"
  <2>1. CASE UNCHANGED tmux
    BY <2>1
  <2>2. CASE ~UNCHANGED tmux
    <3>1. PICK tags \in SUBSET (IF job[w].op = "new" THEN {"account"} ELSE Tag) :
            tmux' = [tmux EXCEPT ![opened[w]].tags = tags]
      BY <2>2 DEF TagWindow
    <3>2. \A n \in Window \ {opened[w]} : tmux'[n] = tmux[n]
      BY <3>1 DEF TypeOK
    <3>3. tmux'[opened[w]] = [tmux[opened[w]] EXCEPT !.tags = tags]
      BY <1>2, <3>1 DEF TypeOK
    <3>4. tmux[opened[w]] \in WindowRecord
      BY <1>2 DEF TypeOK
    <3>5. "session" \in tags => job[w].op # "new"
      BY <3>1
    <3> QED
      BY <3>2, <3>3, <3>4, <3>5 DEF WindowRecord
  <2> QED
    BY <2>1, <2>2
<1>4. \A a, s : Resumed(a, s)' \subseteq Resumed(a, s)
  BY <1>1, <1>3 DEF Resumed, Open
<1>5. OneCopy'
  BY <1>1, <1>4 DEF Copies, OneCopy
<1>6. OwnWindow'
  <2>1. ASSUME NEW v \in Worker, pc'[v] = "tag"
        PROVE  /\ opened'[v] \in Window
               /\ Open(opened[v])' => /\ tmux'[opened'[v]].account = target'[v]
                                      /\ tmux'[opened'[v]].session = job'[v].session
    <3>1. pc[v] = "tag" /\ opened[v] \in Window
      BY <1>1, <2>1 DEF Copies, OwnWindow
    <3> QED
      BY <1>1, <1>3, <3>1 DEF Copies, OwnWindow, Open
  <2> QED
    BY <2>1 DEF OwnWindow
<1>7. NoneYet'
  BY <1>1, <1>4 DEF Copies, NoneYet
<1> QED
  BY <1>5, <1>6, <1>7 DEF Copies

(* Every other step of a request that is past its locks. *)
LEMMA WorkKeepsCopies ==
  ASSUME TypeOK, JobsInOrder, LocksHeld, Copies, NEW w \in Worker, WorkStep(w)
  PROVE  Copies'
<1>1. CASE OpenWindow(w)
  BY <1>1, OpenKeepsCopies
<1>2. CASE TagWindow(w)
  BY <1>2, TagKeepsCopies
<1>3. CASE ~OpenWindow(w) /\ ~TagWindow(w)
  <2>1. OnlyClosing
    <3>1. ASSUME NEW n \in Window, tmux' = [tmux EXCEPT ![n] = Closed] PROVE OnlyClosing
      <4>1. \A m \in Window : tmux'[m].state # "closed" => tmux'[m] = tmux[m]
        BY <3>1, ClosedIsWindow DEF TypeOK
      <4> QED
        BY <4>1 DEF OnlyClosing, Open
    <3>2. CASE UNCHANGED tmux
      BY <3>2 DEF OnlyClosing, Open
    <3>3. ASSUME NEW n \in Window, tmux[n].state = "running", tmux' = [tmux EXCEPT ![n] = Left(n)]
          PROVE  OnlyClosing
      <4>1. CASE RemainOnExit
        <5>1. tmux'[n] = [tmux[n] EXCEPT !.state = "exited"] /\ tmux[n] \in WindowRecord
          BY <3>3, <4>1 DEF Left, TypeOK
        <5>2. \A m \in Window \ {n} : tmux'[m] = tmux[m]
          BY <3>3 DEF TypeOK
        <5> QED
          BY <3>3, <5>1, <5>2 DEF OnlyClosing, Open, WindowRecord
      <4>2. CASE ~RemainOnExit
        BY <3>1, <3>3, <4>2 DEF Left
      <4> QED
        BY <4>1, <4>2
    <3>4. CASE StopRunning(w)
      BY <3>1, <3>2, <3>3, <3>4 DEF StopRunning
    <3>5. CASE CloseWaiting(w)
      <4>1. CASE opened[w] \in Window
        BY <3>1, <3>2, <3>5, <4>1 DEF CloseWaiting
      <4>2. CASE ~(opened[w] \in Window)
        <5>1. tmux' = [tmux EXCEPT ![opened[w]] = Closed] => UNCHANGED tmux
          BY <4>2 DEF TypeOK
        <5> QED
          BY <3>2, <3>5, <5>1 DEF CloseWaiting
      <4> QED
        BY <4>1, <4>2
    <3>6. CASE ~StopRunning(w) /\ ~CloseWaiting(w)
      BY <1>3, <3>2, <3>6 DEF WorkStep, StopFails, StopNotRunning, LookAgain, ListWaiting, Find,
                 FindTagged, OpenFails, Settle, PlanMove, PlanAgain, CopySession, TakeOut, hostVars
    <3> QED
      BY <3>4, <3>5, <3>6
  <2>2. /\ pc'[w] # "tag"
        /\ pc'[w] = "open" => FindTagged(w)
    BY <1>3 DEF WorkStep, StopRunning, StopFails, StopNotRunning, LookAgain, ListWaiting,
                CloseWaiting, Stopped, Find, FindTagged, OpenFails, Settle, PlanMove, PlanAgain, Decided,
                CopySession, TakeOut, AfterMove, Goto, TypeOK
  <2>3. /\ UNCHANGED job
        /\ \A v \in Worker \ {w} : /\ pc'[v] = pc[v] /\ target'[v] = target[v]
                                  /\ opened'[v] = opened[v]
    BY WorkInside
  <2>4. OnlyTagged
    BY <2>2, <2>3 DEF OnlyTagged
  <2>5. ASSUME FindTagged(w), pc'[w] = "open"
        PROVE  \/ job'[w].session \in blind'
               \/ Resumed(target'[w], job'[w].session) = {}
    <3>1. /\ pc[w] = "findTagged" /\ UNCHANGED <<job, target>>
          /\ Hidden(job[w].session)
      BY <2>5 DEF FindTagged, Goto, TypeOK
    <3>2. CASE Tagged(job[w].session) = {}
      BY <3>1, <3>2, NoneFound
    <3>3. CASE Tagged(job[w].session) # {}
      BY <3>1, <3>3 DEF Hidden
    <3> QED
      BY <3>1, <3>2, <3>3
  <2>6. blind \subseteq blind'
    BY <1>3 DEF WorkStep, StopRunning, StopFails, StopNotRunning, LookAgain, ListWaiting, CloseWaiting,
                Find, FindTagged, Hidden, OpenFails, Settle, PlanMove, PlanAgain, CopySession, TakeOut
  <2> QED
    BY <2>1, <2>2, <2>3, <2>4, <2>5, <2>6, ClosingKeepsCopies
<1> QED
  BY <1>1, <1>2, <1>3

LEMMA CopiesStep ==
  TypeOK /\ JobsInOrder /\ LocksHeld /\ Copies /\ [Next]_vars => Copies'
<1> SUFFICES ASSUME TypeOK, JobsInOrder, LocksHeld, Copies, [Next]_vars PROVE Copies'
  OBVIOUS
<1>1. ASSUME NEW w \in Worker, Begin(w) \/ TakeLock(w) \/ TakeSecondLock(w) \/ Finish(w)
      PROVE  Copies'
  <2>1. UNCHANGED <<tmux, blind>>
    BY <1>1 DEF Begin, TakeLock, TakeSecondLock, Finish, hostVars
  <2>2. \A v \in Worker \ {w} : /\ pc'[v] = pc[v] /\ job'[v] = job[v]
                              /\ target'[v] = target[v] /\ opened'[v] = opened[v]
    BY <1>1 DEF Begin, TakeLock, TakeSecondLock, Finish, Goto, TypeOK
  <2>3. pc'[w] # "tag" /\ (pc'[w] = "open" => job'[w].op = "new")
    <3>1. CASE TakeLock(w)
      <4>1. job[w] \in Job /\ job[w].op # "none"
        BY <3>1 DEF TakeLock, TypeOK, JobsInOrder, InOrder
      <4> QED
        BY <3>1, <4>1, FirstSteps DEF TakeLock, Goto, TypeOK, Job, Op
    <3>2. CASE Begin(w) \/ TakeSecondLock(w) \/ Finish(w)
      BY <3>2 DEF Begin, TakeSecondLock, Finish, Goto, TypeOK
    <3> QED
      BY <1>1, <3>1, <3>2
  <2>4. OnlyClosing /\ OnlyTagged
    BY <2>1, <2>2, <2>3 DEF OnlyClosing, OnlyTagged, Open
  <2> QED
    BY <2>1, <2>2, <2>3, <2>4, ClosingKeepsCopies
<1>2. CASE Host
  <2>1. UNCHANGED <<workerVars, blind>>
    BY <1>2 DEF Host, Register, Exit, CloseExited, OpenOutside, CloseOutside, Write, KeepAnswer,
                AnswerExpires
  <2>2. OnlyTagged
    BY <2>1 DEF OnlyTagged, workerVars
  <2>3. ASSUME NEW n \in Window, Register(n) \/ Exit(n) \/ CloseExited(n)
        PROVE  OnlyClosing
    <3>1. \A m \in Window \ {n} : tmux'[m] = tmux[m]
      BY <2>3 DEF Register, Exit, CloseExited, TypeOK
    <3>2. tmux[n].state # "closed"
      BY <2>3 DEF Register, Exit, CloseExited
    <3>3. CASE tmux' = [tmux EXCEPT ![n] = Closed]
      BY <3>1, <3>3, ClosedIsWindow DEF OnlyClosing, Open, TypeOK
    <3>4. CASE \E state \in PaneState : tmux' = [tmux EXCEPT ![n].state = state]
      BY <3>1, <3>2, <3>4 DEF OnlyClosing, Open, TypeOK, WindowRecord
    <3> QED
      BY <2>3, <3>3, <3>4 DEF Register, Exit, CloseExited, PaneState
  <2>4. ASSUME UNCHANGED tmux PROVE OnlyClosing
    BY <2>4 DEF OnlyClosing, Open
  <2>5. OnlyClosing
    BY <1>2, <2>3, <2>4 DEF Host, OpenOutside, CloseOutside, Write, KeepAnswer, AnswerExpires,
                            hostVars
  <2> QED
    BY <2>1, <2>2, <2>5, ClosingKeepsCopies DEF workerVars
<1>3. CASE Crash
  <2>1. OnlyClosing /\ OnlyTagged
    BY <1>3 DEF Crash, OnlyClosing, OnlyTagged, Open, hostVars
  <2>2. \A v \in Worker : pc'[v] = "idle"
    BY <1>3 DEF Crash
  <2>3. UNCHANGED blind
    BY <1>3 DEF Crash
  <2> QED
    BY <2>1, <2>2, <2>3, ClosingKeepsCopies
<1>4. CASE UNCHANGED vars
  BY <1>4 DEF vars, workerVars, hostVars, Copies, OneCopy, OwnWindow, NoneYet, Resumed, Open
<1> QED
  BY <1>1, <1>2, <1>3, <1>4, WorkKeepsCopies DEF Next, Serve, WorkStep

(* However many resumes, restarts and moves run together, however stale    *)
(* the kept answers are and wherever the server is killed, it opens no     *)
(* second window for a session of an account beside one that tmux lists    *)
(* under its tag (resume_held), for any number of each.  A window left     *)
(* without the tag, by a kill, by a tag tmux didn't take or by a new       *)
(* session, and a list tmux failed to give, are outside it.                *)
THEOREM OneCopyAlways == Spec => []OneCopy
<1>1. Init => Copies
  BY Constants DEF Init, Copies, OneCopy, OwnWindow, NoneYet, Resumed, Open, Closed
<1>2. Copies => OneCopy
  BY DEF Copies
<1> QED
  BY <1>1, <1>2, TypeCorrect, LocksAlwaysHeld, CopiesStep, PTL DEF Spec
------------------------------------------------------------------------------
(* What a step may never do *)

(* A move never loses the conversation, whatever fails halfway and         *)
(* whoever else stops, starts or moves it (moves::transfer copies it,      *)
(* checks the copy, and only then takes the source's out).                 *)
THEOREM SessionNeverLost == Spec => SessionKept
<1>1. ASSUME TypeOK, JobsInOrder, [Next]_vars, NEW s \in Session, HasCopy(s)
      PROVE  HasCopy(s)'
  <2>1. ASSUME \A a \in Account : /\ transcripts[a] \subseteq transcripts'[a]
                                  /\ archived[a] \subseteq archived'[a]
        PROVE  HasCopy(s)'
    BY <1>1, <2>1 DEF HasCopy
  <2>2. ASSUME NEW w \in Worker, TakeOut(w) PROVE HasCopy(s)'
    <3>1. /\ job[w].account \in Account /\ job[w].dest \in Account /\ job[w].account # job[w].dest
      BY <1>1, <2>2 DEF TypeOK, Job, JobsInOrder, InOrder, TakeOut
    <3> QED
      BY <1>1, <2>2, <3>1 DEF HasCopy, TakeOut, TypeOK, fileVars
  <2>3. ASSUME NEW w \in Worker, CopySession(w) PROVE HasCopy(s)'
    <3>1. transcripts \in [Account -> SUBSET Session]
      BY <1>1 DEF TypeOK
    <3>2. archived' = archived
      BY <2>3 DEF CopySession
    <3>3. \/ transcripts' = transcripts
          \/ transcripts' = [transcripts EXCEPT ![job[w].dest] = @ \cup {job[w].session}]
      BY <2>3 DEF CopySession
    <3>4. \A a \in Account : transcripts[a] \subseteq transcripts'[a]
      BY <3>1, <3>3
    <3> QED
      BY <3>2, <3>4, <2>1
  <2>4. ASSUME NEW a \in Account, NEW r \in Session, Write(a, r) PROVE HasCopy(s)'
    BY <1>1, <2>1, <2>4 DEF Write, TypeOK
  <2>5. ASSUME UNCHANGED fileVars PROVE HasCopy(s)'
    BY <1>1, <2>5 DEF HasCopy, fileVars
  <2>6. ASSUME NEW w \in Worker, Begin(w) \/ Serve(w) PROVE HasCopy(s)'
    BY <2>2, <2>3, <2>5, <2>6
    DEF Begin, Serve, TakeLock, TakeSecondLock, Finish, StopRunning, StopFails, StopNotRunning,
        LookAgain, ListWaiting, CloseWaiting, Find, FindTagged, OpenWindow, OpenFails, TagWindow,
        Settle, PlanMove, PlanAgain
  <2>7. CASE Host
    BY <2>4, <2>5, <2>7
    DEF Host, Register, Exit, CloseExited, OpenOutside, CloseOutside, KeepAnswer, AnswerExpires
  <2> QED
    BY <1>1, <2>5, <2>6, <2>7 DEF Next, Crash, vars
<1>2. TypeOK /\ JobsInOrder /\ [Next]_vars => [\A s \in Session : HasCopy(s) => HasCopy(s)']_vars
  BY <1>1
<1> QED
  BY <1>2, TypeCorrect, PTL DEF Spec, SessionKept

(* While a move plans, copies and takes out, no other request opens a      *)
(* window in either of its accounts.                                       *)
THEOREM MovesUndisturbed == Spec => MoveUndisturbed
<1>1. ASSUME TypeOK, JobsInOrder, LocksHeld, [Next]_vars, NEW w \in Worker,
             pc[w] \in {"plan", "replan", "copy", "takeOut"},
             NEW n \in Window, ~Open(n), Open(n)'
      PROVE  tmux'[n].account \notin {job[w].account, job[w].dest}
  <2>1. PICK v \in Worker : OpenWindow(v)
    <3>1. ASSUME NEW v \in Worker, WorkStep(v), ~OpenWindow(v) PROVE FALSE
      <4>1. ~(\E m \in Window : tmux' = [tmux EXCEPT ![m] = Left(m)] /\ tmux[m].state = "running")
        BY <1>1, ClosedIsWindow DEF Open, Left, TypeOK
      <4>2. ~(\E m : tmux' = [tmux EXCEPT ![m] = Closed])
        BY <1>1, ClosedIsWindow DEF Open, TypeOK
      <4>3. CASE TagWindow(v)
        <5>1. tmux'[n].state = tmux[n].state
          BY <1>1, <4>3 DEF TagWindow, TypeOK, WindowRecord
        <5> QED
          BY <1>1, <5>1 DEF Open
      <4>4. CASE UNCHANGED tmux
        BY <1>1, <4>4 DEF Open
      <4> QED
        BY <3>1, <4>1, <4>2, <4>3, <4>4
        DEF WorkStep, StopRunning, StopFails, StopNotRunning, LookAgain, ListWaiting,
            CloseWaiting, Find, FindTagged, OpenFails, Settle, PlanMove, PlanAgain, CopySession, TakeOut, hostVars
    <3>2. ASSUME UNCHANGED tmux PROVE FALSE
      BY <1>1, <3>2 DEF Open
    <3>3. ASSUME NEW m \in Window, Register(m) \/ Exit(m) \/ CloseExited(m) PROVE FALSE
      BY <1>1, <3>3 DEF Register, Exit, CloseExited, Open, Closed, TypeOK, WindowRecord
    <3>4. CASE Host
      BY <3>2, <3>3, <3>4 DEF Host, OpenOutside, CloseOutside, Write, KeepAnswer, AnswerExpires,
                              hostVars
    <3>5. ASSUME NEW v \in Worker, Begin(v) \/ TakeLock(v) \/ TakeSecondLock(v) \/ Finish(v)
          PROVE  FALSE
      BY <3>2, <3>5 DEF Begin, TakeLock, TakeSecondLock, Finish, hostVars
    <3> QED
      BY <1>1, <3>1, <3>2, <3>4, <3>5 DEF Next, Serve, WorkStep, Crash, vars, hostVars
  <2>2. tmux'[n].account = target[v]
    BY <1>1, <2>1 DEF OpenWindow, Open, TypeOK
  <2>3. pc[v] = "open" /\ target[v] \in {job[v].account, job[v].dest}
    BY <1>1, <2>1 DEF OpenWindow, JobsInOrder, InOrder, Starting, Stopping
  <2>4. holder[target[v]] = v
    BY <1>1, <2>3 DEF LocksHeld, Inside, Place
  <2>5. holder[job[w].account] = w /\ holder[job[w].dest] = w
    BY <1>1 DEF LocksHeld, Inside, Place
  <2> QED
    BY <1>1, <2>2, <2>3, <2>4, <2>5
<1>2. TypeOK /\ JobsInOrder /\ LocksHeld /\ [Next]_vars =>
        [\A w \in Worker : pc[w] \in {"plan", "replan", "copy", "takeOut"} =>
           \A n \in Window : ~Open(n) /\ Open(n)' =>
             tmux'[n].account \notin {job[w].account, job[w].dest}]_vars
  BY <1>1
<1> QED
  BY <1>2, TypeCorrect, LocksAlwaysHeld, PTL DEF Spec, MoveUndisturbed
=============================================================================
