--------------------------- MODULE AccountSessions ---------------------------
(***************************************************************************)
(* The server's requests that start, stop and move Claude sessions, and    *)
(* the per-account locks they run under: routes.rs (new, resume, stop,     *)
(* restart, transfer), launch.rs, sessions.rs, moves.rs and agents.rs.     *)
(*                                                                         *)
(* Each request runs on a thread of its own (a Worker), step by step; in   *)
(* between, Claude registers its session or exits, its user opens or       *)
(* closes a session in a terminal of their own, the kept answer of         *)
(* `claude agents` goes stale, and the server is killed and started again. *)
(*                                                                         *)
(* Accounts are numbered as their names sort.  An account's folder stays   *)
(* where it is here: renaming and deleting accounts is not in this module. *)
(***************************************************************************)
EXTENDS Integers, FiniteSets

CONSTANTS
  NAccounts,     \* how many accounts the host has
  Session,       \* session ids
  OldSession,    \* the sessions there are at the start
  Worker,        \* request threads
  NoWorker,      \* the holder of a free lock
  Window,        \* tmux window ids
  NoWindow,      \* no window
  Served,        \* the requests that arrive, a subset of Op
  MoveOptions,   \* what the moves that arrive ask for, a subset of Options
  MaxRequests,   \* bound: requests served in a behaviour
  MaxCrashes,    \* bound: times the server is killed
  RemainOnExit,  \* tmux keeps a window whose command has exited
  OwnTerminals,  \* users also open sessions in terminals outside tmux
  MoveToSelf     \* a move may name one account as source and destination

ASSUME AccountsAssumption == NAccounts \in Nat \ {0}
ASSUME SessionsAssumption == OldSession \subseteq Session /\ Session # {}
ASSUME WindowsAssumption == NoWindow \notin Window
ASSUME WorkersAssumption == NoWorker \notin Worker
ASSUME BoundsAssumption == MaxRequests \in Nat /\ MaxCrashes \in Nat
ASSUME SwitchesAssumption ==
  RemainOnExit \in BOOLEAN /\ OwnTerminals \in BOOLEAN /\ MoveToSelf \in BOOLEAN

Account == 1 .. NAccounts

VARIABLES
  pc,           \* what each worker does next
  job,          \* the request each worker serves
  target,       \* the account whose session it is stopping or starting
  todo,         \* the accounts a move has still to stop the session in
  opened,       \* the window a worker has just opened
  holder,       \* who holds each account's lock
  tmux,         \* the windows
  outside,      \* the sessions open outside tmux, by account
  transcripts,  \* the sessions each account has a transcript of
  archived,     \* the sessions each account has an archived transcript of
  answer,       \* the answer of `claude agents` kept for each account
  blind,        \* history: sessions resumed while tmux couldn't list their windows
  requests,     \* requests begun
  crashes       \* times the server was killed

workerVars == <<pc, job, target, todo, opened>>
hostVars   == <<tmux, outside>>
fileVars   == <<transcripts, archived>>
boundVars  == <<requests, crashes>>
vars == <<workerVars, holder, hostVars, fileVars, answer, blind, boundVars>>
------------------------------------------------------------------------------
(* Requests *)

Op == {"none", "new", "resume", "stop", "restart", "transfer"}

Afterwards == {"keep", "archive", "delete"}

(* What a move may be told: stop the session first; go on though it runs;  *)
(* what to do with the source's copy; resume it in the destination.        *)
Options == [stopFirst : BOOLEAN, confirm : BOOLEAN, after : Afterwards, resume : BOOLEAN]

ASSUME RequestsAssumption == Served \subseteq Op \ {"none"} /\ MoveOptions \subseteq Options

Job == [op : Op, account : Account, dest : Account, session : Session, options : Options]

AnySession == CHOOSE s \in Session : TRUE

NoOptions == [stopFirst |-> FALSE, confirm |-> FALSE, after |-> "keep", resume |-> FALSE]

Asks(op, a, b, s, options) ==
  [op |-> op, account |-> a, dest |-> b, session |-> s, options |-> options]

NoJob == Asks("none", 1, 1, AnySession, NoOptions)

(* A move's locks are taken in the order the names sort.                   *)
LowerUnsorted(j) == j.account  \* variant: in the order the request names them
Lower(j)  == IF j.account <= j.dest THEN j.account ELSE j.dest
Higher(j) == IF j.account <= j.dest THEN j.dest ELSE j.account

(* A session some account has, in the open or archived, or that runs. *)
HasCopy(s) == \E a \in Account : s \in transcripts[a] \cup archived[a]
------------------------------------------------------------------------------
(* What the server sees of the host *)

PaneState == {"closed", "starting", "running", "exited"}
Tag == {"account", "session"}
WindowRecord == [state : PaneState, account : Account, session : Session, tags : SUBSET Tag]
Closed == [state |-> "closed", account |-> 1, session |-> AnySession, tags |-> {}]

Open(n) == tmux[n].state # "closed"

Known(s) == HasCopy(s) \/ \E n \in Window : Open(n) /\ tmux[n].session = s

Registered(a) ==
  {s \in Session : <<a, s>> \in outside} \cup
  {s \in Session : \E n \in Window : /\ tmux[n].state = "running"
                                     /\ tmux[n].account = a
                                     /\ tmux[n].session = s}

NoAnswer == [kept |-> FALSE, live |-> {}]

(* sessions::running: the registry's live entries that the answer of       *)
(* `claude agents`, fresh or kept, lists.                                  *)
Running(a) == IF answer[a].kept THEN Registered(a) \cap answer[a].live ELSE Registered(a)

(* The windows tagged with a session; tmux's list of them, which reads as  *)
(* empty when tmux fails.                                                  *)
Tagged(s) == {n \in Window : Open(n) /\ "session" \in tmux[n].tags /\ tmux[n].session = s}

Hidden(s) == blind' = IF Tagged(s) = {} THEN blind ELSE blind \cup {s}

(* Those tagged with the account too. *)
WaitingWindows(a, s) == {n \in Tagged(s) : "account" \in tmux[n].tags /\ tmux[n].account = a}

(* What ends with a process: its pid is in no later answer. *)
Forgotten(a, s) == [answer EXCEPT ![a].live = @ \ {s}]
------------------------------------------------------------------------------
Init ==
  /\ pc = [w \in Worker |-> "idle"]
  /\ job = [w \in Worker |-> NoJob]
  /\ target = [w \in Worker |-> 1]
  /\ todo = [w \in Worker |-> {}]
  /\ opened = [w \in Worker |-> NoWindow]
  /\ holder = [a \in Account |-> NoWorker]
  /\ tmux = [n \in Window |-> Closed]
  /\ outside = {}
  /\ transcripts = [a \in Account |-> IF a = 1 THEN OldSession ELSE {}]
  /\ archived = [a \in Account |-> {}]
  /\ answer = [a \in Account |-> NoAnswer]
  /\ blind = {}
  /\ requests = 0
  /\ crashes = 0

Goto(w, place) == pc' = [pc EXCEPT ![w] = place]

Requested ==
  {Asks(op, a, a, s, NoOptions) : op \in Served \ {"transfer"}, a \in Account, s \in Session} \cup
  {Asks(op, a, b, s, options) : op \in Served \cap {"transfer"}, a \in Account, b \in Account,
                                s \in Session, options \in MoveOptions}

(* A request arrives.  The accounts it names are looked up here, before    *)
(* any lock.  A new session's id is one no session has.                    *)
Begin(w) ==
  /\ pc[w] = "idle"
  /\ requests < MaxRequests
  /\ \E j \in Requested :
       /\ j.op = "new" => ~Known(j.session)
       /\ j.op = "transfer" => j.account # j.dest \/ MoveToSelf
       /\ job' = [job EXCEPT ![w] = j]
       /\ target' = [target EXCEPT ![w] = j.account]
  /\ requests' = requests + 1
  /\ Goto(w, "lock")
  /\ UNCHANGED <<todo, opened, holder, hostVars, fileVars, answer, blind, crashes>>

(* What follows the account's lock. *)
FirstStep == [new |-> "open", resume |-> "find", stop |-> "stop", restart |-> "stop",
              transfer |-> "lock2"]

(* The account's lock; for a move, that of the name that sorts first. *)
TakeLock(w) ==
  /\ pc[w] = "lock"
  /\ holder[Lower(job[w])] = NoWorker
  /\ holder' = [holder EXCEPT ![Lower(job[w])] = w]
  /\ Goto(w, FirstStep[job[w].op])
  /\ UNCHANGED <<job, target, todo, opened, hostVars, fileVars, answer, blind, boundVars>>

(* Variant: a move locks only the account that sorts first. *)
TakeOneLock(w) ==
  /\ pc[w] = "lock2"
  /\ Goto(w, "plan")
  /\ UNCHANGED <<job, target, todo, opened, holder, hostVars, fileVars, answer, blind, boundVars>>

(* The second lock of a move. *)
TakeSecondLock(w) ==
  /\ pc[w] = "lock2"
  /\ holder[Higher(job[w])] = NoWorker
  /\ holder' = [holder EXCEPT ![Higher(job[w])] = w]
  /\ Goto(w, "plan")
  /\ UNCHANGED <<job, target, todo, opened, hostVars, fileVars, answer, blind, boundVars>>

(* The answer is given and the guards drop. *)
Finish(w) ==
  /\ pc[w] \in {"done", "wasNotRunning"}
  /\ holder' = [a \in Account |-> IF holder[a] = w THEN NoWorker ELSE holder[a]]
  /\ job' = [job EXCEPT ![w] = NoJob]
  /\ target' = [target EXCEPT ![w] = 1]
  /\ todo' = [todo EXCEPT ![w] = {}]
  /\ opened' = [opened EXCEPT ![w] = NoWindow]
  /\ Goto(w, "idle")
  /\ UNCHANGED <<hostVars, fileVars, answer, blind, boundVars>>
------------------------------------------------------------------------------
(* Stopping *)

(* After one account's session is stopped: a restart resumes it, a move    *)
(* stops the next one or plans again.                                      *)
Stopped(w, outcome) ==
  IF job[w].op = "stop" THEN
    /\ Goto(w, IF outcome THEN "done" ELSE "wasNotRunning")
    /\ UNCHANGED <<target, todo>>
  ELSE IF job[w].op = "restart" THEN
    /\ Goto(w, "find")
    /\ UNCHANGED <<target, todo>>
  ELSE
    /\ todo' = [todo EXCEPT ![w] = @ \ {target[w]}]
    /\ IF todo[w] \subseteq {target[w]}
         THEN Goto(w, "replan") /\ UNCHANGED target
         ELSE /\ \E a \in todo[w] \ {target[w]} : target' = [target EXCEPT ![w] = a]
              /\ Goto(w, "stop")

(* What a window is once its command has exited: kept, if tmux is set to,  *)
(* until it is closed.                                                     *)
Left(n) == IF RemainOnExit THEN [tmux[n] EXCEPT !.state = "exited"] ELSE Closed

(* sessions::stop of a session that runs: the process registered for it is *)
(* signalled and gone, and its window is closed if it is on tmux's list of *)
(* those tagged with it.  Where the process runs in a window of someone's  *)
(* own, that stays.                                                        *)
StopRunning(w) ==
  LET a == target[w]
      s == job[w].session
  IN
  /\ pc[w] = "stop"
  /\ s \in Running(a)
  /\ \/ /\ \E n \in Window :
             /\ tmux[n].state = "running" /\ tmux[n].account = a /\ tmux[n].session = s
             /\ \/ tmux' = [tmux EXCEPT ![n] = Left(n)]
                \/ n \in Tagged(s) /\ tmux' = [tmux EXCEPT ![n] = Closed]
        /\ UNCHANGED outside
     \/ /\ <<a, s>> \in outside
        /\ outside' = outside \ {<<a, s>>}
        /\ UNCHANGED tmux
  /\ answer' = Forgotten(a, s)
  /\ Stopped(w, TRUE)
  /\ UNCHANGED <<job, opened, holder, fileVars, blind, boundVars>>

(* It outlives SIGKILL's grace: the request fails there. *)
StopFails(w) ==
  /\ pc[w] = "stop"
  /\ job[w].session \in Running(target[w])
  /\ Goto(w, "done")
  /\ UNCHANGED <<job, target, todo, opened, holder, hostVars, fileVars, answer, blind, boundVars>>

(* Not registered as running: waiting_windows asks again.                  *)
StopNotRunning(w) ==
  /\ pc[w] = "stop"
  /\ job[w].session \notin Running(target[w])
  /\ Goto(w, "lookAgain")
  /\ UNCHANGED <<job, target, todo, opened, holder, hostVars, fileVars, answer, blind, boundVars>>

(* One that has registered by then is left, and taken for one not running. *)
LookAgain(w) ==
  /\ pc[w] = "lookAgain"
  /\ IF job[w].session \in Running(target[w])
       THEN Stopped(w, FALSE)
       ELSE Goto(w, "listWaiting") /\ UNCHANGED <<target, todo>>
  /\ UNCHANGED <<job, opened, holder, hostVars, fileVars, answer, blind, boundVars>>

(* The window it waits in is looked up; a list that fails shows none.      *)
ListWaiting(w) ==
  /\ pc[w] = "listWaiting"
  /\ \/ /\ \E n \in WaitingWindows(target[w], job[w].session) : opened' = [opened EXCEPT ![w] = n]
        /\ Goto(w, "closeWaiting")
        /\ UNCHANGED <<target, todo>>
     \/ /\ Stopped(w, FALSE)
        /\ UNCHANGED opened
  /\ UNCHANGED <<job, holder, hostVars, fileVars, answer, blind, boundVars>>

(* That window is closed, whether or not Claude has registered since; the  *)
(* request fails if it has gone or tmux fails.                             *)
CloseWaiting(w) ==
  LET n == opened[w]
  IN
  /\ pc[w] = "closeWaiting"
  /\ \/ /\ Open(n)
        /\ tmux' = [tmux EXCEPT ![n] = Closed]
        /\ answer' = Forgotten(target[w], job[w].session)
        /\ Stopped(w, TRUE)
     \/ /\ Goto(w, "done")
        /\ UNCHANGED <<target, todo, tmux, answer>>
  /\ opened' = [opened EXCEPT ![w] = NoWindow]
  /\ UNCHANGED <<job, holder, outside, fileVars, blind, boundVars>>
------------------------------------------------------------------------------
(* Starting *)

(* resume_held: point at a copy that runs already (or refuse, when it runs *)
(* outside tmux) rather than start a second.                               *)
Find(w) ==
  /\ pc[w] = "find"
  /\ Goto(w, IF job[w].session \in Running(target[w]) THEN "done" ELSE "findTagged")
  /\ UNCHANGED <<job, target, todo, opened, holder, hostVars, fileVars, answer, blind, boundVars>>

(* Variant: what Claude says is running is taken as all there is. *)
FindTranscript(w) ==
  /\ pc[w] = "findTagged"
  /\ \/ job[w].session \in transcripts[target[w]] /\ Goto(w, "open")
     \/ Goto(w, "done")
  /\ UNCHANGED <<job, target, todo, opened, holder, hostVars, fileVars, answer, blind, boundVars>>

(* Then at the window it was started in, whatever account that is tagged   *)
(* with, if tmux lists it; then the transcript has to be there, and its    *)
(* folder, and claude.                                                     *)
FindTagged(w) ==
  LET s == job[w].session
  IN
  /\ pc[w] = "findTagged"
  /\ \/ Tagged(s) # {} /\ Goto(w, "done") /\ UNCHANGED blind
     \/ s \in transcripts[target[w]] /\ Goto(w, "open") /\ Hidden(s)
     \/ Goto(w, "done") /\ UNCHANGED blind
  /\ UNCHANGED <<job, target, todo, opened, holder, hostVars, fileVars, answer, boundVars>>

(* Variant: the window isn't tagged with the account it was opened for. *)
OpenUntagged(w) ==
  /\ pc[w] = "open"
  /\ \E n \in Window :
       /\ ~Open(n)
       /\ tmux' = [tmux EXCEPT ![n] = [state |-> "starting", account |-> 0,
                                       session |-> job[w].session, tags |-> {}]]
       /\ opened' = [opened EXCEPT ![w] = n]
  /\ Goto(w, "tag")
  /\ UNCHANGED <<job, target, todo, holder, outside, fileVars, answer, blind, boundVars>>

(* launch::start: a window of its own with claude in it.                   *)
OpenWindow(w) ==
  /\ pc[w] = "open"
  /\ \E n \in Window :
       /\ ~Open(n)
       /\ \A v \in Worker \ {w} : pc[v] \in {"tag", "settle", "closeWaiting"} => opened[v] # n
       /\ tmux' = [tmux EXCEPT ![n] = [state |-> "starting", account |-> target[w],
                                       session |-> job[w].session, tags |-> {}]]
       /\ opened' = [opened EXCEPT ![w] = n]
  /\ Goto(w, "tag")
  /\ UNCHANGED <<job, target, todo, holder, outside, fileVars, answer, blind, boundVars>>

(* tmux can't open it. *)
OpenFails(w) ==
  /\ pc[w] = "open"
  /\ answer' = [answer EXCEPT ![target[w]] = NoAnswer]
  /\ Goto(w, "done")
  /\ UNCHANGED <<job, target, todo, opened, holder, hostVars, fileVars, blind, boundVars>>

(* The window is tagged with its account and, for a resume, its session; a *)
(* new session has no id yet to tag it with.  A tag tmux doesn't take is   *)
(* left out.                                                               *)
TagWindow(w) ==
  /\ pc[w] = "tag"
  /\ IF Open(opened[w])
       THEN \E tags \in SUBSET (IF job[w].op = "new" THEN {"account"} ELSE Tag) :
              tmux' = [tmux EXCEPT ![opened[w]].tags = tags]
       ELSE UNCHANGED tmux
  /\ Goto(w, "settle")
  /\ UNCHANGED <<job, target, todo, opened, holder, outside, fileVars, answer, blind, boundVars>>

(* settle: until Claude registers, its window goes, it asks something, or  *)
(* the time is up, whichever is first; then the kept answer is dropped.    *)
Settle(w) ==
  /\ pc[w] = "settle"
  /\ answer' = [answer EXCEPT ![target[w]] = NoAnswer]
  /\ Goto(w, "done")
  /\ UNCHANGED <<job, target, todo, opened, holder, hostVars, fileVars, blind, boundVars>>
------------------------------------------------------------------------------
(* Moving *)

RunningIn(s) == {a \in Account : s \in Running(a)}

(* moves::plan, then moves::transfer's refusals: a session still running   *)
(* moves only when that was confirmed and the source's copy is kept.  A    *)
(* newer copy or undecided memory is refused too.                          *)
Decided(w) ==
  LET s == job[w].session
      refused == \/ job[w].account = job[w].dest
                 \/ s \notin transcripts[job[w].account]
                 \/ RunningIn(s) # {} /\ (~job[w].options.confirm \/ job[w].options.after # "keep")
  IN \/ Goto(w, "done")
     \/ ~refused /\ Goto(w, "copy")

(* Stop it first, in every account it runs in, locked here or not. *)
PlanMove(w) ==
  LET running == RunningIn(job[w].session)
  IN
  /\ pc[w] = "plan"
  /\ IF /\ job[w].options.stopFirst /\ running # {}
        /\ job[w].account # job[w].dest
        /\ job[w].session \in transcripts[job[w].account]
       THEN /\ todo' = [todo EXCEPT ![w] = running]
            /\ \E a \in running : target' = [target EXCEPT ![w] = a]
            /\ Goto(w, "stop")
       ELSE Decided(w) /\ UNCHANGED <<target, todo>>
  /\ UNCHANGED <<job, opened, holder, hostVars, fileVars, answer, blind, boundVars>>

(* What's running has changed: plan again. *)
PlanAgain(w) ==
  /\ pc[w] = "replan"
  /\ Decided(w)
  /\ UNCHANGED <<job, target, todo, opened, holder, hostVars, fileVars, answer, blind, boundVars>>

AfterMove(w) ==
  /\ Goto(w, IF job[w].options.resume THEN "find" ELSE "done")
  /\ target' = [target EXCEPT ![w] = job[w].dest]

(* Variant: the transcript is moved, not copied, and lost with an error. *)
MoveTranscript(w) ==
  LET s == job[w].session IN
  /\ pc[w] = "copy"
  /\ \/ /\ Goto(w, "done")
        /\ transcripts' = [transcripts EXCEPT ![job[w].account] = @ \ {s}]
        /\ UNCHANGED target
     \/ /\ transcripts' = [transcripts EXCEPT ![job[w].dest] = @ \cup {s},
                                              ![job[w].account] = @ \ {s}]
        /\ AfterMove(w)
  /\ UNCHANGED <<job, todo, opened, holder, hostVars, archived, answer, blind, boundVars>>

(* apply_items and apply_memory: the transcript is the last item copied;   *)
(* an error before it ends the request.                                    *)
CopySession(w) ==
  /\ pc[w] = "copy"
  /\ \/ /\ Goto(w, "done")
        /\ UNCHANGED <<target, transcripts>>
     \/ /\ transcripts' = [transcripts EXCEPT ![job[w].dest] = @ \cup {job[w].session}]
        /\ IF job[w].options.after = "keep"
             THEN AfterMove(w)
             ELSE Goto(w, "takeOut") /\ UNCHANGED target
  /\ UNCHANGED <<job, todo, opened, holder, hostVars, archived, answer, blind, boundVars>>

(* The source's copy is archived (an error ends the request) or deleted,   *)
(* once both are checked to be the same (an error keeps it and goes on).   *)
TakeOut(w) ==
  LET a == job[w].account
      s == job[w].session
  IN
  /\ pc[w] = "takeOut"
  /\ \/ /\ job[w].options.after = "archive"
        /\ \/ /\ s \in transcripts[a]
              /\ transcripts' = [transcripts EXCEPT ![a] = @ \ {s}]
              /\ archived' = [archived EXCEPT ![a] = @ \cup {s}]
              /\ AfterMove(w)
           \/ Goto(w, "done") /\ UNCHANGED <<target, fileVars>>
     \/ /\ job[w].options.after = "delete"
        /\ AfterMove(w)
        /\ \/ /\ s \in transcripts[job[w].dest]
              /\ transcripts' = [transcripts EXCEPT ![a] = @ \ {s}]
           \/ UNCHANGED transcripts
        /\ UNCHANGED archived
  /\ UNCHANGED <<job, todo, opened, holder, hostVars, answer, blind, boundVars>>
------------------------------------------------------------------------------
(* The host, whatever the server does *)

(* Claude gets past whatever it asked and registers its session. *)
Register(n) ==
  /\ tmux[n].state = "starting"
  /\ tmux' = [tmux EXCEPT ![n].state = "running"]
  /\ UNCHANGED <<workerVars, holder, outside, fileVars, answer, blind, boundVars>>

(* Claude writes to its transcript, which may have been moved since. *)
Write(a, s) ==
  /\ s \in Registered(a)
  /\ transcripts' = [transcripts EXCEPT ![a] = @ \cup {s}]
  /\ UNCHANGED <<workerVars, holder, hostVars, archived, answer, blind, boundVars>>

(* Claude exits, and its window closes, unless tmux is set to keep it. *)
Exit(n) ==
  /\ tmux[n].state \in {"starting", "running"}
  /\ tmux' = [tmux EXCEPT ![n] = IF RemainOnExit THEN [@ EXCEPT !.state = "exited"] ELSE Closed]
  /\ answer' = Forgotten(tmux[n].account, tmux[n].session)
  /\ UNCHANGED <<workerVars, holder, outside, fileVars, blind, boundVars>>

(* Someone closes a window Claude has exited in. *)
CloseExited(n) ==
  /\ tmux[n].state = "exited"
  /\ tmux' = [tmux EXCEPT ![n] = Closed]
  /\ UNCHANGED <<workerVars, holder, outside, fileVars, answer, blind, boundVars>>

(* A session opened in a terminal outside tmux, and closed there. *)
OpenOutside(a, s) ==
  /\ OwnTerminals
  /\ s \in transcripts[a] /\ <<a, s>> \notin outside
  /\ outside' = outside \cup {<<a, s>>}
  /\ UNCHANGED <<workerVars, holder, tmux, fileVars, answer, blind, boundVars>>

CloseOutside(a, s) ==
  /\ <<a, s>> \in outside
  /\ outside' = outside \ {<<a, s>>}
  /\ answer' = Forgotten(a, s)
  /\ UNCHANGED <<workerVars, holder, tmux, fileVars, blind, boundVars>>

(* An answer of `claude agents`, to any of the server's readers, is kept   *)
(* for two seconds.                                                        *)
KeepAnswer(a) ==
  /\ ~answer[a].kept
  /\ answer' = [answer EXCEPT ![a] = [kept |-> TRUE, live |-> Registered(a)]]
  /\ UNCHANGED <<workerVars, holder, hostVars, fileVars, blind, boundVars>>

AnswerExpires(a) ==
  /\ answer[a].kept
  /\ answer' = [answer EXCEPT ![a] = NoAnswer]
  /\ UNCHANGED <<workerVars, holder, hostVars, fileVars, blind, boundVars>>

(* The server is killed and started again: tmux, and every Claude in it,   *)
(* go on; threads, locks and the kept answers don't.                       *)
Crash ==
  /\ crashes < MaxCrashes
  /\ crashes' = crashes + 1
  /\ pc' = [w \in Worker |-> "idle"]
  /\ job' = [w \in Worker |-> NoJob]
  /\ target' = [w \in Worker |-> 1]
  /\ todo' = [w \in Worker |-> {}]
  /\ opened' = [w \in Worker |-> NoWindow]
  /\ holder' = [a \in Account |-> NoWorker]
  /\ answer' = [a \in Account |-> NoAnswer]
  /\ UNCHANGED <<hostVars, fileVars, blind, requests>>
------------------------------------------------------------------------------
Serve(w) ==
  \/ TakeLock(w) \/ TakeSecondLock(w) \/ Finish(w)
  \/ StopRunning(w) \/ StopFails(w) \/ StopNotRunning(w)
  \/ LookAgain(w) \/ ListWaiting(w) \/ CloseWaiting(w)
  \/ Find(w) \/ FindTagged(w) \/ OpenWindow(w) \/ OpenFails(w) \/ TagWindow(w) \/ Settle(w)
  \/ PlanMove(w) \/ PlanAgain(w) \/ CopySession(w) \/ TakeOut(w)

Host ==
  \/ \E n \in Window : Register(n) \/ Exit(n) \/ CloseExited(n)
  \/ \E a \in Account, s \in Session : OpenOutside(a, s) \/ CloseOutside(a, s) \/ Write(a, s)
  \/ \E a \in Account : KeepAnswer(a) \/ AnswerExpires(a)

Next ==
  \/ \E w \in Worker : Begin(w) \/ Serve(w)
  \/ Host
  \/ Crash

Spec == Init /\ [][Next]_vars

(* Every wait of a request is bounded (SIGTERM's and SIGKILL's grace, the  *)
(* settling time), so a thread that can take its next step takes it.       *)
FairSpec == Spec /\ \A w \in Worker : WF_vars(Serve(w))
------------------------------------------------------------------------------
(* Properties *)

Place == {"idle", "lock", "lock2", "stop", "lookAgain", "listWaiting", "closeWaiting",
          "find", "findTagged", "open", "tag", "settle",
          "plan", "replan", "copy", "takeOut", "done", "wasNotRunning"}

TypeOK ==
  /\ pc \in [Worker -> Place]
  /\ job \in [Worker -> Job]
  /\ target \in [Worker -> Account]
  /\ todo \in [Worker -> SUBSET Account]
  /\ opened \in [Worker -> Window \cup {NoWindow}]
  /\ holder \in [Account -> Worker \cup {NoWorker}]
  /\ tmux \in [Window -> WindowRecord]
  /\ outside \in SUBSET (Account \X Session)
  /\ transcripts \in [Account -> SUBSET Session]
  /\ archived \in [Account -> SUBSET Session]
  /\ answer \in [Account -> [kept : BOOLEAN, live : SUBSET Session]]
  /\ blind \in SUBSET Session
  /\ requests \in 0 .. MaxRequests
  /\ crashes \in 0 .. MaxCrashes

(* Where a worker is fits the request it serves: only a move goes through  *)
(* the steps of a move, past its refusals only between two accounts, and   *)
(* what it starts, it starts in the account the request says.              *)
Inside == Place \ {"idle", "lock", "lock2"}
Stopping == {"stop", "lookAgain", "listWaiting", "closeWaiting"}
Starting == {"find", "findTagged", "open", "tag", "settle"}

InOrder(w) ==
  LET j == job[w] IN
  /\ pc[w] = "lock" => j.op # "none"
  /\ pc[w] \in Stopping => j.op \in {"stop", "restart", "transfer"}
  /\ pc[w] \in {"lock2", "plan", "replan", "copy", "takeOut"} => j.op = "transfer"
  /\ pc[w] \in {"copy", "takeOut"} => j.account # j.dest
  /\ j.op # "transfer" => j.account = j.dest /\ (pc[w] # "idle" => target[w] = j.account)
  /\ j.op = "transfer" /\ pc[w] \in Starting => target[w] = j.dest

JobsInOrder == \A w \in Worker : InOrder(w)

(* A worker past its lock steps holds the locks of every account its       *)
(* request names, and one waiting for the second holds the first.          *)
LocksHeld ==
  \A w \in Worker :
    /\ pc[w] \in Inside => holder[job[w].account] = w /\ holder[job[w].dest] = w
    /\ pc[w] = "lock2" => holder[Lower(job[w])] = w

(* The windows opened for session s of account a that a list of tmux's     *)
(* shows: tagged with it, or about to be by the worker that opened them.   *)
Resumed(a, s) ==
  {n \in Window :
     /\ Open(n) /\ tmux[n].account = a /\ tmux[n].session = s
     /\ \/ "session" \in tmux[n].tags
        \/ \E w \in Worker : pc[w] = "tag" /\ opened[w] = n /\ job[w].op # "new"}

(* However many resumes, restarts and moves arrive together and however    *)
(* stale the kept answer is, the server opens a second window for a        *)
(* session of an account only beside one without its tag (the server was   *)
(* killed before it tagged it, tmux didn't take the tag, or it is that of  *)
(* a new session), or when tmux couldn't list the windows.  There it does  *)
(* open one, though the code says "Already running: point at it rather     *)
(* than start a second copy" (resume_held).                                *)
OneCopy ==
  \A a \in Account, s \in Session \ blind : \A m, n \in Resumed(a, s) : m = n

(* Why it holds: the window a worker is about to tag is the one it opened  *)
(* for its request, and one about to open a window for a session found     *)
(* none, and none has been opened since.                                   *)
OwnWindow ==
  \A w \in Worker :
    pc[w] = "tag" =>
      /\ opened[w] \in Window
      /\ Open(opened[w]) => /\ tmux[opened[w]].account = target[w]
                            /\ tmux[opened[w]].session = job[w].session

NoneYet ==
  \A w \in Worker :
    pc[w] = "open" /\ job[w].op # "new" /\ job[w].session \notin blind =>
      Resumed(target[w], job[w].session) = {}

(* A move never loses the conversation: a session some account has, in     *)
(* the open or archived, is still somewhere after any step, though two     *)
(* moves of it the other way round, errors halfway and a kill may mix.     *)
SessionKept == [][\A s \in Session : HasCopy(s) => HasCopy(s)']_vars

(* While a move plans, copies and takes out, no other request opens a      *)
(* window for a session of either account: its plan of what runs stays     *)
(* true of what the server itself starts.                                  *)
MoveUndisturbed ==
  [][\A w \in Worker : pc[w] \in {"plan", "replan", "copy", "takeOut"} =>
       \A n \in Window : ~Open(n) /\ Open(n)' =>
         tmux'[n].account \notin {job[w].account, job[w].dest}]_vars

(* Every request is answered: whatever locks others hold, none of them     *)
(* waits forever.                                                          *)
RequestsAnswered == \A w \in Worker : pc[w] # "idle" ~> pc[w] = "idle"
=============================================================================
