---------------------------- MODULE ReviveProofs ----------------------------
(***************************************************************************)
(* That what has to come back after a reboot stays on the list until it    *)
(* has been seen to, and that what was stopped stays stopped, for any      *)
(* number of sessions, accounts and requests.                              *)
(***************************************************************************)
EXTENDS Revive, TLAPS

USE ThreadAssumption, SessionAssumption DEF Thread, Goto, tmuxVars, diskVars, historyVars

(* An account is looked at: what is noted and runs in it is seen.          *)
LEMMA LookAtKeeps ==
  ASSUME ReviveInv, NEW t \in Thread, LookAt(t)
  PROVE  ReviveInv'
<1> USE DEF ReviveInv, LookAt
<1>1. TypeOK'
  BY DEF TypeOK, Holding, Place
<1>2. OverlapsKnown' /\ SeenAlone'
  BY DEF TypeOK, OverlapsKnown, SeenAlone, Remembering, Waiting
<1>3. NotedListed' /\ ApartKept'
  BY DEF NotedListed, ApartKept, Reviving, Waiting
<1>4. StoppedKept'
  BY DEF StoppedKept, Remembering
<1> QED
  BY <1>1, <1>2, <1>3, <1>4

(* running.json.tmp is emptied: no lone remember is past that.             *)
LEMMA OpenTmpKeeps ==
  ASSUME ReviveInv, NEW t \in Thread, OpenTmp(t)
  PROVE  ReviveInv'
<1> USE DEF ReviveInv, OpenTmp
<1>1. TypeOK'
  BY BoundsAssumption DEF TypeOK, Holding, Place, Content, Broken
<1>2. OverlapsKnown' /\ SeenAlone'
  BY DEF TypeOK, OverlapsKnown, SeenAlone, Remembering, Waiting
<1>3. NotedListed' /\ ApartKept'
  BY DEF TypeOK, NotedListed, ApartKept, Reviving, Waiting, Broken
<1>4. StoppedKept'
  BY DEF StoppedKept, Remembering, Broken
<1> QED
  BY <1>1, <1>2, <1>3, <1>4

(* A lone remember writes its own list, into the file it emptied.          *)
LEMMA FillKeeps ==
  ASSUME ReviveInv, NEW t \in Thread, Fill(t)
  PROVE  ReviveInv'
<1> USE DEF ReviveInv, Fill, Written
<1>1. TypeOK'
  BY BoundsAssumption DEF TypeOK, Holding, Place, Content, Listing, Broken
<1>2. OverlapsKnown' /\ SeenAlone'
  BY DEF TypeOK, OverlapsKnown, SeenAlone, Remembering, Waiting, Broken
<1>3. NotedListed' /\ ApartKept'
  BY DEF TypeOK, NotedListed, ApartKept, OverlapsKnown, Reviving, Waiting, Listing, Broken
<1>4. StoppedKept'
  BY DEF StoppedKept, Remembering, Listing, Broken
<1> QED
  BY <1>1, <1>2, <1>3, <1>4

(* The list is put in place: a lone one has all that is noted and runs.    *)
LEMMA RenameKeeps ==
  ASSUME ReviveInv, NEW t \in Thread, Rename(t)
  PROVE  ReviveInv'
<1> USE DEF ReviveInv, Rename, Remembered
<1>1. TypeOK'
  <2>1. CASE tmp.kind = "none"
    BY <2>1 DEF TypeOK, Holding, Place
  <2>2. CASE tmp.kind # "none"
    <3>1. Nothing \in Content
      BY BoundsAssumption DEF Content, Nothing
    <3>2. handle' \in [Thread -> {"none", "tmp", "file", "gone"}]
      BY <2>2 DEF TypeOK
    <3>3. due' \in [Session -> {"nothing", "apart", "rewritten", "clashed"}]
      BY <2>2 DEF TypeOK
    <3>4. clash' \in BOOLEAN
      BY <2>2
    <3>5. noted' \in SUBSET running' /\ tmp' \in Content /\ file' \in Content
      BY <2>2, <3>1 DEF TypeOK
    <3>6. stopped' \in SUBSET Session
      BY DEF TypeOK, Holding
    <3> QED
      BY <3>2, <3>3, <3>4, <3>5, <3>6 DEF TypeOK, Holding, Place
  <2> QED
    BY <2>1, <2>2
<1>2. OverlapsKnown' /\ SeenAlone'
  <2>1. CASE tmp.kind = "none"
    BY <2>1 DEF TypeOK, OverlapsKnown, SeenAlone, Remembering, Waiting
  <2>2. CASE tmp.kind # "none"
    <3>1. /\ \A u, v \in Remembering' : u # v => u \in mixed'
          /\ \A u \in Thread : handle'[u] # "none" => pc'[u] = "fill"
      BY <2>2 DEF TypeOK, OverlapsKnown, Remembering
    <3>2. ASSUME NEW u \in Thread, handle'[u] = "file"
          PROVE  clash'
      <4>1. handle[u] = "tmp" /\ u \in Remembering /\ u # t /\ t \in Remembering
        BY <2>2, <3>2 DEF OverlapsKnown, Remembering
      <4>2. t \in mixed
        BY <4>1 DEF OverlapsKnown
      <4> QED
        BY <2>2, <4>2
    <3>3. Waiting' = {}
      BY <2>2 DEF Waiting, ApartKept
    <3>4. SeenAlone'
      BY <2>2 DEF TypeOK, OverlapsKnown, SeenAlone, Remembering
    <3> QED
      BY <3>1, <3>2, <3>3, <3>4 DEF OverlapsKnown
  <2> QED
    BY <2>1, <2>2
<1>3. NotedListed' /\ ApartKept'
  <2>1. CASE tmp.kind = "none"
    BY <2>1 DEF NotedListed, ApartKept, Reviving, Waiting
  <2>2. CASE tmp.kind # "none"
    <3>1. NotedListed'
      <4>1. file'.boot <= boot' /\ tmp'.boot <= boot'
        BY <2>2 DEF TypeOK, NotedListed, Nothing
      <4>2. ASSUME t \notin mixed, NEW s \in noted'
            PROVE  file'.kind = "list" /\ s \in file'.list
        BY <2>2, <4>2 DEF SeenAlone, Remembering, Listing
      <4> QED
        BY <2>2, <4>1, <4>2 DEF NotedListed
    <3>2. Waiting' = {}
      BY <2>2 DEF Waiting, ApartKept
    <3> QED
      BY <3>1, <3>2 DEF ApartKept
  <2> QED
    BY <2>1, <2>2
<1>4. StoppedKept'
  <2>1. CASE tmp.kind = "none"
    BY <2>1 DEF StoppedKept, Remembering
  <2>2. CASE tmp.kind # "none" /\ ~(t \in Requester \ mixed /\ ~Reviving)
    BY <2>2 DEF StoppedKept, Remembering, Nothing
  <2>3. CASE tmp.kind # "none" /\ t \in Requester \ mixed /\ ~Reviving
    <3>1. at[t] \notin running \cup atPrompt \cup draft[t]
      BY <2>3 DEF StoppedKept, Remembering
    <3>2. todo = {}
      BY <2>3 DEF ApartKept, Reviving
    <3>3. file'.list = draft[t] /\ tmp'.list = {}
      BY <2>3 DEF SeenAlone, Remembering, Listing, Nothing
    <3>4. Remembering' = {}
      BY <2>3 DEF TypeOK, OverlapsKnown, Remembering
    <3> QED
      BY <2>3, <3>1, <3>2, <3>3, <3>4 DEF StoppedKept
  <2> QED
    BY <2>1, <2>2, <2>3
<1> QED
  BY <1>1, <1>2, <1>3, <1>4

(* A remember ends early.                                                  *)
LEMMA RememberFailsKeeps ==
  ASSUME ReviveInv, NEW t \in Thread, RememberFails(t)
  PROVE  ReviveInv'
<1> USE DEF ReviveInv, RememberFails, Remembered
<1>1. TypeOK'
  BY DEF TypeOK, Holding, Place
<1>2. OverlapsKnown' /\ SeenAlone'
  BY DEF TypeOK, OverlapsKnown, SeenAlone, Remembering, Waiting
<1>3. NotedListed' /\ ApartKept'
  BY DEF NotedListed, ApartKept, Reviving, Waiting
<1>4. StoppedKept'
  BY DEF StoppedKept, Remembering
<1> QED
  BY <1>1, <1>2, <1>3, <1>4

(* The list is read: what has to come back is on it.                       *)
LEMMA ReadListKeeps ==
  ASSUME ReviveInv, ReadList
  PROVE  ReviveInv'
<1> USE DEF ReviveInv, ReadList
<1>1. TypeOK'
  BY DEF TypeOK, Holding, Place, Content
<1>2. OverlapsKnown' /\ SeenAlone'
  BY DEF OverlapsKnown, SeenAlone, Remembering, Waiting
<1>3. NotedListed' /\ ApartKept'
  BY DEF TypeOK, NotedListed, ApartKept, Reviving, Waiting
<1>4. StoppedKept'
  BY DEF StoppedKept, Remembering
<1> QED
  BY <1>1, <1>2, <1>3, <1>4

(* The next session on the list.                                           *)
LEMMA NextListedKeeps ==
  ASSUME ReviveInv, NextListed
  PROVE  ReviveInv'
<1> USE DEF ReviveInv, NextListed, Settled
<1>1. TypeOK'
  BY DEF TypeOK, Holding, Place
<1>2. OverlapsKnown' /\ SeenAlone'
  BY DEF TypeOK, OverlapsKnown, SeenAlone, Remembering, Waiting
<1>3. NotedListed' /\ ApartKept'
  BY DEF TypeOK, NotedListed, ApartKept, Reviving, Waiting
<1>4. StoppedKept'
  BY DEF TypeOK, StoppedKept, Remembering
<1> QED
  BY <1>1, <1>2, <1>3, <1>4

LEMMA TakeToReviveKeeps ==
  ASSUME ReviveInv, TakeToRevive
  PROVE  ReviveInv'
<1> USE DEF ReviveInv, TakeToRevive, Take
<1>1. TypeOK'
  BY DEF TypeOK, Holding, Place
<1>2. OverlapsKnown' /\ SeenAlone'
  BY DEF OverlapsKnown, SeenAlone, Remembering, Waiting
<1>3. NotedListed' /\ ApartKept'
  BY DEF NotedListed, ApartKept, Reviving, Waiting
<1>4. StoppedKept'
  BY DEF StoppedKept, Remembering
<1> QED
  BY <1>1, <1>2, <1>3, <1>4

(* A session is seen to: no request has stopped it.                        *)
LEMMA ResumeKeeps ==
  ASSUME ReviveInv, Resume
  PROVE  ReviveInv'
<1> USE DEF ReviveInv, Resume, Settled, Release, Launch
<1>1. TypeOK'
  <2>1. running' \in SUBSET Session /\ atPrompt' \in SUBSET (Session \ running')
    BY DEF TypeOK, Holding
  <2>2. tmuxUp' \in BOOLEAN
    BY DEF TypeOK
  <2>3. noted' \in SUBSET running'
    BY DEF TypeOK
  <2>4. lock' \in [Account -> Thread \cup {Nobody}]
    BY DEF TypeOK
  <2>5. /\ pc' \in [Thread -> Place] /\ at' \in [Thread -> Session \cup {NoSession}]
        /\ todo' \in SUBSET Session
        /\ due' \in [Session -> {"nothing", "apart", "rewritten", "clashed"}]
    BY DEF TypeOK, Place
  <2>6. ASSUME NEW u \in Thread, pc'[u] \in {"lock", "wait"} \/ Holding(u)'
        PROVE  at'[u] \in Session /\ (Holding(u)' => lock'[AccountOf[at'[u]]] = u)
    BY <2>6 DEF TypeOK, Holding
  <2> QED
    BY <2>1, <2>2, <2>3, <2>4, <2>5, <2>6 DEF TypeOK
<1>2. OverlapsKnown' /\ SeenAlone'
  BY DEF OverlapsKnown, SeenAlone, Remembering, Waiting
<1>3. NotedListed' /\ ApartKept'
  BY DEF TypeOK, NotedListed, ApartKept, Reviving, Waiting
<1>4. StoppedKept'
  BY DEF TypeOK, Holding, StoppedKept, ApartKept, Remembering
<1> QED
  BY <1>1, <1>2, <1>3, <1>4

(* Nothing is to be revived, so nothing has to come back any more.         *)
LEMMA RememberNowAndThenKeeps ==
  ASSUME ReviveInv, RememberNowAndThen
  PROVE  ReviveInv'
<1> USE DEF ReviveInv, RememberNowAndThen, BeginRemember
<1>1. TypeOK'
  <2>1. mixed' \in SUBSET Thread
    BY DEF TypeOK, Remembering
  <2> QED
    BY <2>1 DEF TypeOK, Holding, Place
<1>2. OverlapsKnown' /\ SeenAlone'
  BY DEF TypeOK, OverlapsKnown, SeenAlone, Remembering, Waiting
<1>3. NotedListed' /\ ApartKept'
  BY DEF NotedListed, ApartKept, Waiting
<1>4. StoppedKept'
  BY DEF TypeOK, StoppedKept, Remembering
<1> QED
  BY <1>1, <1>2, <1>3, <1>4

(* Requests, Claude and kills write no list.                               *)
LEMMA AskStopKeeps ==
  ASSUME ReviveInv, NEW t \in Requester, AskStop(t)
  PROVE  ReviveInv'
<1> USE DEF ReviveInv, AskStop, Up
<1>1. TypeOK'
  BY BoundsAssumption DEF TypeOK, Holding, Place
<1>2. OverlapsKnown' /\ SeenAlone'
  BY DEF OverlapsKnown, SeenAlone, Remembering, Waiting
<1>3. NotedListed' /\ ApartKept'
  BY DEF NotedListed, ApartKept, Reviving, Waiting
<1>4. StoppedKept'
  BY DEF StoppedKept, Remembering
<1> QED
  BY <1>1, <1>2, <1>3, <1>4

LEMMA TakeToStopKeeps ==
  ASSUME ReviveInv, NEW t \in Requester, TakeToStop(t)
  PROVE  ReviveInv'
<1> USE DEF ReviveInv, TakeToStop, Take
<1>1. TypeOK'
  BY DEF TypeOK, Holding, Place
<1>2. OverlapsKnown' /\ SeenAlone'
  BY DEF OverlapsKnown, SeenAlone, Remembering, Waiting
<1>3. NotedListed' /\ ApartKept'
  BY DEF NotedListed, ApartKept, Reviving, Waiting
<1>4. StoppedKept'
  BY DEF StoppedKept, Remembering
<1> QED
  BY <1>1, <1>2, <1>3, <1>4

(* A session is stopped: its lock keeps it so until the request answers.   *)
LEMMA StopKeeps ==
  ASSUME ReviveInv, NEW t \in Requester, Stop(t)
  PROVE  ReviveInv'
<1> USE DEF ReviveInv, Stop, BeginRemember, WindowsGone, Ended, Settled
<1>1. TypeOK'
  <2>1. mixed' \in SUBSET Thread
    BY DEF TypeOK, Remembering
  <2>2. tmuxUp' \in BOOLEAN
    BY DEF TypeOK
  <2>3. running' \in SUBSET Session /\ atPrompt' \in SUBSET (Session \ running') /\ noted' \in SUBSET running'
    BY DEF TypeOK
  <2> QED
    BY <2>1, <2>2, <2>3 DEF TypeOK, Holding, Place
<1>2. OverlapsKnown' /\ SeenAlone'
  <2>1. OverlapsKnown'
    BY DEF OverlapsKnown, Remembering, Waiting
  <2>2. SeenAlone'
    BY DEF TypeOK, SeenAlone, Remembering
  <2> QED
    BY <2>1, <2>2
<1>3. NotedListed' /\ ApartKept'
  BY DEF NotedListed, ApartKept, Reviving, Waiting
<1>4. StoppedKept'
  BY DEF TypeOK, StoppedKept, Remembering
<1> QED
  BY <1>1, <1>2, <1>3, <1>4

LEMMA StopFailsKeeps ==
  ASSUME ReviveInv, NEW t \in Requester, StopFails(t)
  PROVE  ReviveInv'
<1> USE DEF ReviveInv, StopFails
<1>1. TypeOK'
  BY DEF TypeOK, Holding, Place
<1>2. OverlapsKnown' /\ SeenAlone'
  BY DEF OverlapsKnown, SeenAlone, Remembering, Waiting
<1>3. NotedListed' /\ ApartKept'
  BY DEF NotedListed, ApartKept, Reviving, Waiting
<1>4. StoppedKept'
  BY DEF StoppedKept, Remembering
<1> QED
  BY <1>1, <1>2, <1>3, <1>4

LEMMA AnswerKeeps ==
  ASSUME ReviveInv, NEW t \in Requester, Answer(t)
  PROVE  ReviveInv'
<1> USE DEF ReviveInv, Answer, Release
<1>1. TypeOK'
  BY DEF TypeOK, Holding, Place
<1>2. OverlapsKnown' /\ SeenAlone'
  BY DEF OverlapsKnown, SeenAlone, Remembering, Waiting
<1>3. NotedListed' /\ ApartKept'
  BY DEF NotedListed, ApartKept, Reviving, Waiting
<1>4. StoppedKept'
  BY DEF StoppedKept, Remembering
<1> QED
  BY <1>1, <1>2, <1>3, <1>4

(* A request starts a session, whose lock is free.                         *)
LEMMA StartOtherKeeps ==
  ASSUME ReviveInv, NEW s \in Session, StartOther(s)
  PROVE  ReviveInv'
<1> USE DEF ReviveInv, StartOther, Up, Launch, Settled, memoryVars
<1>1. TypeOK'
  BY BoundsAssumption DEF TypeOK, Holding
<1>2. OverlapsKnown' /\ SeenAlone'
  BY DEF OverlapsKnown, SeenAlone, Remembering, Waiting
<1>3. NotedListed' /\ ApartKept'
  BY DEF NotedListed, ApartKept, Reviving, Waiting
<1>4. StoppedKept'
  BY DEF TypeOK, Holding, StoppedKept, Remembering
<1> QED
  BY <1>1, <1>2, <1>3, <1>4

LEMMA RegisterKeeps ==
  ASSUME ReviveInv, NEW s \in Session, Register(s)
  PROVE  ReviveInv'
<1> USE DEF ReviveInv, Register, memoryVars
<1>1. TypeOK'
  BY DEF TypeOK, Holding
<1>2. OverlapsKnown' /\ SeenAlone'
  BY DEF OverlapsKnown, SeenAlone, Remembering, Waiting
<1>3. NotedListed' /\ ApartKept'
  BY DEF NotedListed, ApartKept, Reviving, Waiting
<1>4. StoppedKept'
  BY DEF StoppedKept, Remembering
<1> QED
  BY <1>1, <1>2, <1>3, <1>4

LEMMA EndKeeps ==
  ASSUME ReviveInv, NEW s \in Session, End(s)
  PROVE  ReviveInv'
<1> USE DEF ReviveInv, End, WindowsGone, Ended, memoryVars
<1>1. TypeOK'
  BY DEF TypeOK, Holding
<1>2. OverlapsKnown' /\ SeenAlone'
  BY DEF OverlapsKnown, SeenAlone, Remembering, Waiting
<1>3. NotedListed' /\ ApartKept'
  BY DEF NotedListed, ApartKept, Reviving, Waiting
<1>4. StoppedKept'
  BY DEF StoppedKept, Remembering
<1> QED
  BY <1>1, <1>2, <1>3, <1>4

LEMMA KillKeeps ==
  ASSUME ReviveInv, Kill
  PROVE  ReviveInv'
<1> USE DEF ReviveInv, Kill, Up, ThreadsGone
<1>1. TypeOK'
  BY BoundsAssumption DEF TypeOK, Holding, Place
<1>2. OverlapsKnown' /\ SeenAlone'
  BY DEF OverlapsKnown, SeenAlone, Remembering
<1>3. NotedListed' /\ ApartKept'
  BY DEF NotedListed, ApartKept, Waiting
<1>4. StoppedKept'
  BY DEF StoppedKept, Remembering
<1> QED
  BY <1>1, <1>2, <1>3, <1>4

(* What is noted is on the list of the boot that ends.                     *)
LEMMA RebootKeeps ==
  ASSUME ReviveInv, Reboot
  PROVE  ReviveInv'
<1> USE DEF ReviveInv, Reboot, ThreadsGone, Ended
<1>1. TypeOK'
  <2>1. due' \in [Session -> {"nothing", "apart", "rewritten", "clashed"}]
    BY DEF TypeOK
  <2>2. boot' \in 1 .. MaxBoots
    BY BoundsAssumption DEF TypeOK
  <2>3. \A t \in Thread : pc'[t] \notin {"lock", "wait"} /\ ~Holding(t)'
    BY DEF Holding
  <2>4. pc' \in [Thread -> Place] /\ lock' \in [Account -> Thread \cup {Nobody}]
    BY DEF Place
  <2>5. noted' \in SUBSET running' /\ atPrompt' \in SUBSET (Session \ running')
    BY DEF TypeOK
  <2> QED
    BY <2>1, <2>2, <2>3, <2>4, <2>5 DEF TypeOK
<1>2. OverlapsKnown' /\ SeenAlone'
  BY DEF OverlapsKnown, SeenAlone, Remembering
<1>3. NotedListed' /\ ApartKept'
  <2>1. NotedListed'
    BY DEF TypeOK, NotedListed, Content
  <2>2. ASSUME NEW s \in Session, due'[s] = "apart"
        PROVE  file.kind = "list" /\ s \in file.list /\ file.boot # boot + 1
    BY <2>2, BoundsAssumption DEF TypeOK, NotedListed, ApartKept, Waiting
  <2> QED
    BY <2>1, <2>2 DEF ApartKept, Waiting
<1>4. StoppedKept'
  BY DEF StoppedKept, Remembering
<1> QED
  BY <1>1, <1>2, <1>3, <1>4

LEMMA StartKeeps ==
  ASSUME ReviveInv, Start
  PROVE  ReviveInv'
<1> USE DEF ReviveInv, Start, Up
<1>1. TypeOK'
  BY DEF TypeOK, Holding, Place
<1>2. OverlapsKnown' /\ SeenAlone'
  BY DEF OverlapsKnown, SeenAlone, Remembering, Waiting
<1>3. NotedListed' /\ ApartKept'
  BY DEF NotedListed, ApartKept, Reviving, Waiting
<1>4. StoppedKept'
  BY DEF StoppedKept, Remembering
<1> QED
  BY <1>1, <1>2, <1>3, <1>4

LEMMA InitReviveInv == Init => ReviveInv
<1> SUFFICES ASSUME Init PROVE ReviveInv
  OBVIOUS
<1> USE DEF Init
<1>1. Remembering = {} /\ Waiting = {}
  BY DEF Remembering, Waiting
<1>2. TypeOK
  <2>1. tmuxUp \in BOOLEAN
    OBVIOUS
  <2>2. Nothing \in Content
    BY BoundsAssumption DEF Content, Nothing
  <2>3. \A t \in Thread : pc[t] \notin {"lock", "wait"} /\ ~Holding(t)
    BY DEF Holding
  <2>4. counts \in [stops : 0 .. MaxStops, starts : 0 .. MaxStarts, kills : 0 .. MaxKills]
    BY BoundsAssumption
  <2>5. boot \in 1 .. MaxBoots
    BY BoundsAssumption
  <2> QED
    BY <2>1, <2>2, <2>3, <2>4, <2>5 DEF TypeOK, Place
<1>3. OverlapsKnown /\ SeenAlone
  BY <1>1 DEF OverlapsKnown, SeenAlone
<1>4. NotedListed /\ ApartKept /\ StoppedKept
  BY <1>1 DEF NotedListed, ApartKept, StoppedKept, Nothing
<1> QED
  BY <1>2, <1>3, <1>4 DEF ReviveInv

LEMMA RememberKeeps ==
  ASSUME ReviveInv, NEW t \in Thread, Remember(t)
  PROVE  ReviveInv'
BY LookAtKeeps, OpenTmpKeeps, FillKeeps, RenameKeeps, RememberFailsKeeps DEF Remember

LEMMA StepKeepsReviveInv ==
  ASSUME ReviveInv, [Next]_vars
  PROVE  ReviveInv'
<1>1. CASE Bring
  BY <1>1, ReadListKeeps, NextListedKeeps, TakeToReviveKeeps, ResumeKeeps, RememberNowAndThenKeeps,
     RememberKeeps DEF Bring, Thread
<1>2. ASSUME NEW t \in Requester, AskStop(t) \/ Serve(t)
      PROVE  ReviveInv'
  BY <1>2, AskStopKeeps, TakeToStopKeeps, StopKeeps, StopFailsKeeps, AnswerKeeps, RememberKeeps
     DEF Serve, Thread
<1>3. ASSUME NEW s \in Session, StartOther(s) \/ Register(s) \/ End(s)
      PROVE  ReviveInv'
  BY <1>3, StartOtherKeeps, RegisterKeeps, EndKeeps
<1>4. CASE Kill \/ Reboot \/ Start
  BY <1>4, KillKeeps, RebootKeeps, StartKeeps
<1>5. CASE UNCHANGED vars
  <2> USE <1>5 DEF vars, memoryVars, ReviveInv
  <2>1. TypeOK'
    BY DEF TypeOK, Holding
  <2>2. OverlapsKnown' /\ SeenAlone'
    BY DEF OverlapsKnown, SeenAlone, Remembering, Waiting
  <2>3. NotedListed' /\ ApartKept' /\ StoppedKept'
    BY DEF NotedListed, ApartKept, StoppedKept, Remembering, Reviving, Waiting
  <2> QED
    BY <2>1, <2>2, <2>3
<1> QED
  BY <1>1, <1>2, <1>3, <1>4, <1>5 DEF Next

(* In every reachable state, types and locks are in order, and threads     *)
(* know what ReviveInv says.                                               *)
THEOREM ReviveInvAlways == Spec => []ReviveInv
BY InitReviveInv, StepKeepsReviveInv, PTL DEF Spec

(* Every variable keeps its type, a thread that works on a session has one *)
(* and holds its account's lock, and no session waits at the prompt that   *)
(* runs.                                                                   *)
THEOREM ReviveTypesAlways == Spec => []TypeOK
<1>1. ReviveInv => TypeOK
  BY DEF ReviveInv
<1> QED
  BY <1>1, ReviveInvAlways, PTL

(* What ran and was on the list at a reboot comes back, as long as no      *)
(* request replaces the list: nothing revive, remember, kills or further   *)
(* reboots do takes it off.                                                *)
THEOREM ApartAlwaysComesBack == Spec => []ApartComesBack
<1>1. ReviveInv => ApartComesBack
  BY DEF ReviveInv, ApartKept, ApartComesBack, ComesBack, Waiting
<1> QED
  BY <1>1, ReviveInvAlways, PTL

(* revive resumes no session that a request has stopped and that nobody    *)
(* has started since.                                                      *)
THEOREM StoppedAlwaysStays == Spec => []StoppedStays
<1>1. ReviveInv => StoppedStays
  BY DEF ReviveInv, ApartKept, StoppedKept, StoppedStays
<1> QED
  BY <1>1, ReviveInvAlways, PTL
=============================================================================
