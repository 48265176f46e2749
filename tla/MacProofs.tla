------------------------------ MODULE MacProofs -------------------------------
(***************************************************************************)
(* Theorems about the Mac app's parts as MCMac puts them beside each       *)
(* other: the lists it shows of a home's sessions (SessionLists), opening  *)
(* an app (Launch), what its commands do with a session (MacSessions),    *)
(* and the launchers of its profiles (Profiles).                           *)
(***************************************************************************)
EXTENDS MCMac, TLAPS
------------------------------------------------------------------------------
(***************************************************************************)
(* The lists.                                                              *)
(***************************************************************************)

LEMMA ListsStart == ASSUME Shown!Init PROVE Shown!TypeOK
BY BoundsAssumption DEF Shown!Init, Shown!TypeOK

LEMMA ListsNext == ASSUME Shown!TypeOK, Shown!Next PROVE Shown!TypeOK'
<1> USE BoundsAssumption DEF Shown!TypeOK, Shown!Homes
<1>1. ASSUME NEW h \in Shown!Homes, Shown!Write(h) PROVE Shown!TypeOK'
  BY <1>1 DEF Shown!Write
<1>2. ASSUME NEW h \in Shown!Homes, Shown!Record(h) PROVE Shown!TypeOK'
  BY <1>2 DEF Shown!Record, Shown!Records
<1>3. ASSUME NEW h \in Shown!Homes, Shown!ArchiveRecord(h) PROVE Shown!TypeOK'
  BY <1>3 DEF Shown!ArchiveRecord, Shown!Records
<1>4. ASSUME NEW h \in Shown!Homes, Shown!Forget(h) PROVE Shown!TypeOK'
  BY <1>4 DEF Shown!Forget
<1>5. ASSUME NEW h \in Shown!Homes, Shown!TakeAway(h) PROVE Shown!TypeOK'
  BY <1>5 DEF Shown!TakeAway
<1>6. ASSUME NEW p \in Pair, Shown!Create(p) PROVE Shown!TypeOK'
  BY <1>6 DEF Shown!Create
<1>7. ASSUME NEW p \in Pair, Shown!Delete(p) PROVE Shown!TypeOK'
  BY <1>7 DEF Shown!Delete
<1> QED
  BY <1>1, <1>2, <1>3, <1>4, <1>5, <1>6, <1>7 DEF Shown!Next

(* Each list is worked out alone, from what it sees of the others' folders;*)
(* that they fit together takes no more than the types.                    *)
LEMMA ListsFit == ASSUME Shown!TypeOK PROVE Shown!ListsAgree
<1> USE StockAssumption DEF Shown!TypeOK, Shown!Homes, Shown!Asked
<1>1. ASSUME NEW g \in Shown!Asked, copies[g] > 0
      PROVE  \E h \in Shown!Asked : g \in Shown!Shown(h)
  <2>1. CASE g # StockHome \/ ~Shown!Hidden
    <3>1. g \in Shown!Shown(g)
      BY <1>1, <2>1 DEF Shown!Shown
    <3> QED
      BY <3>1
  <2>2. CASE g = StockHome /\ Shown!Hidden
    <3>1. PICK p \in made : Shown!LeftInStock(p)
      BY <2>2 DEF Shown!Hidden
    <3>2. StockHome \in Shown!Shown(p)
      BY <3>1 DEF Shown!Shown, Shown!LeftInStock
    <3> QED
      BY <2>2, <3>2
  <2> QED
    BY <2>1, <2>2
<1>2. ASSUME NEW p \in made, StockHome \in Shown!Shown(p), StockHome \in Shown!Shown(StockHome)
      PROVE  Shown!StockListed
  <2>1. p # StockHome /\ ~Shown!LeftInStock(p)
    BY <1>2 DEF Shown!Shown, Shown!Hidden
  <2> QED
    BY <1>2, <2>1 DEF Shown!Shown, Shown!LeftInStock
<1> QED
  BY <1>1, <1>2 DEF Shown!ListsAgree

LEMMA ListsAlways == MacSpec => [](Lists => Shown!TypeOK)
<1>1. MacInit => (Lists => Shown!TypeOK)
  BY ListsStart DEF MacInit, Lists, Listing, Opens, Sessions
<1>2. (Lists => Shown!TypeOK) /\ [MacNext]_allVars => (Lists => Shown!TypeOK)'
  <2> SUFFICES ASSUME Lists => Shown!TypeOK, [MacNext]_allVars, Lists'
               PROVE  Shown!TypeOK'
    OBVIOUS
  <2>1. Lists /\ Shown!TypeOK
    BY DEF MacNext, allVars, Lists
  <2>2. CASE UNCHANGED listVars
    BY <2>1, <2>2 DEF listVars, Shown!TypeOK
  <2>3. CASE Shown!Next
    BY <2>1, <2>3, ListsNext
  <2> QED
    BY <2>1, <2>2, <2>3 DEF MacNext, allVars, Lists, Listing, Opens, Sessions
<1> QED
  BY <1>1, <1>2, PTL DEF MacSpec

(* A session's transcript is in some home's list, and in the stock         *)
(* install's and a profile's only when the stock app has it in its own.    *)
THEOREM ListsAlwaysAgree == MacSpec => []ListsAgree
<1>1. (Lists => Shown!TypeOK) => ListsAgree
  BY ListsFit DEF ListsAgree
<1> QED
  BY <1>1, ListsAlways, PTL

------------------------------------------------------------------------------
(***************************************************************************)
(* Opening an app.  Until something starts past an open's look, or the     *)
(* vendor's app changes past it, an open is right from its look until it   *)
(* starts something: nothing runs, and nothing is about to.                *)
(***************************************************************************)

(* The openers' type, and what else there is to TypeOK.                    *)
Opener == [at : Opening!Ats, from : Opening!Versions \cup {0}, watch : Opening!Watches]
OpenersTyped == openers \in [Commands -> Opener]
AroundTyped ==
  /\ icon \in BOOLEAN /\ beside \in BOOLEAN /\ crossed \in BOOLEAN
  /\ vendor \in Opening!Versions /\ wrapper \in Opening!Versions \cup {0}
  /\ shims \subseteq Commands \cup {Dock}
  /\ wrapped \in Nat /\ vendorStock \in Nat /\ coming \in Nat
  /\ opens \in Nat /\ opens <= MaxOpens /\ clicks \in Nat /\ clicks <= MaxOpens /\ handoffs \in Nat

(* A Watch counts what it saw, and gives up or ends before it runs out.    *)
LooksCounted ==
  \A o \in Commands :
    /\ openers[o].at \notin {"watch", "settle"} => openers[o].watch = Opening!NoWatch
    /\ openers[o].at = "watch" =>
         /\ openers[o].watch.row < SteadyLooks
         /\ openers[o].watch.looks < LaunchLooks + openers[o].watch.row
    /\ openers[o].at = "settle" => openers[o].watch.looks < SettleLooks

Instances == wrapped + vendorStock + coming

(* What runs, was started or is asked for: one thing at most, or a stock   *)
(* instance and what the Dock started beside it.                           *)
OneThing ==
  /\ \A s, t \in shims : s = t
  /\ ~beside => Instances <= 1 /\ (shims # {} => Instances = 0)
  /\ beside => /\ vendorStock + coming = 1
               /\ (shims # {} => wrapped = 0) /\ (shims = {} => wrapped = 1)

(* Only a shim from the Dock finds its wrapper behind the vendor's app.    *)
AsksFromDock ==
  /\ handoffs + (IF Dock \in shims THEN 1 ELSE 0) <= clicks
  /\ \A s \in shims : s = Dock \/ wrapper = vendor

(* What an open knows, by the step it is at.                               *)
Knows(o) ==
  /\ openers[o].at \in {"route", "rebuild", "check", "open", "stock"} =>
       Instances = 0 /\ shims = {}
  /\ openers[o].from # 0 => openers[o].at = "rebuild" /\ openers[o].from = vendor
  /\ openers[o].at = "open" => wrapper = vendor
  /\ openers[o].at = "watch" =>
       coming = 0 /\ vendorStock = 0 /\ (openers[o].watch.main => shims = {})
OpenKnows == \A o \in Commands : Knows(o)

OpenInv ==
  /\ OpenersTyped /\ AroundTyped /\ LooksCounted
  /\ ~crossed => OneThing /\ AsksFromDock /\ OpenKnows

LEMMA FreeTyped ==
  /\ Opening!NoWatch \in Opening!Watches
  /\ Opening!Free = [at |-> "idle", from |-> 0, watch |-> Opening!NoWatch]
<1>1. 0 \in 0..(LaunchLooks + SteadyLooks - 2) /\ 0 \in 0..SteadyLooks
  BY LooksAssumption
<1> QED
  BY <1>1 DEF Opening!Free, Opening!Watches, Opening!NoWatch

LEMMA TypesApart == Opening!TypeOK <=> OpenersTyped /\ AroundTyped
<1>1. \A n : n \in 0..MaxOpens <=> n \in Nat /\ n <= MaxOpens
  BY BoundsAssumption
<1> QED
  BY <1>1 DEF Opening!TypeOK, OpenersTyped, AroundTyped, Opener

LEMMA OpensStart == ASSUME Opening!Init PROVE OpenInv
<1> USE DEF Opening!Init
<1>1. Opening!Free \in Opener
  BY FreeTyped DEF Opener, Opening!Ats
<1>4. OpenersTyped /\ AroundTyped
  <2>1. OpenersTyped
    BY <1>1 DEF OpenersTyped
  <2>2. icon \in BOOLEAN /\ beside \in BOOLEAN /\ crossed \in BOOLEAN
    OBVIOUS
  <2>3. vendor \in Opening!Versions /\ wrapper \in Opening!Versions \cup {0}
    BY BoundsAssumption DEF Opening!Versions
  <2>4. shims \subseteq Commands \cup {Dock}
    OBVIOUS
  <2>5. /\ wrapped \in Nat /\ vendorStock \in Nat /\ coming \in Nat
        /\ opens \in Nat /\ clicks \in Nat /\ handoffs \in Nat
    OBVIOUS
  <2>6. opens <= MaxOpens /\ clicks <= MaxOpens
    BY BoundsAssumption
  <2> QED
    BY <2>1, <2>2, <2>3, <2>4, <2>5, <2>6 DEF AroundTyped
<1>2. LooksCounted
  BY FreeTyped DEF LooksCounted
<1>3. OneThing /\ AsksFromDock /\ OpenKnows
  BY FreeTyped DEF OneThing, AsksFromDock, OpenKnows, Knows, Instances
<1> QED
  BY <1>2, <1>3, <1>4 DEF OpenInv

(* A step of one opener, its type, and the others.                         *)
LEMMA OneGoes ==
  ASSUME OpenersTyped, NEW o \in Commands, NEW r \in Opener,
         openers' = [openers EXCEPT ![o] = r]
  PROVE  /\ OpenersTyped' /\ openers'[o] = r
         /\ \A q \in Commands \ {o} : openers'[q] = openers[q]
BY DEF OpenersTyped

LEMMA OpenerGoes ==
  ASSUME OpenersTyped, NEW o \in Commands, NEW at \in Opening!Ats, Opening!Goto(o, at)
  PROVE  /\ OpenersTyped' /\ openers'[o].at = at /\ openers'[o].watch = openers[o].watch
         /\ openers'[o].from = openers[o].from
         /\ \A q \in Commands \ {o} : openers'[q] = openers[q]
<1> DEFINE r == [openers[o] EXCEPT !.at = at]
<1>1. openers[o] \in Opener
  BY DEF OpenersTyped
<1>2. /\ r \in Opener /\ r.at = at /\ r.watch = openers[o].watch
      /\ r.from = openers[o].from
  BY <1>1 DEF Opener
<1>3. openers' = [openers EXCEPT ![o] = r]
  BY DEF Opening!Goto
<1> QED
  BY <1>2, <1>3, OneGoes

LEMMA ReturnGoes ==
  ASSUME OpenersTyped, NEW o \in Commands, Opening!Return(o)
  PROVE  /\ OpenersTyped' /\ openers'[o].at = "idle" /\ openers'[o].watch = Opening!NoWatch
         /\ openers'[o].from = 0
         /\ \A q \in Commands \ {o} : openers'[q] = openers[q]
<1>1. Opening!Free \in Opener
  BY FreeTyped DEF Opener, Opening!Ats
<1>2. openers' = [openers EXCEPT ![o] = Opening!Free]
  BY DEF Opening!Return
<1>3. Opening!Free.at = "idle" /\ Opening!Free.watch = Opening!NoWatch /\ Opening!Free.from = 0
  BY DEF Opening!Free
<1> QED
  BY <1>1, <1>2, <1>3, OneGoes

LEMMA LeaveGoes ==
  ASSUME OpenersTyped, NEW o \in Commands, NEW at \in Opening!Ats,
         openers' = [openers EXCEPT ![o] = [@ EXCEPT !.at = at, !.from = 0]]
  PROVE  /\ OpenersTyped' /\ openers'[o].at = at /\ openers'[o].watch = openers[o].watch
         /\ openers'[o].from = 0
         /\ \A q \in Commands \ {o} : openers'[q] = openers[q]
<1> DEFINE r == [openers[o] EXCEPT !.at = at, !.from = 0]
<1>1. openers[o] \in Opener
  BY DEF OpenersTyped
<1>2. r \in Opener /\ r.at = at /\ r.watch = openers[o].watch /\ r.from = 0
  BY <1>1 DEF Opener
<1>3. openers' = [openers EXCEPT ![o] = r]
  OBVIOUS
<1> HIDE DEF r
<1> QED
  BY <1>2, <1>3, OneGoes

LEMMA GiveUpGoes ==
  ASSUME OpenersTyped, NEW o \in Commands, NEW at \in Opening!Ats,
         openers' = [openers EXCEPT ![o] = [Opening!Free EXCEPT !.at = at]]
  PROVE  /\ OpenersTyped' /\ openers'[o].at = at /\ openers'[o].watch = Opening!NoWatch
         /\ openers'[o].from = 0
         /\ \A q \in Commands \ {o} : openers'[q] = openers[q]
<1> DEFINE r == [Opening!Free EXCEPT !.at = at]
<1>1. r \in Opener /\ r.at = at /\ r.watch = Opening!NoWatch /\ r.from = 0
  BY FreeTyped DEF Opener
<1>2. openers' = [openers EXCEPT ![o] = r]
  OBVIOUS
<1> HIDE DEF r
<1> QED
  BY <1>1, <1>2, OneGoes

LEMMA NothingRuns ==
  ASSUME AroundTyped, Instances = 0
  PROVE  wrapped = 0 /\ vendorStock = 0 /\ coming = 0
<1>1. wrapped \in Nat /\ vendorStock \in Nat /\ coming \in Nat
  BY DEF AroundTyped
<1> QED
  BY <1>1 DEF Instances

(* A step that starts nothing, and leaves the wrapper and the counters.    *)
LEMMA ThingsStay ==
  ASSUME OneThing /\ AsksFromDock,
         UNCHANGED <<vendor, wrapper, shims, wrapped, vendorStock, coming, clicks, handoffs, beside>>
  PROVE  (OneThing /\ AsksFromDock)'
BY DEF OneThing, AsksFromDock, Instances

(* What the others know holds where nothing starts or stops,               *)
LEMMA OthersKnow ==
  ASSUME OpenKnows, NEW o \in Commands,
         \A q \in Commands \ {o} : openers'[q] = openers[q],
         UNCHANGED <<vendor, wrapper, shims, wrapped, vendorStock, coming>>, Knows(o)'
  PROVE  OpenKnows'
<1>1. ASSUME NEW q \in Commands \ {o} PROVE Knows(q)'
  BY <1>1 DEF OpenKnows, Knows, Instances
<1> QED
  BY <1>1 DEF OpenKnows

(* and where none of them goes by a look.                                  *)
LEMMA StartsAlone ==
  ASSUME OpenKnows, NEW o \in Commands, ~Opening!PastLook(o), vendor' = vendor,
         \A q \in Commands \ {o} : openers'[q] = openers[q], Knows(o)'
  PROVE  OpenKnows'
<1>1. ASSUME NEW q \in Commands \ {o} PROVE Knows(q)'
  <2>1. openers'[q].at \notin {"route", "rebuild", "check", "open", "watch", "stock"}
    BY <1>1 DEF Opening!PastLook
  <2>2. openers'[q] = openers[q] /\ openers[q].from = 0
    BY <1>1, <2>1 DEF OpenKnows, Knows
  <2> QED
    BY <2>1, <2>2 DEF Knows
<1> QED
  BY <1>1 DEF OpenKnows

LEMMA BeginKeeps ==
  ASSUME OpenInv, NEW o \in Commands, Opening!Open(o)
  PROVE  OpenInv'
<1> USE DEF OpenInv, Opening!Open, Opening!instances
<1>0. "find" \in Opening!Ats
  BY DEF Opening!Ats
<1>1. /\ openers'[o].at = "find" /\ openers'[o].watch = openers[o].watch
      /\ openers'[o].from = openers[o].from
      /\ \A q \in Commands \ {o} : openers'[q] = openers[q]
  BY <1>0, OpenerGoes
<1>2. OpenersTyped'
  BY <1>0, OpenerGoes
<1>4. AroundTyped'
  BY BoundsAssumption DEF AroundTyped
<1>5. LooksCounted'
  BY <1>1 DEF LooksCounted, Opening!Idle
<1>6. ASSUME ~crossed' PROVE (OneThing /\ AsksFromDock /\ OpenKnows)'
  <2>1. Knows(o)'
    BY <1>1, <1>6 DEF OpenKnows, Knows, Opening!Idle
  <2>2. OpenKnows'
    BY <1>1, <1>6, <2>1, OthersKnow
  <2> QED
    BY <1>6, <2>2, ThingsStay
<1> QED
  BY <1>2, <1>4, <1>5, <1>6

LEMMA FindKeeps ==
  ASSUME OpenInv, NEW o \in Commands, Opening!Find(o)
  PROVE  OpenInv'
<1> USE DEF OpenInv, Opening!Find, Opening!instances
<1>0. "route" \in Opening!Ats /\ "idle" \in Opening!Ats
  BY DEF Opening!Ats
<1>1. /\ openers'[o].at = IF Opening!MainRuns THEN "idle" ELSE "route"
      /\ openers'[o].watch \in {openers[o].watch, Opening!NoWatch}
      /\ openers'[o].from \in {openers[o].from, 0}
      /\ \A q \in Commands \ {o} : openers'[q] = openers[q]
  BY <1>0, OpenerGoes, ReturnGoes
<1>2. OpenersTyped'
  BY <1>0, OpenerGoes, ReturnGoes
<1>3. AroundTyped'
  <2>1. crossed' \in BOOLEAN
    OBVIOUS
  <2> QED
    BY <2>1 DEF AroundTyped
<1>4. LooksCounted'
  BY <1>1 DEF LooksCounted
<1>5. ASSUME ~crossed' PROVE (OneThing /\ AsksFromDock /\ OpenKnows)'
  <2>1. ~crossed /\ (Opening!MainRuns \/ (~(coming > 0) /\ shims = {}))
    BY <1>5
  <2>2. ~Opening!MainRuns => Instances = 0
    BY <2>1 DEF Opening!MainRuns, Instances, AroundTyped
  <2>3. Knows(o)'
    <3>1. ~Opening!MainRuns => Instances' = 0 /\ shims' = {}
      BY <2>1, <2>2 DEF Instances
    <3>2. openers'[o].from = 0
      BY <1>1, <2>1 DEF OpenKnows, Knows
    <3> QED
      BY <1>1, <3>1, <3>2 DEF Knows
  <2>4. OpenKnows'
    BY <1>1, <2>1, <2>3, OthersKnow
  <2> QED
    BY <2>1, <2>4, ThingsStay
<1> QED
  BY <1>2, <1>3, <1>4, <1>5

LEMMA RouteKeeps ==
  ASSUME OpenInv, NEW o \in Commands, Opening!Route(o)
  PROVE  OpenInv'
<1> USE DEF OpenInv, Opening!Route
<1>0. {"settle", "idle", "rebuild", "open"} \subseteq Opening!Ats
  BY DEF Opening!Ats
<1>1. /\ \/ openers'[o].at = "settle" /\ coming' = coming + 1
         \/ openers'[o].at \in {"idle", "rebuild"} /\ coming' = coming
         \/ openers'[o].at = "open" /\ wrapper = vendor /\ coming' = coming
      /\ openers'[o].watch = Opening!NoWatch
      /\ openers'[o].from \in {openers[o].from, 0}
      /\ \A q \in Commands \ {o} : openers'[q] = openers[q]
  <2>1. openers[o].watch = Opening!NoWatch
    BY DEF LooksCounted
  <2>2. CASE Opening!Goto(o, "settle") /\ coming' = coming + 1
    BY <1>0, <2>1, <2>2, OpenerGoes
  <2>3. CASE Opening!Return(o) /\ coming' = coming
    BY <2>3, ReturnGoes
  <2>4. CASE Opening!Goto(o, "rebuild") /\ coming' = coming
    BY <1>0, <2>1, <2>4, OpenerGoes
  <2>5. CASE Opening!Goto(o, "open") /\ ~Opening!Drifted /\ coming' = coming
    BY <1>0, <2>1, <2>5, OpenerGoes DEF Opening!Drifted
  <2> QED
    BY <2>2, <2>3, <2>4, <2>5
<1>2. OpenersTyped'
  BY <1>0, OpenerGoes, ReturnGoes
<1>3. AroundTyped'
  <2>1. crossed' \in BOOLEAN
    OBVIOUS
  <2>2. coming' \in Nat
    BY DEF AroundTyped
  <2> QED
    BY <2>1, <2>2 DEF AroundTyped
<1>4. LooksCounted'
  BY <1>1, LooksAssumption DEF LooksCounted, Opening!NoWatch
<1>5. ASSUME ~crossed' PROVE (OneThing /\ AsksFromDock /\ OpenKnows)'
  <2>1. ~crossed /\ (coming' # coming => ~Opening!PastLook(o))
    BY <1>5
  <2>2. Instances = 0 /\ shims = {}
    BY <2>1 DEF OpenKnows, Knows
  <2>3. wrapped = 0 /\ vendorStock = 0 /\ coming = 0
    BY <2>2, NothingRuns
  <2>4. ~beside
    BY <2>1, <2>3 DEF OneThing
  <2>5. (OneThing /\ AsksFromDock)'
    <3>1. OneThing'
      BY <1>1, <2>2, <2>3, <2>4 DEF OneThing, Instances
    <3>2. AsksFromDock'
      BY <2>1 DEF AsksFromDock
    <3> QED
      BY <3>1, <3>2
  <2>6. Knows(o)'
    <3>1. openers'[o].from = 0
      BY <1>1, <2>1 DEF OpenKnows, Knows
    <3> QED
      BY <1>1, <2>2, <2>3, <3>1 DEF Knows, Instances
  <2>7. OpenKnows'
    BY <1>1, <2>1, <2>6, OthersKnow, StartsAlone
  <2> QED
    BY <2>5, <2>7
<1> QED
  BY <1>2, <1>3, <1>4, <1>5

LEMMA RebuildKeeps ==
  ASSUME OpenInv, NEW o \in Commands, Opening!Rebuild(o)
  PROVE  OpenInv'
<1> USE DEF OpenInv, Opening!Rebuild, Opening!instances
<1>0. {"check", "stock"} \subseteq Opening!Ats
  BY DEF Opening!Ats
<1>1. openers[o] \in Opener
  BY DEF OpenersTyped
<1>2. /\ openers'[o].at \in {"rebuild", "check", "stock"}
      /\ openers'[o].watch = Opening!NoWatch
      /\ \/ openers'[o].at = "rebuild" /\ openers'[o].from = vendor /\ wrapper' = wrapper
         \/ /\ openers'[o].at # "rebuild" /\ openers'[o].from = 0
            /\ wrapper' = wrapper \/ (openers[o].from # 0 /\ wrapper' = openers[o].from)
      /\ \A q \in Commands \ {o} : openers'[q] = openers[q]
      /\ OpenersTyped' /\ wrapper' \in Opening!Versions \cup {0}
  <2>1. openers[o].watch = Opening!NoWatch
    BY DEF LooksCounted
  <2>2. CASE openers' = [openers EXCEPT ![o].from = vendor] /\ UNCHANGED wrapper
    <3> DEFINE r == [openers[o] EXCEPT !.from = vendor]
    <3>1. /\ r \in Opener /\ r.from = vendor /\ r.at = openers[o].at /\ r.watch = openers[o].watch
          /\ openers' = [openers EXCEPT ![o] = r]
      BY <1>0, <1>1, <2>2 DEF Opener, AroundTyped
    <3> HIDE DEF r
    <3>2. openers'[o] = r /\ OpenersTyped' /\ \A q \in Commands \ {o} : openers'[q] = openers[q]
      BY <3>1, OneGoes
    <3> QED
      BY <2>1, <2>2, <3>1, <3>2 DEF AroundTyped
  <2>3. CASE /\ openers[o].from # 0 /\ wrapper' \in {wrapper, openers[o].from}
             /\ openers' = [openers EXCEPT ![o] = [@ EXCEPT !.at = "check", !.from = 0]]
    <3>1. wrapper' \in Opening!Versions \cup {0}
      BY <1>0, <1>1, <2>3 DEF Opener, AroundTyped
    <3> QED
      BY <1>0, <2>1, <2>3, <3>1, LeaveGoes
  <2>4. CASE /\ openers' = [openers EXCEPT ![o] = [@ EXCEPT !.at = "stock", !.from = 0]]
             /\ UNCHANGED wrapper
    BY <1>0, <2>1, <2>4, LeaveGoes DEF AroundTyped
  <2> QED
    BY <2>2, <2>3, <2>4
<1>3. AroundTyped'
  BY <1>2 DEF AroundTyped
<1>4. LooksCounted'
  BY <1>2 DEF LooksCounted
<1>5. ASSUME ~crossed PROVE (OneThing /\ AsksFromDock /\ OpenKnows)'
  <2>1. Instances = 0 /\ shims = {} /\ Knows(o)
    BY <1>5 DEF OpenKnows, Knows
  <2>2. (OneThing /\ AsksFromDock)'
    BY <1>5, <2>1 DEF OneThing, AsksFromDock, Instances
  <2>3. wrapper = vendor => wrapper' = vendor
    BY <1>2, <2>1 DEF Knows
  <2>4. Knows(o)'
    BY <1>2, <2>1 DEF Knows, Instances
  <2>5. ASSUME NEW q \in Commands \ {o} PROVE Knows(q)'
    <3>1. Knows(q) /\ openers'[q] = openers[q]
      BY <1>2, <1>5, <2>5 DEF OpenKnows
    <3> QED
      BY <2>3, <3>1 DEF Knows, Instances
  <2> QED
    BY <2>2, <2>4, <2>5 DEF OpenKnows
<1> QED
  BY <1>2, <1>3, <1>4, <1>5

LEMMA CheckKeeps ==
  ASSUME OpenInv, NEW o \in Commands, Opening!Check(o)
  PROVE  OpenInv'
<1> USE DEF OpenInv, Opening!Check, Opening!instances
<1>0. {"stock", "open"} \subseteq Opening!Ats
  BY DEF Opening!Ats
<1>1. /\ openers'[o].at = IF wrapper = vendor THEN "open" ELSE "stock"
      /\ openers'[o].watch = Opening!NoWatch /\ openers'[o].from = openers[o].from
      /\ \A q \in Commands \ {o} : openers'[q] = openers[q]
  BY <1>0, OpenerGoes, ReturnGoes DEF LooksCounted, Opening!DidNotTake, Opening!Drifted
<1>2. OpenersTyped'
  BY <1>0, OpenerGoes, ReturnGoes
<1>3. AroundTyped'
  BY DEF AroundTyped
<1>4. LooksCounted'
  BY <1>1 DEF LooksCounted
<1>5. ASSUME ~crossed PROVE (OneThing /\ AsksFromDock /\ OpenKnows)'
  <2>1. Knows(o)'
    BY <1>1, <1>5 DEF OpenKnows, Knows, Instances
  <2>2. OpenKnows'
    BY <1>1, <1>5, <2>1, OthersKnow
  <2> QED
    BY <1>5, <2>2, ThingsStay
<1> QED
  BY <1>2, <1>3, <1>4, <1>5

LEMMA OpenWrapperKeeps ==
  ASSUME OpenInv, NEW o \in Commands, Opening!OpenWrapper(o)
  PROVE  OpenInv'
<1> USE OpenersAssumption DEF OpenInv, Opening!OpenWrapper
<1>0. {"watch", "stock"} \subseteq Opening!Ats
  BY DEF Opening!Ats
<1>1. /\ \/ openers'[o].at = "watch" /\ shims' = IF Opening!AnyRuns THEN shims ELSE {o}
         \/ openers'[o].at = "stock" /\ shims' = shims
      /\ openers'[o].watch = Opening!NoWatch /\ openers'[o].from = openers[o].from
      /\ \A q \in Commands \ {o} : openers'[q] = openers[q]
  BY <1>0, OpenerGoes, ReturnGoes DEF LooksCounted
<1>2. OpenersTyped'
  BY <1>0, OpenerGoes, ReturnGoes
<1>3. AroundTyped'
  <2>1. crossed' \in BOOLEAN
    OBVIOUS
  <2> QED
    BY <1>1, <2>1 DEF AroundTyped
<1>4. LooksCounted'
  BY <1>1, LooksAssumption DEF LooksCounted, Opening!NoWatch
<1>5. ASSUME ~crossed' PROVE (OneThing /\ AsksFromDock /\ OpenKnows)'
  <2>1. ~crossed /\ (shims' # shims => ~Opening!PastLook(o))
    BY <1>5
  <2>2. Instances = 0 /\ shims = {} /\ wrapper = vendor /\ openers[o].from = 0
    BY <2>1 DEF OpenKnows, Knows
  <2>3. wrapped = 0 /\ vendorStock = 0 /\ coming = 0
    BY <2>2, NothingRuns
  <2>4. ~beside
    BY <2>1, <2>3 DEF OneThing
  <2>5. shims' \in {{}, {o}}
    BY <1>1, <2>2
  <2>6. OneThing'
    BY <2>2, <2>3, <2>4, <2>5 DEF OneThing, Instances
  <2>7. AsksFromDock'
    BY <2>1, <2>2, <2>5 DEF AsksFromDock
  <2>8. Knows(o)'
    BY <1>1, <2>2, <2>3 DEF Knows, Instances, Opening!NoWatch
  <2>9. OpenKnows'
    BY <1>1, <2>1, <2>8, OthersKnow, StartsAlone
  <2> QED
    BY <2>6, <2>7, <2>9
<1> QED
  BY <1>2, <1>3, <1>4, <1>5

LEMMA OverKeeps ==
  ASSUME OpenInv, NEW o \in Commands, Opening!Stock(o)
  PROVE  OpenInv'
<1> USE DEF OpenInv, Opening!Stock
<1>1. /\ openers'[o].at = "idle" /\ openers'[o].watch = Opening!NoWatch
      /\ openers'[o].from = 0
      /\ \A q \in Commands \ {o} : openers'[q] = openers[q]
  BY ReturnGoes
<1>2. OpenersTyped'
  BY ReturnGoes
<1>3. AroundTyped'
  <2>1. crossed' \in BOOLEAN
    OBVIOUS
  <2>2. coming' \in Nat
    BY DEF AroundTyped
  <2> QED
    BY <2>1, <2>2 DEF AroundTyped
<1>4. LooksCounted'
  BY <1>1 DEF LooksCounted
<1>5. ASSUME ~crossed' PROVE (OneThing /\ AsksFromDock /\ OpenKnows)'
  <2>1. ~crossed /\ (coming' # coming => ~Opening!PastLook(o))
    BY <1>5
  <2>2. Instances = 0 /\ shims = {}
    BY <2>1 DEF OpenKnows, Knows
  <2>3. wrapped = 0 /\ vendorStock = 0 /\ coming = 0
    BY <2>2, NothingRuns
  <2>4. ~beside
    BY <2>1, <2>3 DEF OneThing
  <2>5. coming' \in {0, 1}
    <3>1. coming' = coming \/ coming' = coming + 1
      OBVIOUS
    <3> QED
      BY <2>3, <3>1
  <2>6. OneThing'
    <3>1. UNCHANGED <<shims, wrapped, vendorStock, beside>>
      OBVIOUS
    <3>2. Instances' <= 1 /\ shims' = {} /\ ~beside'
      BY <2>2, <2>3, <2>4, <2>5, <3>1 DEF Instances
    <3> QED
      BY <3>2 DEF OneThing
  <2>7. AsksFromDock'
    BY <2>1 DEF AsksFromDock
  <2>8. Knows(o)'
    BY <1>1 DEF Knows
  <2>9. OpenKnows'
    BY <1>1, <2>1, <2>8, OthersKnow, StartsAlone
  <2> QED
    BY <2>6, <2>7, <2>9
<1> QED
  BY <1>2, <1>3, <1>4, <1>5

(* What a Watch sees keeps to its type while it goes on.                   *)
LEMMA WatchTyped ==
  ASSUME OpenersTyped, AroundTyped, NEW w \in Opening!Watches, w.row < SteadyLooks,
         w.looks < LaunchLooks + w.row,
         ~Opening!Failed(Opening!Looked(w)), ~Opening!Started(Opening!Looked(w))
  PROVE  /\ Opening!Looked(w) \in Opening!Watches
         /\ Opening!Looked(w).row < SteadyLooks
         /\ Opening!Looked(w).looks < LaunchLooks + Opening!Looked(w).row
<1> USE LooksAssumption
<1> DEFINE v == Opening!Looked(w)
<1>1. /\ w.looks \in Nat /\ w.row \in Nat
      /\ w.anything \in BOOLEAN /\ w.main \in BOOLEAN
  BY DEF Opening!Watches
<1>2. /\ v.looks = w.looks + 1
      /\ v.row = IF Opening!MainRuns THEN w.row + 1 ELSE 0
      /\ v.anything = (w.anything \/ Opening!MainRuns \/ Opening!AnyRuns)
      /\ v.main = (w.main \/ Opening!MainRuns)
      /\ v = [looks |-> v.looks, anything |-> v.anything, main |-> v.main, row |-> v.row]
  BY DEF Opening!Looked
<1>6. v.anything \in BOOLEAN /\ v.main \in BOOLEAN
  BY DEF Opening!Looked
<1>7. ASSUME v.looks \in 0..(LaunchLooks + SteadyLooks - 2), v.row \in 0..SteadyLooks
      PROVE  v \in Opening!Watches
  BY <1>6, <1>7 DEF Opening!Looked, Opening!Watches
<1> HIDE DEF v
<1>3. ~Opening!Failed(v) /\ ~Opening!Started(v)
  BY DEF v
<1>4. CASE Opening!MainRuns
  <2>1. v.row = w.row + 1 /\ v.row < SteadyLooks
    BY <1>1, <1>2, <1>3, <1>4 DEF Opening!Started
  <2>2. v.looks < LaunchLooks + v.row
    BY <1>1, <1>2, <2>1
  <2>3. v.looks \in 0..(LaunchLooks + SteadyLooks - 2) /\ v.row \in 0..SteadyLooks
    BY <1>1, <1>2, <2>1, <2>2
  <2>4. v \in Opening!Watches
    BY <1>7, <2>3
  <2> QED
    BY <2>1, <2>2, <2>4 DEF v
<1>5. CASE ~Opening!MainRuns
  <2>1. v.row = 0 /\ ~v.main
    BY <1>2, <1>3, <1>5 DEF Opening!Failed
  <2>2. v.looks < LaunchLooks
    BY <1>1, <1>2, <1>3, <1>5, <2>1 DEF Opening!Failed, Opening!Started
  <2>3. v.looks \in 0..(LaunchLooks + SteadyLooks - 2) /\ v.row \in 0..SteadyLooks
    BY <1>1, <1>2, <2>1, <2>2
  <2>4. v \in Opening!Watches
    BY <1>7, <2>3
  <2>5. v.looks < LaunchLooks + v.row
    BY <1>1, <1>2, <2>1, <2>2
  <2> QED
    BY <2>1, <2>4, <2>5 DEF v
<1> QED
  BY <1>4, <1>5

LEMMA WatchKeeps ==
  ASSUME OpenInv, NEW o \in Commands, Opening!Watch(o)
  PROVE  OpenInv'
<1> USE DEF OpenInv, Opening!Watch, Opening!instances
<1> DEFINE w == Opening!Looked(openers[o].watch)
<1>1. openers[o] \in Opener /\ openers[o].watch \in Opening!Watches
  BY DEF OpenersTyped, Opener
<1>2. /\ AroundTyped'
      /\ ~crossed => (OneThing /\ AsksFromDock)'
  BY ThingsStay DEF AroundTyped
<1>3. CASE Opening!Failed(w)
  <2>1. /\ OpenersTyped' /\ openers'[o].at = "stock" /\ openers'[o].watch = Opening!NoWatch
        /\ openers'[o].from = 0
        /\ \A q \in Commands \ {o} : openers'[q] = openers[q]
    BY <1>3, GiveUpGoes DEF Opening!Ats
  <2>2. LooksCounted'
    BY <2>1 DEF LooksCounted
  <2>3. ASSUME ~crossed PROVE OpenKnows'
    <3>1. ~Opening!MainRuns /\ shims = {}
      BY <1>3, <2>3 DEF Opening!Failed, Opening!Looked, Opening!AnyRuns, OpenKnows, Knows
    <3>2. Instances = 0
      BY <2>3, <3>1 DEF OpenKnows, Knows, Instances, Opening!MainRuns, AroundTyped
    <3>3. Knows(o)'
      BY <2>1, <3>1, <3>2 DEF Knows, Instances
    <3> QED
      BY <2>1, <2>3, <3>3, OthersKnow
  <2> QED
    BY <1>2, <2>1, <2>2, <2>3
<1>4. CASE ~Opening!Failed(w) /\ Opening!Started(w)
  <2>1. /\ OpenersTyped' /\ openers'[o].at = "idle" /\ openers'[o].watch = Opening!NoWatch
        /\ openers'[o].from = 0
        /\ \A q \in Commands \ {o} : openers'[q] = openers[q]
    BY <1>4, ReturnGoes
  <2>2. LooksCounted'
    BY <2>1 DEF LooksCounted
  <2>3. ~crossed => OpenKnows'
    <3>1. Knows(o)'
      BY <2>1 DEF Knows
    <3> QED
      BY <2>1, <3>1, OthersKnow
  <2> QED
    BY <1>2, <2>1, <2>2, <2>3
<1>5. CASE ~Opening!Failed(w) /\ ~Opening!Started(w)
  <2>1. w \in Opening!Watches /\ w.row < SteadyLooks /\ w.looks < LaunchLooks + w.row
    BY <1>1, <1>5, WatchTyped DEF LooksCounted
  <2>2. w.main => openers[o].watch.main \/ Opening!MainRuns
    BY DEF Opening!Looked
  <2> HIDE DEF w
  <2> DEFINE r == [openers[o] EXCEPT !.watch = w]
  <2>3. r \in Opener /\ r.at = "watch" /\ r.watch = w /\ r.from = openers[o].from /\ openers' = [openers EXCEPT ![o] = r]
    BY <1>1, <1>5, <2>1 DEF Opener, w
  <2> HIDE DEF r
  <2>4. OpenersTyped' /\ openers'[o] = r /\ \A q \in Commands \ {o} : openers'[q] = openers[q]
    BY <2>3, OneGoes
  <2>5. LooksCounted'
    BY <2>1, <2>3, <2>4 DEF LooksCounted
  <2>6. ASSUME ~crossed PROVE OpenKnows'
    <3>1. w.main => shims = {}
      <4>1. Knows(o) /\ coming = 0 /\ vendorStock = 0
        BY <2>6 DEF OpenKnows, Knows
      <4>2. ~beside
        BY <2>6, <4>1 DEF OneThing
      <4>3. Opening!MainRuns => Instances # 0
        BY DEF Opening!MainRuns, Instances, AroundTyped
      <4> QED
        BY <2>2, <2>6, <4>1, <4>2, <4>3 DEF Knows, OneThing
    <3>2. Knows(o)'
      BY <2>3, <2>4, <2>6, <3>1 DEF OpenKnows, Knows
    <3> QED
      BY <2>4, <2>6, <3>2, OthersKnow
  <2> QED
    BY <1>2, <2>4, <2>5, <2>6
<1> QED
  BY <1>3, <1>4, <1>5

LEMMA SettleKeeps ==
  ASSUME OpenInv, NEW o \in Commands, Opening!Settle(o)
  PROVE  OpenInv'
<1> USE DEF OpenInv, Opening!Settle, Opening!instances
<1> DEFINE n == Opening!Looked(openers[o].watch).looks
           v == [openers[o].watch EXCEPT !.looks = n]
           r == [openers[o] EXCEPT !.watch = v]
<1>1. openers[o] \in Opener /\ openers[o].watch \in Opening!Watches
  BY DEF OpenersTyped, Opener
<1>2. /\ AroundTyped'
      /\ ~crossed => (OneThing /\ AsksFromDock)'
  BY ThingsStay DEF AroundTyped
<1>3. CASE Opening!Return(o)
  <2>1. /\ OpenersTyped' /\ openers'[o].at = "idle" /\ openers'[o].watch = Opening!NoWatch
        /\ openers'[o].from = 0
        /\ \A q \in Commands \ {o} : openers'[q] = openers[q]
    BY <1>3, ReturnGoes
  <2>2. LooksCounted'
    BY <2>1 DEF LooksCounted
  <2>3. ~crossed => OpenKnows'
    <3>1. Knows(o)'
      BY <2>1 DEF Knows
    <3> QED
      BY <2>1, <3>1, OthersKnow
  <2> QED
    BY <1>2, <2>1, <2>2, <2>3
<1>4. CASE ~(Opening!MainRuns \/ n >= SettleLooks)
  <2>1. n = openers[o].watch.looks + 1
    BY DEF Opening!Looked
  <2>2. n \in 0..(LaunchLooks + SteadyLooks - 2) /\ n < SettleLooks
    <3>1. openers[o].watch.looks \in Nat
      BY <1>1 DEF Opening!Watches
    <3> HIDE DEF n
    <3> QED
      BY <1>4, <2>1, <3>1, LooksAssumption
  <2>3. openers' = [openers EXCEPT ![o] = r]
    BY <1>4
  <2> HIDE DEF n
  <2>4. v \in Opening!Watches /\ v.looks = n
    BY <1>1, <2>2 DEF Opening!Watches
  <2> HIDE DEF v
  <2>5. r \in Opener /\ r.at = "settle" /\ r.watch = v /\ r.from = openers[o].from
    BY <1>1, <2>4 DEF Opener
  <2> HIDE DEF r
  <2>6. OpenersTyped' /\ openers'[o] = r /\ \A q \in Commands \ {o} : openers'[q] = openers[q]
    BY <2>3, <2>5, OneGoes
  <2>7. LooksCounted'
    BY <2>2, <2>4, <2>5, <2>6 DEF LooksCounted
  <2>8. ~crossed => OpenKnows'
    <3>1. ASSUME ~crossed PROVE Knows(o)'
      BY <2>5, <2>6, <3>1 DEF OpenKnows, Knows
    <3> QED
      BY <2>6, <3>1, OthersKnow
  <2> QED
    BY <1>2, <2>6, <2>7, <2>8
<1> QED
  BY <1>3, <1>4

(* A shim that hands its launch back, uncrossed, is the Dock's.            *)
LEMMA HandOffKeeps ==
  ASSUME OpenInv, NEW o \in Commands, NEW s \in Commands \cup {Dock}, Opening!HandOff(s, o)
  PROVE  OpenInv'
<1> USE DEF OpenInv, Opening!HandOff
<1>1. /\ OpenersTyped' /\ openers'[o].at = "find" /\ openers'[o].watch = openers[o].watch
      /\ openers'[o].from = openers[o].from
      /\ \A q \in Commands \ {o} : openers'[q] = openers[q]
  BY OpenerGoes DEF Opening!Ats
<1>2. AroundTyped'
  <2>1. beside' \in BOOLEAN /\ shims' \subseteq shims
    OBVIOUS
  <2>2. handoffs' \in Nat
    BY DEF AroundTyped
  <2> QED
    BY <2>1, <2>2 DEF AroundTyped
<1>3. LooksCounted'
  BY <1>1 DEF LooksCounted, Opening!Idle
<1>4. ASSUME ~crossed PROVE (OneThing /\ AsksFromDock /\ OpenKnows)'
  <2>1. shims = {s} /\ shims' = {} /\ s = Dock
    BY <1>4 DEF OneThing, AsksFromDock, Opening!Drifted
  <2>2. OneThing'
    BY <1>4, <2>1 DEF OneThing, Instances, AroundTyped
  <2>3. AsksFromDock'
    BY <1>4, <2>1 DEF AsksFromDock, AroundTyped
  <2>4. ASSUME NEW q \in Commands PROVE Knows(q)'
    <3>1. CASE q = o
      BY <1>1, <1>4, <3>1 DEF OpenKnows, Knows, Opening!Idle
    <3>2. CASE q # o
      BY <1>1, <1>4, <2>1, <3>2 DEF OpenKnows, Knows, Instances
    <3> QED
      BY <3>1, <3>2
  <2> QED
    BY <2>2, <2>3, <2>4 DEF OpenKnows
<1> QED
  BY <1>1, <1>2, <1>3, <1>4

(* Steps around the openers, which leave what these know.                  *)
LEMMA AroundKnows ==
  ASSUME OpenKnows, UNCHANGED <<openers, vendor, wrapper>>,
         Instances = 0 /\ shims = {} => Instances' = 0 /\ shims' = {},
         coming = 0 => coming' = 0,
         coming = 0 /\ vendorStock = 0 => vendorStock' = 0,
         shims' \subseteq shims
  PROVE  OpenKnows'
<1>1. ASSUME NEW q \in Commands PROVE Knows(q)'
  BY <1>1 DEF OpenKnows, Knows
<1> QED
  BY <1>1 DEF OpenKnows

LEMMA BecomeKeeps ==
  ASSUME OpenInv, NEW s \in Commands \cup {Dock}, Opening!Become(s)
  PROVE  OpenInv'
<1> USE DEF OpenInv, Opening!Become
<1>1. OpenersTyped' /\ AroundTyped' /\ LooksCounted'
  BY DEF OpenersTyped, AroundTyped, LooksCounted
<1>2. ASSUME ~crossed PROVE (OneThing /\ AsksFromDock /\ OpenKnows)'
  <2>1. shims # {} /\ shims' = {}
    BY <1>2 DEF OneThing
  <2>2. OneThing'
    <3>1. CASE ~beside
      <4>1. Instances = 0
        BY <1>2, <2>1, <3>1 DEF OneThing
      <4>2. wrapped = 0 /\ vendorStock = 0 /\ coming = 0
        BY <4>1, NothingRuns
      <4> QED
        BY <2>1, <3>1, <4>2 DEF OneThing, Instances
    <3>2. CASE beside
      BY <1>2, <2>1, <3>2 DEF OneThing
    <3> QED
      BY <3>1, <3>2
  <2>3. AsksFromDock'
    BY <1>2, <2>1 DEF AsksFromDock, AroundTyped
  <2>4. OpenKnows'
    BY <1>2, <2>1, AroundKnows
  <2> QED
    BY <2>2, <2>3, <2>4
<1> QED
  BY <1>1, <1>2

LEMMA BreakKeeps ==
  ASSUME OpenInv, NEW s \in Commands \cup {Dock}, Opening!Break(s)
  PROVE  OpenInv'
<1> USE DEF OpenInv, Opening!Break
<1>1. OpenersTyped' /\ AroundTyped' /\ LooksCounted'
  BY DEF OpenersTyped, AroundTyped, LooksCounted
<1>2. ASSUME ~crossed PROVE (OneThing /\ AsksFromDock /\ OpenKnows)'
  <2>1. shims # {} /\ shims' = {}
    BY <1>2 DEF OneThing
  <2>2. OneThing'
    BY <1>2, <2>1 DEF OneThing, Instances, AroundTyped
  <2>3. AsksFromDock'
    BY <1>2, <2>1 DEF AsksFromDock, AroundTyped
  <2>4. OpenKnows'
    BY <1>2, <2>1, AroundKnows DEF Instances
  <2> QED
    BY <2>2, <2>3, <2>4
<1> QED
  BY <1>1, <1>2

(* The Dock starts a wrapper beside what runs, where no open goes by its   *)
(* look.                                                                   *)
LEMMA ClickKeeps == ASSUME OpenInv, Opening!Click PROVE OpenInv'
<1> USE OpenersAssumption DEF OpenInv, Opening!Click
<1>1. OpenersTyped' /\ LooksCounted'
  BY DEF OpenersTyped, LooksCounted
<1>2. crossed' \in BOOLEAN /\ beside' \in BOOLEAN
  OBVIOUS
<1>3. AroundTyped'
  BY <1>2, BoundsAssumption DEF AroundTyped
<1>4. ASSUME ~crossed' PROVE (OneThing /\ AsksFromDock /\ OpenKnows)'
  <2>1. ~crossed /\ ~Opening!PastLook(Dock) /\ shims = {} /\ ~(wrapped > 0)
    BY <1>4 DEF Opening!AnyRuns
  <2>2. wrapped = 0
    BY <2>1 DEF AroundTyped
  <2>3. ~beside /\ vendorStock + coming <= 1
    BY <2>1, <2>2 DEF OneThing, Instances, AroundTyped
  <2>4. OneThing'
    <3>1. shims' = {Dock} /\ UNCHANGED <<wrapped, vendorStock, coming>>
      OBVIOUS
    <3>2. CASE vendorStock + coming > 0
      <4>1. beside'
        BY <3>2
      <4>2. vendorStock + coming = 1
        BY <2>3, <3>2 DEF AroundTyped
      <4>3. vendorStock' + coming' = 1 /\ wrapped' = 0
        BY <2>2, <3>1, <4>2
      <4> QED
        BY <3>1, <4>1, <4>3 DEF OneThing
    <3>3. CASE ~(vendorStock + coming > 0)
      <4>1. ~beside'
        BY <3>3
      <4>2. vendorStock = 0 /\ coming = 0
        BY <3>3 DEF AroundTyped
      <4>3. Instances' = 0
        BY <2>2, <3>1, <4>2 DEF Instances
      <4> QED
        BY <3>1, <4>1, <4>3 DEF OneThing
    <3> QED
      BY <3>2, <3>3
  <2>5. AsksFromDock'
    BY <2>1 DEF AsksFromDock, AroundTyped
  <2>6. ASSUME NEW q \in Commands PROVE Knows(q)'
    <3>1. openers[q].at \notin {"route", "rebuild", "check", "open", "watch", "stock"}
      BY <2>1, <2>6 DEF Opening!PastLook
    <3>2. openers' = openers /\ openers[q].from = 0
      BY <2>1, <2>6, <3>1 DEF OpenKnows, Knows
    <3> QED
      BY <3>1, <3>2 DEF Knows
  <2> QED
    BY <2>4, <2>5, <2>6 DEF OpenKnows
<1> QED
  BY <1>1, <1>3, <1>4

LEMMA AppearKeeps == ASSUME OpenInv, Opening!Appear PROVE OpenInv'
<1> USE DEF OpenInv, Opening!Appear
<1>1. OpenersTyped' /\ AroundTyped' /\ LooksCounted'
  BY DEF OpenersTyped, AroundTyped, LooksCounted
<1>2. ASSUME ~crossed PROVE (OneThing /\ AsksFromDock /\ OpenKnows)'
  <2>1. Instances' = Instances /\ vendorStock' + coming' = vendorStock + coming
    BY DEF Instances, AroundTyped
  <2>2. Instances # 0 /\ coming # 0
    BY DEF Instances, AroundTyped
  <2>3. OneThing' /\ AsksFromDock'
    BY <1>2, <2>1 DEF OneThing, AsksFromDock
  <2>4. OpenKnows'
    BY <1>2, <2>2, AroundKnows
  <2> QED
    BY <2>3, <2>4
<1> QED
  BY <1>1, <1>2

LEMMA GoneKeeps == ASSUME OpenInv, Opening!Gone PROVE OpenInv'
<1> USE DEF OpenInv, Opening!Gone
<1>1. OpenersTyped' /\ AroundTyped' /\ LooksCounted'
  <2>1. OpenersTyped' /\ LooksCounted'
    BY DEF OpenersTyped, LooksCounted
  <2>2. beside' \in BOOLEAN
    OBVIOUS
  <2>3. wrapped' \in Nat /\ vendorStock' \in Nat
    BY DEF AroundTyped
  <2> QED
    BY <2>1, <2>2, <2>3 DEF AroundTyped
<1>2. ASSUME ~crossed PROVE (OneThing /\ AsksFromDock /\ OpenKnows)'
  <2>1. Instances' = Instances - 1 /\ Instances' \in Nat /\ Instances \in Nat
    BY DEF Instances, AroundTyped
  <2>2. coming = 0 /\ vendorStock = 0 => vendorStock' = 0
    BY DEF AroundTyped
  <2>3. OneThing'
    <3>1. CASE ~beside
      BY <1>2, <2>1, <3>1 DEF OneThing
    <3>2. CASE beside
      <4>1. /\ vendorStock + coming = 1
            /\ (shims # {} => wrapped = 0) /\ (shims = {} => wrapped = 1)
        BY <1>2, <3>2 DEF OneThing
      <4>2. Instances' <= 1 /\ (shims # {} => Instances' = 0)
        BY <2>1, <4>1 DEF Instances, AroundTyped
      <4> QED
        BY <1>2, <4>2 DEF OneThing
    <3> QED
      BY <3>1, <3>2
  <2>4. AsksFromDock'
    BY <1>2 DEF AsksFromDock
  <2>5. OpenKnows'
    BY <1>2, <2>1, <2>2, AroundKnows
  <2> QED
    BY <2>3, <2>4, <2>5
<1> QED
  BY <1>1, <1>2

LEMMA VendorKeeps == ASSUME OpenInv, Opening!VendorUpdates PROVE OpenInv'
<1> USE OpenersAssumption DEF OpenInv, Opening!VendorUpdates, Opening!instances
<1>1. OpenersTyped' /\ LooksCounted'
  BY DEF OpenersTyped, LooksCounted
<1>2. crossed' \in BOOLEAN
  OBVIOUS
<1>3. AroundTyped'
  BY <1>2, BoundsAssumption DEF AroundTyped, Opening!Versions
<1>4. ASSUME ~crossed' PROVE (OneThing /\ AsksFromDock /\ OpenKnows)'
  <2>1. ~crossed /\ shims = {} /\ ~Opening!PastLook(Dock)
    BY <1>4
  <2>2. (OneThing /\ AsksFromDock)'
    BY <2>1 DEF OneThing, AsksFromDock, Instances
  <2>3. ASSUME NEW q \in Commands PROVE Knows(q)'
    <3>1. openers[q].at \notin {"route", "rebuild", "check", "open", "watch", "stock"}
      BY <2>1, <2>3 DEF Opening!PastLook
    <3>2. openers' = openers /\ openers[q].from = 0
      BY <2>1, <2>3, <3>1 DEF OpenKnows, Knows
    <3> QED
      BY <3>1, <3>2 DEF Knows
  <2> QED
    BY <2>2, <2>3 DEF OpenKnows
<1> QED
  BY <1>1, <1>3, <1>4

LEMMA OpensNext == ASSUME OpenInv, Opening!Next PROVE OpenInv'
<1>1. ASSUME NEW o \in Commands, \/ Opening!Open(o) \/ Opening!Find(o) \/ Opening!Route(o)
                                 \/ Opening!Rebuild(o) \/ Opening!Check(o)
      PROVE  OpenInv'
  BY <1>1, BeginKeeps, FindKeeps, RouteKeeps, RebuildKeeps, CheckKeeps
<1>2. ASSUME NEW o \in Commands, \/ Opening!OpenWrapper(o) \/ Opening!Watch(o)
                                 \/ Opening!Stock(o) \/ Opening!Settle(o)
      PROVE  OpenInv'
  BY <1>2, OpenWrapperKeeps, WatchKeeps, OverKeeps, SettleKeeps
<1> QED
  BY <1>1, <1>2, HandOffKeeps, BecomeKeeps, BreakKeeps, ClickKeeps, AppearKeeps, GoneKeeps,
     VendorKeeps DEF Opening!Next

LEMMA OpensAlways == MacSpec => [](Opens => OpenInv)
<1>1. MacInit => (Opens => OpenInv)
  BY OpensStart DEF MacInit, Lists, Listing, Opens, Sessions
<1>2. (Opens => OpenInv) /\ [MacNext]_allVars => (Opens => OpenInv)'
  <2> SUFFICES ASSUME Opens => OpenInv, [MacNext]_allVars, Opens'
               PROVE  OpenInv'
    OBVIOUS
  <2>1. Opens /\ OpenInv
    BY DEF MacNext, allVars, Opens
  <2>2. CASE UNCHANGED launchVars
    BY <2>1, <2>2
       DEF launchVars, OpenInv, OpenersTyped, AroundTyped, LooksCounted, OneThing,
       AsksFromDock, OpenKnows, Knows, Instances
  <2>3. CASE Opening!Next
    BY <2>1, <2>3, OpensNext
  <2> QED
    BY <2>1, <2>2, <2>3 DEF MacNext, allVars, Lists, Listing, Opens, Sessions
<1> QED
  BY <1>1, <1>2, PTL DEF MacSpec

(* However many processes open an app, and whatever the user starts and    *)
(* quits meanwhile, opens leave one instance at most on its data           *)
(* directory, or the stock one with what the Dock started beside it, and   *)
(* no wrapper that an open started asks for another open; until something  *)
(* starts between an open's look and its start, or the vendor's app        *)
(* changes there.                                                          *)
THEOREM OneAtATimeAlways == MacSpec => []OneAtATime
<1>1. OpenInv => Opening!OneAtATime
  BY DEF OpenInv, OneThing, Instances, AroundTyped, Opening!OneAtATime
<1>2. OpenInv => Opening!AsksOnce
  <2> SUFFICES ASSUME OpenInv, ~crossed PROVE handoffs <= clicks
    BY DEF Opening!AsksOnce
  <2> QED
    BY DEF OpenInv, AsksFromDock, AroundTyped
<1>3. (Opens => OpenInv) => OneAtATime
  BY <1>1, <1>2 DEF OneAtATime
<1> QED
  BY <1>3, OpensAlways, PTL

------------------------------------------------------------------------------
(***************************************************************************)
(* Sessions.  What a command's last look at the files and the apps found   *)
(* stays true until the command itself changes it, unless somebody goes on *)
(* with the session under it, or an app takes the session up there.        *)
(***************************************************************************)

Moving(j) == j.pc \in {"backup", "copy", "record", "check", "remove", "remove record"}
Parting(j) == j.pc \in {"away", "record away"}

(* The steps of a command are those of what it was asked.                  *)
StepsFit(j) ==
  /\ j.p \in Pair /\ j.q \in Pair /\ j.s \in Shelves
  /\ j.op \in {"move", "archive", "restore", "delete"}
  /\ j.op = "move" <=> j.p # j.q
  /\ j.op # "move" => j.after = "keep" /\ ~j.add
  /\ j.pc = "clear" <=> j.op = "delete"
  /\ Moving(j) => j.op = "move"
  /\ j.pc \in {"check", "remove", "remove record"} => j.after = "delete"
  /\ j.pc = "record" => j.lists
  /\ j.pc \in {"remove record", "record away"} => j.rec
  /\ Parting(j) => j.op = "archive" \/ (j.op = "move" /\ j.after = "archive")
  /\ j.pc \in {"record back", "back"} => j.op = "restore"

(* What it goes by is still so: of the archives and transcripts, as long   *)
(* as nobody goes on with the session under it...                          *)
FilesKnown(j) ==
  /\ j.op \in {"move", "archive"} /\ j.pc # "record away" =>
       arch[j.p][j.s] = OnSessions!NoArchive
  /\ j.op = "restore" /\ j.pc \in {"quit", "again", "record back", "back"} =>
       live[j.p] = OnSessions!NoCopy
  /\ j.pc = "record" => live[j.q] # OnSessions!NoCopy
  /\ ~resumed /\ j.pc = "copy" => live[j.q] \in {OnSessions!NoCopy, live[j.p]}
  /\ ~resumed /\ j.pc = "remove" =>
       live[j.q] = live[j.p] /\ live[j.p] # OnSessions!NoCopy

(* ... and where it takes the session away, of the profile's app: it runs  *)
(* only without the session on its list and on disk.                       *)
Quiet(p) == app[p] # "closed" => ~rec[p] /\ ~mem[p]
Removes(j) == Parting(j) \/ (Moving(j) /\ j.after # "keep")
AppsKnown(j) ==
  ~apart /\ Removes(j) =>
    j.rec = rec[j.p] /\ Quiet(j.p)

(* The app of a profile has the session on its list, or will have.         *)
OnItsList(p) == rec[p] \/ (app[p] # "closed" /\ mem[p])

(* The command that takes a profile's record and transcript one after the  *)
(* other, or brings them, is between the two.                              *)
Between(j, p) ==
  \/ j.p = p /\ j.pc \in {"remove record", "record away", "back"}
  \/ j.q = p /\ j.pc = "copy"

TogetherBut ==
  ~apart => \A p \in Pair :
    OnItsList(p) => live[p] # OnSessions!NoCopy \/ \E e \in One : Between(cmd[e], p)

CommandFits(j) ==
  j.pc # "idle" => StepsFit(j) /\ FilesKnown(j) /\ AppsKnown(j)

CommandsFit == \A e \in One : CommandFits(cmd[e])

SessionsInv ==
  OnSessions!TypeOK /\ CommandsFit /\ TogetherBut /\ OnSessions!LatestKept

(* One command after another: a step is the only command's.                *)
Takes(j, k) ==
  /\ k.op = j.op /\ k.p = j.p /\ k.q = j.q /\ k.s = j.s /\ k.after = j.after
  /\ k.add = j.add /\ k.lists = j.lists /\ k.rec = j.rec /\ k.zip = j.zip

LEMMA AtWork ==
  ASSUME NEW e \in One, SessionsInv
  PROVE  /\ cmd[e] \in OnSessions!Cmds
         /\ cmd[e].pc # "idle" =>
              StepsFit(cmd[e]) /\ FilesKnown(cmd[e]) /\ AppsKnown(cmd[e])
         /\ \A f \in One : f = e
<1>1. cmd[e] \in OnSessions!Cmds
  BY DEF SessionsInv, OnSessions!TypeOK
<1>2. CommandFits(cmd[e])
  BY DEF SessionsInv, CommandsFit
<1> QED
  BY <1>1, <1>2, OneAssumption DEF CommandFits

LEMMA GotoGoes ==
  ASSUME NEW e \in One, NEW pc \in OnSessions!Pcs,
         cmd \in [One -> OnSessions!Cmds], OnSessions!Goto(e, pc)
  PROVE  /\ cmd' \in [One -> OnSessions!Cmds]
         /\ cmd'[e].pc = pc /\ Takes(cmd[e], cmd'[e])
<1> HIDE DEF OnSessions!Pcs
<1> DEFINE r == [cmd[e] EXCEPT !.pc = pc]
<1>1. cmd[e] \in OnSessions!Cmds
  OBVIOUS
<1>2. r \in OnSessions!Cmds /\ r.pc = pc /\ Takes(cmd[e], r)
  BY <1>1 DEF OnSessions!Cmds, Takes
<1>3. cmd' = [cmd EXCEPT ![e] = r]
  BY DEF OnSessions!Goto
<1> HIDE DEF r
<1> QED
  BY <1>2, <1>3

LEMMA EndsGoes ==
  ASSUME NEW e \in One, cmd \in [One -> OnSessions!Cmds], OnSessions!Ends(e)
  PROVE  cmd' \in [One -> OnSessions!Cmds] /\ cmd'[e].pc = "idle"
<1> DEFINE r == OnSessions!Resting[e]
<1>1. r \in OnSessions!Cmds /\ r.pc = "idle"
  BY DEF OnSessions!Resting, OnSessions!Cmds, OnSessions!Ops, OnSessions!Pcs,
         OnSessions!Nothing
<1>2. cmd' = [cmd EXCEPT ![e] = r]
  BY DEF OnSessions!Ends
<1> HIDE DEF r
<1> QED
  BY <1>1, <1>2

LEMMA ShelveGoes ==
  ASSUME NEW p \in Pair, NEW s \in Shelves, NEW v \in OnSessions!Archives,
         arch \in [Pair -> [Shelves -> OnSessions!Archives]],
         OnSessions!Shelve(p, s, v)
  PROVE  /\ arch' \in [Pair -> [Shelves -> OnSessions!Archives]]
         /\ arch'[p][s] = v
         /\ \A o \in Pair, t \in Shelves : o # p \/ t # s => arch'[o][t] = arch[o][t]
<1> DEFINE g == [arch[p] EXCEPT ![s] = v]
<1>1. arch[p] \in [Shelves -> OnSessions!Archives]
  OBVIOUS
<1>2. /\ g \in [Shelves -> OnSessions!Archives] /\ g[s] = v
      /\ \A t \in Shelves : t # s => g[t] = arch[p][t]
  BY <1>1
<1>3. arch' = [arch EXCEPT ![p] = g]
  BY DEF OnSessions!Shelve
<1> HIDE DEF g
<1> QED
  BY <1>2, <1>3

LEMMA BackUpKeeps ==
  ASSUME NEW e \in One, SessionsInv, OnSessions!BackUp(e)
  PROVE  SessionsInv'
<1> DEFINE j == cmd[e]
           k == cmd'[e]
<1>1. OnSessions!TypeOK
  BY DEF SessionsInv
<1>2. j.pc = "backup" /\ j \in OnSessions!Cmds /\ \A f \in One : f = e
  BY AtWork DEF OnSessions!BackUp
<1>3. StepsFit(j) /\ FilesKnown(j) /\ AppsKnown(j)
  BY <1>2, AtWork
<1>4. cmd' \in [One -> OnSessions!Cmds] /\ k.pc = "copy" /\ Takes(j, k)
  BY <1>1, GotoGoes DEF OnSessions!BackUp, OnSessions!TypeOK, OnSessions!Pcs
<1>5. j.q \in Pair /\ j.p \in Pair /\ j.p # j.q /\ j.op = "move"
  BY <1>2, <1>3 DEF StepsFit, Moving
<1>6. /\ live' \in [Pair -> {0} \cup OnSessions!Versions] /\ live'[j.q] = 0
      /\ \A o \in Pair : o # j.q => live'[o] = live[o]
  BY <1>1, <1>5 DEF OnSessions!BackUp, OnSessions!TypeOK, OnSessions!NoCopy
<1>7. UNCHANGED <<arch, rec, app, mem, term, said, dropped, asked, resumed, apart>>
  BY DEF OnSessions!BackUp, OnSessions!userVars
<1>8. safe' = (safe \/ live[j.q] = said)
  BY DEF OnSessions!BackUp
<1>9. OnSessions!TypeOK'
  BY <1>1, <1>4, <1>6, <1>7, <1>8 DEF OnSessions!TypeOK, OnSessions!NoCopy
<1>10. CommandsFit'
  <2>1. StepsFit(j)'
    BY <1>3, <1>4, <1>2 DEF StepsFit, Takes, Moving, Parting
  <2>2. FilesKnown(j)'
    BY <1>3, <1>4, <1>2, <1>5, <1>6, <1>7 DEF FilesKnown, Takes, OnSessions!NoCopy
  <2>3. AppsKnown(j)'
    BY <1>3, <1>4, <1>2, <1>5, <1>7 DEF AppsKnown, Removes, Quiet, Takes, Moving, Parting
  <2> QED
    BY <2>1, <2>2, <2>3, <1>2 DEF CommandsFit, CommandFits
<1>11. TogetherBut'
  <2> SUFFICES ASSUME ~apart', NEW o \in Pair, OnItsList(o)', live'[o] = 0
               PROVE  Between(k, o)
    BY DEF TogetherBut, OnSessions!NoCopy
  <2>1. CASE o = j.q
    BY <2>1, <1>4 DEF Between, OnItsList, Takes
  <2>2. CASE o # j.q
    <3>1. live[o] = 0 /\ OnItsList(o) /\ ~apart
      BY <2>2, <1>6, <1>7 DEF OnItsList
    <3>2. PICK f \in One : Between(cmd[f], o)
      BY <3>1 DEF SessionsInv, TogetherBut, OnSessions!NoCopy
    <3> QED
      BY <2>2, <3>2, <1>2 DEF Between, OnItsList
  <2> QED
    BY <2>1, <2>2
<1>12. OnSessions!LatestKept'
  BY <1>1, <1>5, <1>6, <1>7, <1>8
     DEF SessionsInv, OnSessions!LatestKept, OnSessions!TypeOK, OnSessions!NoCopy
<1> QED
  BY <1>9, <1>10, <1>11, <1>12 DEF SessionsInv

(* A command that ends knows nothing any more.                             *)
LEMMA IdleFits ==
  ASSUME NEW e \in One, \A f \in One : f = e, cmd'[e].pc = "idle"
  PROVE  CommandsFit'
BY DEF CommandsFit, CommandFits

LEMMA FilesStay ==
  ASSUME SessionsInv, UNCHANGED <<live, arch, said, safe, dropped, resumed>>
  PROVE  OnSessions!LatestKept'
BY DEF SessionsInv, OnSessions!LatestKept

LEMMA CopyKeeps ==
  ASSUME NEW e \in One, SessionsInv, OnSessions!Copy(e)
  PROVE  SessionsInv'
<1> DEFINE j == cmd[e]
<1>1. OnSessions!TypeOK
  BY DEF SessionsInv
<1>2. j.pc = "copy" /\ j \in OnSessions!Cmds /\ \A f \in One : f = e
  BY AtWork DEF OnSessions!Copy
<1>3. StepsFit(j) /\ FilesKnown(j) /\ AppsKnown(j)
  BY <1>2, AtWork
<1>4. j.p \in Pair /\ j.q \in Pair /\ j.s \in Shelves
  BY <1>2, <1>3 DEF StepsFit
<1>5. /\ cmd' \in [One -> OnSessions!Cmds]
      /\ \/ j'.pc = "record" /\ j.lists /\ Takes(j, j')
         \/ j'.pc = "idle"
         \/ j'.pc = "away" /\ j.after = "archive" /\ Takes(j, j')
         \/ j'.pc = "check" /\ j.after = "delete" /\ Takes(j, j')
  <2>1. CASE j.lists
    BY <2>1, <1>1, GotoGoes, EndsGoes DEF OnSessions!TypeOK, OnSessions!Pcs, OnSessions!Copy
  <2>2. CASE ~j.lists /\ j.after = "keep"
    BY <2>2, <1>1, GotoGoes, EndsGoes DEF OnSessions!TypeOK, OnSessions!Pcs, OnSessions!Copy
  <2>3. CASE ~j.lists /\ j.after # "keep"
    <3>1. OnSessions!Goto(e, OnSessions!Afterwards(j))
      BY <2>3 DEF OnSessions!Copy
    <3>2. OnSessions!Afterwards(j) \in OnSessions!Pcs
      BY DEF OnSessions!Afterwards, OnSessions!Pcs
    <3>3. cmd' \in [One -> OnSessions!Cmds] /\ j'.pc = OnSessions!Afterwards(j) /\ Takes(j, j')
      BY <3>1, <3>2, <1>1, GotoGoes DEF OnSessions!TypeOK
    <3> QED
      BY <2>3, <3>3, <1>2 DEF OnSessions!Afterwards, OnSessions!Cmds
  <2> QED
    BY <2>1, <2>2, <2>3
<1>6. /\ live[j.p] # 0 /\ live'[j.q] = live[j.p] /\ live' \in [Pair -> {0} \cup OnSessions!Versions]
      /\ \A o \in Pair : o # j.q => live'[o] = live[o]
  BY <1>1, <1>4 DEF OnSessions!Copy, OnSessions!TypeOK, OnSessions!NoCopy
<1>7. UNCHANGED <<arch, rec, app, mem, term, said, safe, dropped, asked, resumed, apart>>
  BY DEF OnSessions!Copy, OnSessions!userVars, OnSessions!files, OnSessions!history
<1>9. OnSessions!TypeOK'
  BY <1>1, <1>2, <1>3, <1>4, <1>5, <1>6, <1>7 DEF OnSessions!TypeOK, OnSessions!NoCopy
<1>10. CommandsFit'
  <2>1. CASE j'.pc = "idle"
    BY <1>2, <2>1, IdleFits
  <2>2. CASE j'.pc # "idle"
    <3>1. StepsFit(j)'
      BY <2>2, <1>2, <1>3, <1>4, <1>5, <1>6, <1>7 DEF StepsFit, Takes, Moving, Parting
    <3>2. FilesKnown(j)'
      BY <1>1, <2>2, <1>2, <1>3, <1>4, <1>5, <1>6, <1>7
         DEF FilesKnown, StepsFit, Takes, Moving, Parting, OnSessions!NoCopy
    <3>3. AppsKnown(j)'
      BY <1>1, <2>2, <1>2, <1>3, <1>4, <1>5, <1>6, <1>7
         DEF AppsKnown, Removes, Quiet, StepsFit, Takes, Moving, Parting
    <3> QED
      BY <3>1, <3>2, <3>3, <1>2 DEF CommandsFit, CommandFits
  <2> QED
    BY <2>1, <2>2
<1>11. TogetherBut'
  <2> SUFFICES ASSUME ~apart', NEW o \in Pair, OnItsList(o)', live'[o] = 0
               PROVE  Between(j, o)'
    BY DEF TogetherBut, OnSessions!NoCopy
  <2>1. ~apart /\ OnItsList(o) => live[o] # 0 \/ Between(j, o)
    BY <1>2 DEF SessionsInv, TogetherBut, OnSessions!NoCopy
  <2> QED
    BY <1>1, <2>1, <1>2, <1>3, <1>4, <1>5, <1>6, <1>7
       DEF Between, Removes, OnItsList, Takes, FilesKnown, AppsKnown, StepsFit,
       Moving, Parting, OnSessions!NoCopy, OnSessions!TypeOK
<1>12. OnSessions!LatestKept'
  BY <1>1, <1>2, <1>3, <1>4, <1>5, <1>6, <1>7
     DEF SessionsInv, OnSessions!LatestKept, FilesKnown, StepsFit, Moving, Parting,
         OnSessions!TypeOK, OnSessions!NoCopy, OnSessions!NoArchive, OnSessions!Versions
<1> QED
  BY <1>9, <1>10, <1>11, <1>12 DEF SessionsInv

LEMMA WriteRecordKeeps ==
  ASSUME NEW e \in One, SessionsInv, OnSessions!WriteRecord(e)
  PROVE  SessionsInv'
<1> DEFINE j == cmd[e]
<1>1. OnSessions!TypeOK
  BY DEF SessionsInv
<1>2. j.pc = "record" /\ j \in OnSessions!Cmds /\ \A f \in One : f = e
  BY AtWork DEF OnSessions!WriteRecord
<1>3. StepsFit(j) /\ FilesKnown(j) /\ AppsKnown(j)
  BY <1>2, AtWork
<1>4. j.p \in Pair /\ j.q \in Pair /\ j.s \in Shelves
  BY <1>2, <1>3 DEF StepsFit
<1>5. /\ cmd' \in [One -> OnSessions!Cmds]
      /\ \/ j'.pc = "idle"
         \/ j'.pc = "away" /\ j.after = "archive" /\ Takes(j, j')
         \/ j'.pc = "check" /\ j.after = "delete" /\ Takes(j, j')
  <2>1. CASE j.after = "keep"
    BY <2>1, <1>1, GotoGoes, EndsGoes
       DEF OnSessions!TypeOK, OnSessions!Pcs, OnSessions!WriteRecord
  <2>2. CASE j.after # "keep"
    <3>1. OnSessions!Goto(e, OnSessions!Afterwards(j))
      BY <2>2 DEF OnSessions!WriteRecord
    <3>2. OnSessions!Afterwards(j) \in OnSessions!Pcs
      BY DEF OnSessions!Afterwards, OnSessions!Pcs
    <3>3. cmd' \in [One -> OnSessions!Cmds] /\ j'.pc = OnSessions!Afterwards(j) /\ Takes(j, j')
      BY <3>1, <3>2, <1>1, GotoGoes DEF OnSessions!TypeOK
    <3> QED
      BY <2>2, <3>3, <1>2 DEF OnSessions!Afterwards, OnSessions!Cmds
  <2> QED
    BY <2>1, <2>2
<1>6. /\ rec'[j.q] = TRUE /\ rec' \in [Pair -> BOOLEAN]
      /\ \A o \in Pair : o # j.q => rec'[o] = rec[o]
  BY <1>1, <1>4 DEF OnSessions!WriteRecord, OnSessions!TypeOK
<1>7. UNCHANGED <<live, arch, app, mem, term, said, safe, dropped, asked, resumed, apart>>
  BY DEF OnSessions!WriteRecord, OnSessions!userVars, OnSessions!files, OnSessions!history
<1>9. OnSessions!TypeOK'
  BY <1>1, <1>2, <1>3, <1>4, <1>5, <1>6, <1>7 DEF OnSessions!TypeOK, OnSessions!NoCopy
<1>10. CommandsFit'
  <2>1. CASE j'.pc = "idle"
    BY <1>2, <2>1, IdleFits
  <2>2. CASE j'.pc # "idle"
    <3>1. StepsFit(j)'
      BY <2>2, <1>2, <1>3, <1>4, <1>5, <1>6, <1>7 DEF StepsFit, Takes, Moving, Parting
    <3>2. FilesKnown(j)'
      BY <1>1, <2>2, <1>2, <1>3, <1>4, <1>5, <1>6, <1>7
         DEF FilesKnown, StepsFit, Takes, Moving, Parting, OnSessions!NoCopy
    <3>3. AppsKnown(j)'
      BY ZenonT(60), <1>1, <2>2, <1>2, <1>3, <1>4, <1>5, <1>6, <1>7
         DEF AppsKnown, Removes, Quiet, StepsFit, Takes, Moving, Parting
    <3> QED
      BY <3>1, <3>2, <3>3, <1>2 DEF CommandsFit, CommandFits
  <2> QED
    BY <2>1, <2>2
<1>11. TogetherBut'
  <2> SUFFICES ASSUME ~apart', NEW o \in Pair, OnItsList(o)', live'[o] = 0
               PROVE  Between(j, o)'
    BY DEF TogetherBut, OnSessions!NoCopy
  <2>1. ~apart /\ OnItsList(o) => live[o] # 0 \/ Between(j, o)
    BY <1>2 DEF SessionsInv, TogetherBut, OnSessions!NoCopy
  <2> QED
    BY <1>1, <2>1, <1>2, <1>3, <1>4, <1>5, <1>6, <1>7
       DEF Between, Removes, OnItsList, Takes, FilesKnown, AppsKnown, StepsFit,
       Moving, Parting, OnSessions!NoCopy, OnSessions!TypeOK
<1>12. OnSessions!LatestKept'
  BY <1>1, <1>2, <1>3, <1>4, <1>5, <1>6, <1>7
     DEF SessionsInv, OnSessions!LatestKept, FilesKnown, StepsFit, Moving, Parting,
         OnSessions!TypeOK, OnSessions!NoCopy, OnSessions!NoArchive, OnSessions!Versions
<1> QED
  BY <1>9, <1>10, <1>11, <1>12 DEF SessionsInv

LEMMA CheckSourceKeeps ==
  ASSUME NEW e \in One, SessionsInv, OnSessions!CheckSource(e)
  PROVE  SessionsInv'
<1> DEFINE j == cmd[e]
<1>1. OnSessions!TypeOK
  BY DEF SessionsInv
<1>2. j.pc = "check" /\ j \in OnSessions!Cmds /\ \A f \in One : f = e
  BY AtWork DEF OnSessions!CheckSource
<1>3. StepsFit(j) /\ FilesKnown(j) /\ AppsKnown(j)
  BY <1>2, AtWork
<1>4. j.p \in Pair /\ j.q \in Pair /\ j.s \in Shelves
  BY <1>2, <1>3 DEF StepsFit
<1>5. /\ cmd' \in [One -> OnSessions!Cmds]
      /\ \/ j'.pc = "idle"
         \/ /\ j'.pc = "remove" /\ Takes(j, j')
            /\ live[j.q] # 0 /\ live[j.p] = live[j.q]
  BY <1>1, GotoGoes, EndsGoes
     DEF OnSessions!TypeOK, OnSessions!Pcs, OnSessions!CheckSource, OnSessions!NoCopy
<1>6. UNCHANGED <<live, arch, rec, said, safe, dropped, resumed>>
  BY DEF OnSessions!CheckSource, OnSessions!userVars, OnSessions!files, OnSessions!history
<1>7. UNCHANGED <<app, mem, term, asked, apart>>
  BY DEF OnSessions!CheckSource, OnSessions!userVars, OnSessions!files, OnSessions!history
<1>9. OnSessions!TypeOK'
  BY <1>1, <1>2, <1>3, <1>4, <1>5, <1>6, <1>7 DEF OnSessions!TypeOK, OnSessions!NoCopy
<1>10. CommandsFit'
  <2>1. CASE j'.pc = "idle"
    BY <1>2, <2>1, IdleFits
  <2>2. CASE j'.pc # "idle"
    <3>1. StepsFit(j)'
      BY <2>2, <1>2, <1>3, <1>4, <1>5, <1>6, <1>7 DEF StepsFit, Takes, Moving, Parting
    <3>2. FilesKnown(j)'
      BY <1>1, <2>2, <1>2, <1>3, <1>4, <1>5, <1>6, <1>7
         DEF FilesKnown, StepsFit, Takes, Moving, Parting, OnSessions!NoCopy
    <3>3. AppsKnown(j)'
      BY <1>1, <2>2, <1>2, <1>3, <1>4, <1>5, <1>6, <1>7
         DEF AppsKnown, Removes, Quiet, StepsFit, Takes, Moving, Parting
    <3> QED
      BY <3>1, <3>2, <3>3, <1>2 DEF CommandsFit, CommandFits
  <2> QED
    BY <2>1, <2>2
<1>11. TogetherBut'
  <2> SUFFICES ASSUME ~apart', NEW o \in Pair, OnItsList(o)', live'[o] = 0
               PROVE  Between(j, o)'
    BY DEF TogetherBut, OnSessions!NoCopy
  <2>1. ~apart /\ OnItsList(o) => live[o] # 0 \/ Between(j, o)
    BY <1>2 DEF SessionsInv, TogetherBut, OnSessions!NoCopy
  <2> QED
    BY <1>1, <2>1, <1>2, <1>3, <1>4, <1>5, <1>6, <1>7
       DEF Between, Removes, OnItsList, Takes, FilesKnown, AppsKnown, StepsFit,
       Moving, Parting, OnSessions!NoCopy, OnSessions!TypeOK
<1>12. OnSessions!LatestKept'
  BY <1>6, <1>7, FilesStay
<1> QED
  BY <1>9, <1>10, <1>11, <1>12 DEF SessionsInv

LEMMA RemoveSourceKeeps ==
  ASSUME NEW e \in One, SessionsInv, OnSessions!RemoveSource(e)
  PROVE  SessionsInv'
<1> DEFINE j == cmd[e]
<1>1. OnSessions!TypeOK
  BY DEF SessionsInv
<1>2. j.pc = "remove" /\ j \in OnSessions!Cmds /\ \A f \in One : f = e
  BY AtWork DEF OnSessions!RemoveSource
<1>3. StepsFit(j) /\ FilesKnown(j) /\ AppsKnown(j)
  BY <1>2, AtWork
<1>4. j.p \in Pair /\ j.q \in Pair /\ j.s \in Shelves
  BY <1>2, <1>3 DEF StepsFit
<1>5. /\ cmd' \in [One -> OnSessions!Cmds]
      /\ \/ j'.pc = "idle" /\ ~j.rec
         \/ j'.pc = "remove record" /\ j.rec /\ Takes(j, j')
  <2>1. CASE j.rec
    BY <2>1, <1>1, GotoGoes, EndsGoes
       DEF OnSessions!TypeOK, OnSessions!Pcs, OnSessions!RemoveSource
  <2>2. CASE ~j.rec
    BY <2>2, <1>1, GotoGoes, EndsGoes
       DEF OnSessions!TypeOK, OnSessions!Pcs, OnSessions!RemoveSource
  <2> QED
    BY <2>1, <2>2
<1>6. /\ live'[j.p] = 0 /\ live' \in [Pair -> {0} \cup OnSessions!Versions]
      /\ \A o \in Pair : o # j.p => live'[o] = live[o]
  BY <1>1, <1>4 DEF OnSessions!RemoveSource, OnSessions!TypeOK, OnSessions!NoCopy
<1>7. UNCHANGED <<arch, rec, app, mem, term, said, safe, dropped, asked, resumed, apart>>
  BY DEF OnSessions!RemoveSource, OnSessions!userVars, OnSessions!files, OnSessions!history
<1>9. OnSessions!TypeOK'
  BY <1>1, <1>2, <1>3, <1>4, <1>5, <1>6, <1>7 DEF OnSessions!TypeOK, OnSessions!NoCopy
<1>10. CommandsFit'
  <2>1. CASE j'.pc = "idle"
    BY <1>2, <2>1, IdleFits
  <2>2. CASE j'.pc # "idle"
    <3>1. StepsFit(j)'
      BY <2>2, <1>2, <1>3, <1>4, <1>5, <1>6, <1>7 DEF StepsFit, Takes, Moving, Parting
    <3>2. FilesKnown(j)'
      BY <1>1, <2>2, <1>2, <1>3, <1>4, <1>5, <1>6, <1>7
         DEF FilesKnown, StepsFit, Takes, Moving, Parting, OnSessions!NoCopy
    <3>3. AppsKnown(j)'
      BY <1>1, <2>2, <1>2, <1>3, <1>4, <1>5, <1>6, <1>7
         DEF AppsKnown, Removes, Quiet, StepsFit, Takes, Moving, Parting
    <3> QED
      BY <3>1, <3>2, <3>3, <1>2 DEF CommandsFit, CommandFits
  <2> QED
    BY <2>1, <2>2
<1>11. TogetherBut'
  <2> SUFFICES ASSUME ~apart', NEW o \in Pair, OnItsList(o)', live'[o] = 0
               PROVE  Between(j, o)'
    BY DEF TogetherBut, OnSessions!NoCopy
  <2>1. ~apart /\ OnItsList(o) => live[o] # 0 \/ Between(j, o)
    BY <1>2 DEF SessionsInv, TogetherBut, OnSessions!NoCopy
  <2>2. ~apart /\ Removes(j)
    BY <1>2, <1>3, <1>7 DEF Removes, Moving, Parting, StepsFit
  <2>3. j.rec = rec[j.p] /\ Quiet(j.p)
    BY <1>3, <2>2 DEF AppsKnown
  <2>4. CASE o = j.p
    <3>1. j.rec
      BY <1>7, <2>3, <2>4 DEF OnItsList, Quiet
    <3> QED
      BY <1>5, <2>4, <3>1 DEF Between, Takes
  <2>5. CASE o # j.p
    <3>1. live[o] = 0 /\ OnItsList(o)
      BY <1>6, <1>7, <2>5 DEF OnItsList
    <3> QED
      BY <1>2, <2>1, <2>2, <2>5, <3>1 DEF Between
  <2> QED
    BY <2>4, <2>5
<1>12. OnSessions!LatestKept'
  <2> SUFFICES ASSUME ~dropped', ~resumed', ~safe'
               PROVE  \E o \in Pair : \/ live'[o] = said'
                                     \/ \E s \in Shelves : arch'[o][s].v = said'
    BY DEF OnSessions!LatestKept
  <2>1. j.p # j.q /\ live[j.q] = live[j.p]
    BY <1>2, <1>3, <1>7 DEF StepsFit, Moving, FilesKnown
  <2>2. PICK o \in Pair : live[o] = said \/ \E s \in Shelves : arch[o][s].v = said
    BY <1>7 DEF SessionsInv, OnSessions!LatestKept
  <2>3. CASE live[o] = said /\ o = j.p
    BY <2>1, <2>3, <1>4, <1>6, <1>7
  <2>4. CASE live[o] = said /\ o # j.p
    BY <2>4, <1>6, <1>7
  <2>5. CASE \E s \in Shelves : arch[o][s].v = said
    BY <2>5, <1>7
  <2> QED
    BY <2>2, <2>3, <2>4, <2>5
<1> QED
  BY <1>9, <1>10, <1>11, <1>12 DEF SessionsInv

LEMMA RemoveRecordKeeps ==
  ASSUME NEW e \in One, SessionsInv, OnSessions!RemoveRecord(e)
  PROVE  SessionsInv'
<1> DEFINE j == cmd[e]
<1>1. OnSessions!TypeOK
  BY DEF SessionsInv
<1>2. j.pc = "remove record" /\ j \in OnSessions!Cmds /\ \A f \in One : f = e
  BY AtWork DEF OnSessions!RemoveRecord
<1>3. StepsFit(j) /\ FilesKnown(j) /\ AppsKnown(j)
  BY <1>2, AtWork
<1>4. j.p \in Pair /\ j.q \in Pair /\ j.s \in Shelves
  BY <1>2, <1>3 DEF StepsFit
<1>5. cmd' \in [One -> OnSessions!Cmds] /\ j'.pc = "idle"
  BY <1>1, EndsGoes DEF OnSessions!RemoveRecord, OnSessions!TypeOK
<1>6. /\ rec'[j.p] = FALSE /\ rec' \in [Pair -> BOOLEAN]
      /\ \A o \in Pair : o # j.p => rec'[o] = rec[o]
  BY <1>1, <1>4 DEF OnSessions!RemoveRecord, OnSessions!TypeOK
<1>7. UNCHANGED <<live, arch, app, mem, term, said, safe, dropped, asked, resumed, apart>>
  BY DEF OnSessions!RemoveRecord, OnSessions!userVars, OnSessions!files, OnSessions!history
<1>9. OnSessions!TypeOK'
  BY <1>1, <1>2, <1>3, <1>4, <1>5, <1>6, <1>7 DEF OnSessions!TypeOK, OnSessions!NoCopy
<1>10. CommandsFit'
  BY <1>2, <1>5, IdleFits
<1>11. TogetherBut'
  <2> SUFFICES ASSUME ~apart', NEW o \in Pair, OnItsList(o)', live'[o] = 0
               PROVE  Between(j, o)'
    BY DEF TogetherBut, OnSessions!NoCopy
  <2>1. ~apart /\ OnItsList(o) => live[o] # 0 \/ Between(j, o)
    BY <1>2 DEF SessionsInv, TogetherBut, OnSessions!NoCopy
  <2>2. ~apart /\ Removes(j)
    BY <1>2, <1>3, <1>7 DEF Removes, Moving, Parting, StepsFit
  <2>3. j.rec = rec[j.p] /\ Quiet(j.p)
    BY <1>3, <2>2 DEF AppsKnown
  <2>4. CASE o = j.p
    <3>1. j.rec
      BY <1>2, <1>3 DEF StepsFit
    <3> QED
      BY <1>6, <1>7, <2>3, <2>4, <3>1 DEF OnItsList, Quiet
  <2>5. CASE o # j.p
    <3>1. live[o] = 0 /\ OnItsList(o)
      BY <1>6, <1>7, <2>5 DEF OnItsList
    <3> QED
      BY <1>2, <2>1, <2>2, <2>5, <3>1 DEF Between
  <2> QED
    BY <2>4, <2>5
<1>12. OnSessions!LatestKept'
  BY <1>1, <1>2, <1>3, <1>4, <1>5, <1>6, <1>7
     DEF SessionsInv, OnSessions!LatestKept, FilesKnown, StepsFit, Moving, Parting,
         OnSessions!TypeOK, OnSessions!NoCopy, OnSessions!NoArchive, OnSessions!Versions
<1> QED
  BY <1>9, <1>10, <1>11, <1>12 DEF SessionsInv

LEMMA MoveAwayKeeps ==
  ASSUME NEW e \in One, NEW zips \in BOOLEAN, SessionsInv, OnSessions!MoveAway(e, zips)
  PROVE  SessionsInv'
<1> DEFINE j == cmd[e]
<1>1. OnSessions!TypeOK
  BY DEF SessionsInv
<1>2. j.pc = "away" /\ j \in OnSessions!Cmds /\ \A f \in One : f = e
  BY AtWork DEF OnSessions!MoveAway
<1>3. StepsFit(j) /\ FilesKnown(j) /\ AppsKnown(j)
  BY <1>2, AtWork
<1>4. j.p \in Pair /\ j.q \in Pair /\ j.s \in Shelves
  BY <1>2, <1>3 DEF StepsFit
<1>5. /\ cmd' \in [One -> OnSessions!Cmds]
      /\ \/ j'.pc = "idle" /\ ~j.rec
         \/ j'.pc = "record away" /\ j.rec /\ Takes(j, j')
  <2>1. CASE j.rec
    BY <2>1, <1>1, GotoGoes, EndsGoes
       DEF OnSessions!TypeOK, OnSessions!Pcs, OnSessions!MoveAway
  <2>2. CASE ~j.rec
    BY <2>2, <1>1, GotoGoes, EndsGoes
       DEF OnSessions!TypeOK, OnSessions!Pcs, OnSessions!MoveAway
  <2> QED
    BY <2>1, <2>2
<1>6. /\ live'[j.p] = 0 /\ live[j.p] # 0
      /\ live' \in [Pair -> {0} \cup OnSessions!Versions]
      /\ \A o \in Pair : o # j.p => live'[o] = live[o]
  BY <1>1, <1>4 DEF OnSessions!MoveAway, OnSessions!TypeOK, OnSessions!NoCopy
<1>7. UNCHANGED <<rec, app, mem, term, said, safe, dropped, asked, resumed, apart>>
  BY DEF OnSessions!MoveAway, OnSessions!userVars, OnSessions!files, OnSessions!history
<1>8. /\ arch' \in [Pair -> [Shelves -> OnSessions!Archives]]
      /\ arch'[j.p][j.s].v = live[j.p]
      /\ \A o \in Pair, t \in Shelves : o # j.p \/ t # j.s => arch'[o][t] = arch[o][t]
  <2> DEFINE v == [OnSessions!Archive(j) EXCEPT !.v = live[j.p], !.zip = zips]
  <2>1. OnSessions!Archive(j) \in OnSessions!Archives /\ live[j.p] \in {0} \cup OnSessions!Versions
    BY <1>1, <1>4 DEF OnSessions!Archive, OnSessions!TypeOK, OnSessions!NoCopy
  <2>2. v \in OnSessions!Archives /\ v.v = live[j.p]
    BY <2>1 DEF OnSessions!Archives, OnSessions!NoCopy
  <2>3. OnSessions!Shelve(j.p, j.s, v)
    BY DEF OnSessions!MoveAway
  <2> HIDE DEF v
  <2> QED
    BY <1>1, <1>4, <2>2, <2>3, ShelveGoes DEF OnSessions!TypeOK
<1>9. OnSessions!TypeOK'
  BY <1>1, <1>2, <1>3, <1>4, <1>5, <1>6, <1>7, <1>8 DEF OnSessions!TypeOK, OnSessions!NoCopy
<1>10. CommandsFit'
  <2>1. CASE j'.pc = "idle"
    BY <1>2, <2>1, IdleFits
  <2>2. CASE j'.pc # "idle"
    <3>1. StepsFit(j)'
      BY <2>2, <1>2, <1>3, <1>4, <1>5, <1>6, <1>7, <1>8 DEF StepsFit, Takes, Moving, Parting
    <3>2. FilesKnown(j)'
      BY <1>1, <2>2, <1>2, <1>3, <1>4, <1>5, <1>6, <1>7, <1>8
         DEF FilesKnown, StepsFit, Takes, Moving, Parting, OnSessions!NoCopy
    <3>3. AppsKnown(j)'
      BY <1>1, <2>2, <1>2, <1>3, <1>4, <1>5, <1>6, <1>7, <1>8
         DEF AppsKnown, Removes, Quiet, StepsFit, Takes, Moving, Parting
    <3> QED
      BY <3>1, <3>2, <3>3, <1>2 DEF CommandsFit, CommandFits
  <2> QED
    BY <2>1, <2>2
<1>11. TogetherBut'
  <2> SUFFICES ASSUME ~apart', NEW o \in Pair, OnItsList(o)', live'[o] = 0
               PROVE  Between(j, o)'
    BY DEF TogetherBut, OnSessions!NoCopy
  <2>1. ~apart /\ OnItsList(o) => live[o] # 0 \/ Between(j, o)
    BY <1>2 DEF SessionsInv, TogetherBut, OnSessions!NoCopy
  <2>2. ~apart /\ Removes(j)
    BY <1>2, <1>3, <1>7 DEF Removes, Moving, Parting, StepsFit
  <2>3. j.rec = rec[j.p] /\ Quiet(j.p)
    BY <1>3, <2>2 DEF AppsKnown
  <2>4. CASE o = j.p
    <3>1. j.rec
      BY <1>7, <2>3, <2>4 DEF OnItsList, Quiet
    <3> QED
      BY <1>5, <2>4, <3>1 DEF Between, Takes
  <2>5. CASE o # j.p
    <3>1. live[o] = 0 /\ OnItsList(o)
      BY <1>6, <1>7, <2>5 DEF OnItsList
    <3> QED
      BY <1>2, <2>1, <2>2, <2>5, <3>1 DEF Between
  <2> QED
    BY <2>4, <2>5
<1>12. OnSessions!LatestKept'
  <2> SUFFICES ASSUME ~dropped', ~resumed', ~safe'
               PROVE  \E o \in Pair :
                        live'[o] = said' \/ \E t \in Shelves : arch'[o][t].v = said'
    BY DEF OnSessions!LatestKept
  <2>0. ~dropped /\ ~resumed /\ ~safe
    BY <1>6, <1>7
  <2>1. PICK o \in Pair : live[o] = said \/ \E t \in Shelves : arch[o][t].v = said
    BY <2>0 DEF SessionsInv, OnSessions!LatestKept
  <2>2. CASE live[o] = said
    BY <1>4, <1>6, <1>7, <1>8, <2>2
  <2>3. CASE \E t \in Shelves : arch[o][t].v = said
    <3>1. PICK t \in Shelves : arch[o][t].v = said
      BY <2>3
    <3>2. arch[j.p][j.s].v # said
      <4>1. arch[j.p][j.s] = OnSessions!NoArchive
        BY <1>2, <1>3 DEF FilesKnown, StepsFit, Parting
      <4>2. said # 0
        BY <1>1 DEF OnSessions!TypeOK, OnSessions!Versions
      <4> QED
        BY <4>1, <4>2 DEF OnSessions!NoArchive, OnSessions!NoCopy
    <3> QED
      BY <3>1, <3>2, <1>6, <1>7, <1>8
  <2>4. QED
    BY <2>1, <2>2, <2>3
<1> QED
  BY <1>9, <1>10, <1>11, <1>12 DEF SessionsInv

LEMMA RecordAwayKeeps ==
  ASSUME NEW e \in One, SessionsInv, OnSessions!RecordAway(e)
  PROVE  SessionsInv'
<1> DEFINE j == cmd[e]
<1>1. OnSessions!TypeOK
  BY DEF SessionsInv
<1>2. j.pc = "record away" /\ j \in OnSessions!Cmds /\ \A f \in One : f = e
  BY AtWork DEF OnSessions!RecordAway
<1>3. StepsFit(j) /\ FilesKnown(j) /\ AppsKnown(j)
  BY <1>2, AtWork
<1>4. j.p \in Pair /\ j.q \in Pair /\ j.s \in Shelves
  BY <1>2, <1>3 DEF StepsFit
<1>5. cmd' \in [One -> OnSessions!Cmds] /\ j'.pc = "idle"
  BY <1>1, EndsGoes DEF OnSessions!RecordAway, OnSessions!TypeOK
<1>6. /\ rec'[j.p] = FALSE /\ rec' \in [Pair -> BOOLEAN]
      /\ \A o \in Pair : o # j.p => rec'[o] = rec[o]
  BY <1>1, <1>4 DEF OnSessions!RecordAway, OnSessions!TypeOK
<1>7. UNCHANGED <<live, app, mem, term, said, safe, dropped, asked, resumed, apart>>
  BY DEF OnSessions!RecordAway, OnSessions!userVars, OnSessions!files, OnSessions!history
<1>8. /\ arch' \in [Pair -> [Shelves -> OnSessions!Archives]]
      /\ \A o \in Pair, t \in Shelves : arch'[o][t].v = arch[o][t].v
  <2> DEFINE v == [OnSessions!Archive(j) EXCEPT !.rec = TRUE]
  <2>1. OnSessions!Archive(j) \in OnSessions!Archives
    BY <1>1, <1>4 DEF OnSessions!Archive, OnSessions!TypeOK
  <2>2. v \in OnSessions!Archives /\ v.v = arch[j.p][j.s].v
    BY <2>1 DEF OnSessions!Archives, OnSessions!Archive
  <2>3. OnSessions!Shelve(j.p, j.s, v)
    BY DEF OnSessions!RecordAway
  <2> HIDE DEF v
  <2>4. /\ arch' \in [Pair -> [Shelves -> OnSessions!Archives]] /\ arch'[j.p][j.s] = v
        /\ \A o \in Pair, t \in Shelves : o # j.p \/ t # j.s => arch'[o][t] = arch[o][t]
    BY <1>1, <1>4, <2>2, <2>3, ShelveGoes DEF OnSessions!TypeOK
  <2>5. ASSUME NEW o \in Pair, NEW t \in Shelves PROVE arch'[o][t].v = arch[o][t].v
    <3>1. CASE o = j.p /\ t = j.s
      BY <2>2, <2>4, <3>1
    <3>2. CASE o # j.p \/ t # j.s
      BY <2>4, <3>2
    <3> QED
      BY <3>1, <3>2
  <2> QED
    BY <2>4, <2>5
<1>9. OnSessions!TypeOK'
  BY <1>1, <1>2, <1>3, <1>4, <1>5, <1>6, <1>7, <1>8 DEF OnSessions!TypeOK, OnSessions!NoCopy
<1>10. CommandsFit'
  BY <1>2, <1>5, IdleFits
<1>11. TogetherBut'
  <2> SUFFICES ASSUME ~apart', NEW o \in Pair, OnItsList(o)', live'[o] = 0
               PROVE  Between(j, o)'
    BY DEF TogetherBut, OnSessions!NoCopy
  <2>1. ~apart /\ OnItsList(o) => live[o] # 0 \/ Between(j, o)
    BY <1>2 DEF SessionsInv, TogetherBut, OnSessions!NoCopy
  <2>2. ~apart /\ Removes(j)
    BY <1>2, <1>3, <1>7 DEF Removes, Moving, Parting, StepsFit
  <2>3. j.rec = rec[j.p] /\ Quiet(j.p)
    BY <1>3, <2>2 DEF AppsKnown
  <2>4. CASE o = j.p
    <3>1. j.rec
      BY <1>2, <1>3 DEF StepsFit
    <3> QED
      BY <1>6, <1>7, <2>3, <2>4, <3>1 DEF OnItsList, Quiet
  <2>5. CASE o # j.p
    <3>1. live[o] = 0 /\ OnItsList(o)
      BY <1>6, <1>7, <2>5 DEF OnItsList
    <3> QED
      BY <1>2, <2>1, <2>2, <2>5, <3>1 DEF Between
  <2> QED
    BY <2>4, <2>5
<1>12. OnSessions!LatestKept'
  BY <1>7, <1>8 DEF SessionsInv, OnSessions!LatestKept
<1> QED
  BY <1>9, <1>10, <1>11, <1>12 DEF SessionsInv

LEMMA RecordBackKeeps ==
  ASSUME NEW e \in One, SessionsInv, OnSessions!RecordBack(e)
  PROVE  SessionsInv'
<1> DEFINE j == cmd[e]
<1>1. OnSessions!TypeOK
  BY DEF SessionsInv
<1>2. j.pc = "record back" /\ j \in OnSessions!Cmds /\ \A f \in One : f = e
  BY AtWork DEF OnSessions!RecordBack
<1>3. StepsFit(j) /\ FilesKnown(j) /\ AppsKnown(j)
  BY <1>2, AtWork
<1>4. j.p \in Pair /\ j.q \in Pair /\ j.s \in Shelves
  BY <1>2, <1>3 DEF StepsFit
<1>5. cmd' \in [One -> OnSessions!Cmds] /\ j'.pc = "back" /\ Takes(j, j')
  BY <1>1, GotoGoes, EndsGoes DEF OnSessions!TypeOK, OnSessions!Pcs, OnSessions!RecordBack
<1>6. /\ rec' \in [Pair -> BOOLEAN]
      /\ \A o \in Pair : o # j.p => rec'[o] = rec[o]
      /\ ~j.rec => rec' = rec
  BY <1>1, <1>4 DEF OnSessions!RecordBack, OnSessions!TypeOK
<1>7. UNCHANGED <<live, app, mem, term, said, safe, dropped, asked, resumed, apart>>
  BY DEF OnSessions!RecordBack, OnSessions!userVars, OnSessions!files, OnSessions!history
<1>8. /\ arch' \in [Pair -> [Shelves -> OnSessions!Archives]]
      /\ \A o \in Pair, t \in Shelves : arch'[o][t].v = arch[o][t].v
  <2>0. CASE ~j.rec
    BY <1>1, <2>0 DEF OnSessions!RecordBack, OnSessions!TypeOK
  <2> DEFINE v == [OnSessions!Archive(j) EXCEPT !.rec = FALSE]
  <2>1. OnSessions!Archive(j) \in OnSessions!Archives
    BY <1>1, <1>4 DEF OnSessions!Archive, OnSessions!TypeOK
  <2>2. v \in OnSessions!Archives /\ v.v = arch[j.p][j.s].v
    BY <2>1 DEF OnSessions!Archives, OnSessions!Archive
  <2>3. j.rec => OnSessions!Shelve(j.p, j.s, v)
    BY DEF OnSessions!RecordBack
  <2> HIDE DEF v
  <2>4. CASE j.rec
    <3>1. /\ arch' \in [Pair -> [Shelves -> OnSessions!Archives]] /\ arch'[j.p][j.s] = v
          /\ \A o \in Pair, t \in Shelves : o # j.p \/ t # j.s => arch'[o][t] = arch[o][t]
      BY <1>1, <1>4, <2>2, <2>3, <2>4, ShelveGoes DEF OnSessions!TypeOK
    <3>2. ASSUME NEW o \in Pair, NEW t \in Shelves PROVE arch'[o][t].v = arch[o][t].v
      <4>1. CASE o = j.p /\ t = j.s
        BY <2>2, <3>1, <4>1
      <4>2. CASE o # j.p \/ t # j.s
        BY <3>1, <4>2
      <4> QED
        BY <4>1, <4>2
    <3> QED
      BY <3>1, <3>2
  <2> QED
    BY <2>0, <2>4
<1>9. OnSessions!TypeOK'
  BY <1>1, <1>2, <1>3, <1>4, <1>5, <1>6, <1>7, <1>8 DEF OnSessions!TypeOK, OnSessions!NoCopy
<1>10. CommandsFit'
  <2>1. StepsFit(j)'
    BY <1>2, <1>3, <1>4, <1>5, <1>6, <1>7, <1>8 DEF StepsFit, Takes, Moving, Parting
  <2>2. FilesKnown(j)'
    BY <1>1, <1>2, <1>3, <1>4, <1>5, <1>6, <1>7, <1>8
       DEF FilesKnown, StepsFit, Takes, Moving, Parting, OnSessions!NoCopy
  <2>3. AppsKnown(j)'
    BY <1>1, <1>2, <1>3, <1>4, <1>5, <1>6, <1>7, <1>8
       DEF AppsKnown, Removes, Quiet, StepsFit, Takes, Moving, Parting
  <2> QED
    BY <2>1, <2>2, <2>3, <1>2 DEF CommandsFit, CommandFits
<1>11. TogetherBut'
  <2> SUFFICES ASSUME ~apart', NEW o \in Pair, OnItsList(o)', live'[o] = 0
               PROVE  Between(j, o)'
    BY DEF TogetherBut, OnSessions!NoCopy
  <2>1. ~apart /\ OnItsList(o) => live[o] # 0 \/ Between(j, o)
    BY <1>2 DEF SessionsInv, TogetherBut, OnSessions!NoCopy
  <2> QED
    BY <2>1, <1>2, <1>3, <1>4, <1>5, <1>6, <1>7
       DEF Between, Removes, OnItsList, Takes, AppsKnown, Moving, Parting
<1>12. OnSessions!LatestKept'
  BY <1>7, <1>8 DEF SessionsInv, OnSessions!LatestKept
<1> QED
  BY <1>9, <1>10, <1>11, <1>12 DEF SessionsInv

LEMMA BackKeeps ==
  ASSUME NEW e \in One, SessionsInv, OnSessions!Back(e)
  PROVE  SessionsInv'
<1> DEFINE j == cmd[e]
<1>1. OnSessions!TypeOK
  BY DEF SessionsInv
<1>2. j.pc = "back" /\ j \in OnSessions!Cmds /\ \A f \in One : f = e
  BY AtWork DEF OnSessions!Back
<1>3. StepsFit(j) /\ FilesKnown(j) /\ AppsKnown(j)
  BY <1>2, AtWork
<1>4. j.p \in Pair /\ j.q \in Pair /\ j.s \in Shelves
  BY <1>2, <1>3 DEF StepsFit
<1>5. cmd' \in [One -> OnSessions!Cmds] /\ j'.pc = "idle"
  BY <1>1, EndsGoes DEF OnSessions!Back, OnSessions!TypeOK
<1>6. /\ live'[j.p] = arch[j.p][j.s].v /\ live'[j.p] # 0
      /\ live' \in [Pair -> {0} \cup OnSessions!Versions]
      /\ \A o \in Pair : o # j.p => live'[o] = live[o]
  <2>1. arch[j.p][j.s] \in OnSessions!Archives
    BY <1>1, <1>4 DEF OnSessions!TypeOK
  <2>2. arch[j.p][j.s].v \in {0} \cup OnSessions!Versions
    BY <2>1 DEF OnSessions!Archives, OnSessions!NoCopy
  <2> QED
    BY <1>1, <1>4, <2>2
       DEF OnSessions!Back, OnSessions!Archive, OnSessions!TypeOK, OnSessions!NoCopy
<1>7. UNCHANGED <<rec, app, mem, term, said, safe, dropped, asked, resumed, apart>>
  BY DEF OnSessions!Back, OnSessions!userVars, OnSessions!files, OnSessions!history
<1>8. /\ arch' \in [Pair -> [Shelves -> OnSessions!Archives]]
      /\ \A o \in Pair, t \in Shelves : o # j.p \/ t # j.s => arch'[o][t] = arch[o][t]
  <2>1. OnSessions!NoArchive \in OnSessions!Archives /\ OnSessions!NoArchive.v = 0
    BY DEF OnSessions!NoArchive, OnSessions!Archives, OnSessions!NoCopy
  <2>2. OnSessions!Shelve(j.p, j.s, OnSessions!NoArchive)
    BY DEF OnSessions!Back
  <2> QED
    BY <1>1, <1>4, <2>1, <2>2, ShelveGoes DEF OnSessions!TypeOK
<1>9. OnSessions!TypeOK'
  BY <1>1, <1>2, <1>3, <1>4, <1>5, <1>6, <1>7, <1>8 DEF OnSessions!TypeOK, OnSessions!NoCopy
<1>10. CommandsFit'
  BY <1>2, <1>5, IdleFits
<1>11. TogetherBut'
  <2> SUFFICES ASSUME ~apart', NEW o \in Pair, OnItsList(o)', live'[o] = 0
               PROVE  Between(j, o)'
    BY DEF TogetherBut, OnSessions!NoCopy
  <2>1. ~apart /\ OnItsList(o) => live[o] # 0 \/ Between(j, o)
    BY <1>2 DEF SessionsInv, TogetherBut, OnSessions!NoCopy
  <2> QED
    BY <2>1, <1>2, <1>3, <1>4, <1>5, <1>6, <1>7
       DEF Between, Removes, OnItsList, Takes, AppsKnown, Moving, Parting
<1>12. OnSessions!LatestKept'
  <2> SUFFICES ASSUME ~dropped', ~resumed', ~safe'
               PROVE  \E o \in Pair :
                        live'[o] = said' \/ \E t \in Shelves : arch'[o][t].v = said'
    BY DEF OnSessions!LatestKept
  <2>0. ~dropped /\ ~resumed /\ ~safe
    BY <1>6, <1>7
  <2>1. PICK o \in Pair : live[o] = said \/ \E t \in Shelves : arch[o][t].v = said
    BY <2>0 DEF SessionsInv, OnSessions!LatestKept
  <2>2. CASE live[o] = said
    BY <2>2, <1>1, <1>2, <1>3, <1>4, <1>6, <1>7, <1>8
       DEF OnSessions!TypeOK, OnSessions!Versions, OnSessions!NoCopy, OnSessions!NoArchive,
           FilesKnown, StepsFit, Parting
  <2>3. CASE \E t \in Shelves : arch[o][t].v = said
    <3>1. PICK t \in Shelves : arch[o][t].v = said
      BY <2>3
    <3> QED
      BY <3>1, <1>4, <1>6, <1>7, <1>8
  <2>4. QED
    BY <2>1, <2>2, <2>3
<1> QED
  BY <1>9, <1>10, <1>11, <1>12 DEF SessionsInv

LEMMA DeleteArchiveKeeps ==
  ASSUME NEW e \in One, SessionsInv, OnSessions!DeleteArchive(e)
  PROVE  SessionsInv'
<1> DEFINE j == cmd[e]
<1>1. OnSessions!TypeOK
  BY DEF SessionsInv
<1>2. j.pc = "clear" /\ j \in OnSessions!Cmds /\ \A f \in One : f = e
  BY AtWork DEF OnSessions!DeleteArchive
<1>3. StepsFit(j) /\ FilesKnown(j) /\ AppsKnown(j)
  BY <1>2, AtWork
<1>4. j.p \in Pair /\ j.q \in Pair /\ j.s \in Shelves
  BY <1>2, <1>3 DEF StepsFit
<1>5. cmd' \in [One -> OnSessions!Cmds] /\ j'.pc = "idle"
  BY <1>1, EndsGoes DEF OnSessions!DeleteArchive, OnSessions!TypeOK
<1>6. /\ dropped' = (dropped \/ arch[j.p][j.s].v = said)
      /\ dropped' \in BOOLEAN
  BY DEF OnSessions!DeleteArchive, OnSessions!Archive
<1>7. UNCHANGED <<live, rec, app, mem, term, said, safe, asked, resumed, apart>>
  BY DEF OnSessions!DeleteArchive, OnSessions!userVars, OnSessions!files, OnSessions!history
<1>8. /\ arch' \in [Pair -> [Shelves -> OnSessions!Archives]]
      /\ \A o \in Pair, t \in Shelves : o # j.p \/ t # j.s => arch'[o][t] = arch[o][t]
  <2>1. OnSessions!NoArchive \in OnSessions!Archives /\ OnSessions!NoArchive.v = 0
    BY DEF OnSessions!NoArchive, OnSessions!Archives, OnSessions!NoCopy
  <2>2. OnSessions!Shelve(j.p, j.s, OnSessions!NoArchive)
    BY DEF OnSessions!DeleteArchive
  <2> QED
    BY <1>1, <1>4, <2>1, <2>2, ShelveGoes DEF OnSessions!TypeOK
<1>9. OnSessions!TypeOK'
  BY <1>1, <1>2, <1>3, <1>4, <1>5, <1>6, <1>7, <1>8 DEF OnSessions!TypeOK, OnSessions!NoCopy
<1>10. CommandsFit'
  BY <1>2, <1>5, IdleFits
<1>11. TogetherBut'
  <2> SUFFICES ASSUME ~apart', NEW o \in Pair, OnItsList(o)', live'[o] = 0
               PROVE  Between(j, o)'
    BY DEF TogetherBut, OnSessions!NoCopy
  <2>1. ~apart /\ OnItsList(o) => live[o] # 0 \/ Between(j, o)
    BY <1>2 DEF SessionsInv, TogetherBut, OnSessions!NoCopy
  <2> QED
    BY <2>1, <1>2, <1>3, <1>4, <1>5, <1>6, <1>7
       DEF Between, Removes, OnItsList, Takes, AppsKnown, Moving, Parting
<1>12. OnSessions!LatestKept'
  <2> SUFFICES ASSUME ~dropped', ~resumed', ~safe'
               PROVE  \E o \in Pair :
                        live'[o] = said' \/ \E t \in Shelves : arch'[o][t].v = said'
    BY DEF OnSessions!LatestKept
  <2>0. ~dropped /\ ~resumed /\ ~safe
    BY <1>6, <1>7
  <2>1. PICK o \in Pair : live[o] = said \/ \E t \in Shelves : arch[o][t].v = said
    BY <2>0 DEF SessionsInv, OnSessions!LatestKept
  <2>2. CASE live[o] = said
    BY <1>7, <2>2
  <2>3. CASE \E t \in Shelves : arch[o][t].v = said
    <3>1. PICK t \in Shelves : arch[o][t].v = said
      BY <2>3
    <3> QED
      BY <3>1, <1>4, <2>0, <1>6, <1>7, <1>8
  <2>4. QED
    BY <2>1, <2>2, <2>3
<1> QED
  BY <1>9, <1>10, <1>11, <1>12 DEF SessionsInv

LEMMA StopsKeeps ==
  ASSUME NEW e \in One, SessionsInv, OnSessions!Stops(e)
  PROVE  SessionsInv'
<1> DEFINE j == cmd[e]
<1>1. OnSessions!TypeOK
  BY DEF SessionsInv
<1>2. j.pc # "idle" /\ j \in OnSessions!Cmds /\ \A f \in One : f = e
  BY AtWork DEF OnSessions!Stops, OnSessions!PastChecks
<1>3. StepsFit(j) /\ FilesKnown(j) /\ AppsKnown(j)
  BY <1>2, AtWork
<1>5. cmd' \in [One -> OnSessions!Cmds] /\ j'.pc = "idle"
  BY <1>1, EndsGoes DEF OnSessions!Stops, OnSessions!TypeOK
<1>6. UNCHANGED <<live, arch, rec, said, safe, dropped, resumed>>
  BY DEF OnSessions!Stops, OnSessions!userVars, OnSessions!files, OnSessions!history
<1>7. apart' = TRUE /\ UNCHANGED <<app, mem, term, asked>>
  BY DEF OnSessions!Stops, OnSessions!userVars, OnSessions!files, OnSessions!history
<1>9. OnSessions!TypeOK'
  BY <1>1, <1>2, <1>3, <1>5, <1>6, <1>7 DEF OnSessions!TypeOK, OnSessions!NoCopy
<1>10. CommandsFit'
  BY <1>2, <1>5, IdleFits
<1>11. TogetherBut'
  <2> SUFFICES ASSUME ~apart', NEW o \in Pair, OnItsList(o)', live'[o] = 0
               PROVE  Between(j, o)'
    BY DEF TogetherBut, OnSessions!NoCopy
  <2>1. ~apart /\ OnItsList(o) => live[o] # 0 \/ Between(j, o)
    BY <1>2 DEF SessionsInv, TogetherBut, OnSessions!NoCopy
  <2> QED
    BY <1>1, <2>1, <1>2, <1>3, <1>5, <1>6, <1>7
       DEF Between, Removes, OnItsList, Takes, FilesKnown, AppsKnown, StepsFit,
       Moving, Parting, OnSessions!NoCopy, OnSessions!TypeOK
<1>12. OnSessions!LatestKept'
  BY <1>6, <1>7, FilesStay
<1> QED
  BY <1>9, <1>10, <1>11, <1>12 DEF SessionsInv

LEMMA QuitFailsKeeps ==
  ASSUME NEW e \in One, SessionsInv, OnSessions!QuitFails(e)
  PROVE  SessionsInv'
<1> DEFINE j == cmd[e]
<1>1. OnSessions!TypeOK
  BY DEF SessionsInv
<1>2. j.pc = "quit" /\ j \in OnSessions!Cmds /\ \A f \in One : f = e
  BY AtWork DEF OnSessions!QuitFails
<1>3. StepsFit(j) /\ FilesKnown(j) /\ AppsKnown(j)
  BY <1>2, AtWork
<1>5. cmd' \in [One -> OnSessions!Cmds] /\ j'.pc = "idle"
  BY <1>1, EndsGoes DEF OnSessions!QuitFails, OnSessions!TypeOK
<1>6. UNCHANGED <<live, arch, rec, said, safe, dropped, resumed>>
  BY DEF OnSessions!QuitFails, OnSessions!userVars, OnSessions!files, OnSessions!history
<1>7. UNCHANGED <<app, mem, term, asked, apart>>
  BY DEF OnSessions!QuitFails, OnSessions!userVars, OnSessions!files, OnSessions!history
<1>9. OnSessions!TypeOK'
  BY <1>1, <1>2, <1>3, <1>5, <1>6, <1>7 DEF OnSessions!TypeOK, OnSessions!NoCopy
<1>10. CommandsFit'
  BY <1>2, <1>5, IdleFits
<1>11. TogetherBut'
  <2> SUFFICES ASSUME ~apart', NEW o \in Pair, OnItsList(o)', live'[o] = 0
               PROVE  Between(j, o)'
    BY DEF TogetherBut, OnSessions!NoCopy
  <2>1. ~apart /\ OnItsList(o) => live[o] # 0 \/ Between(j, o)
    BY <1>2 DEF SessionsInv, TogetherBut, OnSessions!NoCopy
  <2> QED
    BY <1>1, <2>1, <1>2, <1>3, <1>5, <1>6, <1>7
       DEF Between, Removes, OnItsList, Takes, FilesKnown, AppsKnown, StepsFit,
       Moving, Parting, OnSessions!NoCopy, OnSessions!TypeOK
<1>12. OnSessions!LatestKept'
  BY <1>6, <1>7, FilesStay
<1> QED
  BY <1>9, <1>10, <1>11, <1>12 DEF SessionsInv

LEMMA StartKeeps ==
  ASSUME NEW e \in One, NEW op \in OnSessions!Ops \ {"none"}, NEW p \in Pair, NEW q \in Pair,
         NEW s \in Shelves, NEW after \in {"keep", "archive", "delete"}, NEW add \in BOOLEAN,
         SessionsInv, OnSessions!Start(e, op, p, q, s, after, add)
  PROVE  SessionsInv'
<1> DEFINE j == cmd[e]
<1>1. OnSessions!TypeOK
  BY DEF SessionsInv
<1>2. j.pc = "idle" /\ j \in OnSessions!Cmds /\ \A f \in One : f = e
  BY AtWork DEF OnSessions!Start, OnSessions!Busy
<1>3. op \in {"move", "archive", "restore", "delete"}
  BY DEF OnSessions!Ops
<1>4. /\ op = "move" <=> p # q
      /\ op # "move" => after = "keep" /\ ~add
      /\ op \in {"move", "archive"} => arch[p][s] = OnSessions!NoArchive
  BY <1>3 DEF OnSessions!Start
<1>5. /\ cmd' \in [One -> OnSessions!Cmds] /\ j'.pc = IF op = "delete" THEN "clear" ELSE "prepare"
      /\ j'.op = op /\ j'.p = p /\ j'.q = q /\ j'.s = s /\ j'.after = after /\ j'.add = add
      /\ ~j'.lists /\ ~j'.rec
  <2> DEFINE r == [OnSessions!Resting[e] EXCEPT
                    !.op = op, !.p = p, !.q = q, !.s = s, !.after = after, !.add = add,
                    !.pc = IF op = "delete" THEN "clear" ELSE "prepare"]
  <2>1. r \in OnSessions!Cmds
    BY <1>3 DEF OnSessions!Resting, OnSessions!Cmds, OnSessions!Ops, OnSessions!Pcs
  <2>2. /\ r.pc = IF op = "delete" THEN "clear" ELSE "prepare"
        /\ r.op = op /\ r.p = p /\ r.q = q /\ r.s = s /\ r.after = after /\ r.add = add
        /\ ~r.lists /\ ~r.rec
    BY DEF OnSessions!Resting
  <2>3. cmd' = [cmd EXCEPT ![e] = r]
    BY DEF OnSessions!Start
  <2> HIDE DEF r
  <2> QED
    BY <1>1, <2>1, <2>2, <2>3 DEF OnSessions!TypeOK
<1>6. UNCHANGED <<live, arch, rec, said, safe, dropped, resumed>>
  BY DEF OnSessions!Start, OnSessions!userVars, OnSessions!files, OnSessions!history
<1>7. UNCHANGED <<app, mem, term, apart>> /\ asked' \in 0..MaxAsked
  BY <1>1, BoundsAssumption
     DEF OnSessions!Start, OnSessions!userVars, OnSessions!files, OnSessions!history,
         OnSessions!TypeOK
<1>8. j'.pc \in {"clear", "prepare"} /\ (j'.pc = "clear" <=> op = "delete")
  BY <1>5
<1>9. OnSessions!TypeOK'
  BY <1>1, <1>2, <1>3, <1>4, <1>5, <1>6, <1>7, <1>8 DEF OnSessions!TypeOK, OnSessions!NoCopy
<1>10. CommandsFit'
  <2>1. StepsFit(j)'
    BY <1>2, <1>3, <1>4, <1>5, <1>6, <1>7, <1>8 DEF StepsFit, Takes, Moving, Parting
  <2>2. FilesKnown(j)'
    BY <1>1, <1>2, <1>3, <1>4, <1>5, <1>6, <1>7, <1>8
       DEF FilesKnown, StepsFit, Takes, Moving, Parting, OnSessions!NoCopy
  <2>3. AppsKnown(j)'
    BY <1>1, <1>2, <1>3, <1>4, <1>5, <1>6, <1>7, <1>8
       DEF AppsKnown, Removes, Quiet, StepsFit, Takes, Moving, Parting
  <2> QED
    BY <2>1, <2>2, <2>3, <1>2 DEF CommandsFit, CommandFits
<1>11. TogetherBut'
  <2> SUFFICES ASSUME ~apart', NEW o \in Pair, OnItsList(o)', live'[o] = 0
               PROVE  Between(j, o)'
    BY DEF TogetherBut, OnSessions!NoCopy
  <2>1. ~apart /\ OnItsList(o) => live[o] # 0 \/ Between(j, o)
    BY <1>2 DEF SessionsInv, TogetherBut, OnSessions!NoCopy
  <2> QED
    BY <2>1, <1>2, <1>3, <1>4, <1>5, <1>6, <1>7
       DEF Between, Removes, OnItsList, Takes, AppsKnown, Moving, Parting
<1>12. OnSessions!LatestKept'
  BY <1>6, <1>7, FilesStay
<1> QED
  BY <1>9, <1>10, <1>11, <1>12 DEF SessionsInv

(* What the look found that a command goes by.                             *)
LEMMA GoesOnFits ==
  ASSUME NEW e \in One, SessionsInv, cmd[e].pc \in {"prepare", "again"},
         OnSessions!AppsToQuit(cmd[e]) = {},
         cmd[e].op = "restore" => live[cmd[e].p] = OnSessions!NoCopy,
         OnSessions!GoesOn(e), UNCHANGED <<live, arch, rec, app, mem, term>>
  PROVE  /\ cmd' \in [One -> OnSessions!Cmds] /\ CommandsFit'
         /\ apart' \in BOOLEAN /\ (apart => apart') /\ UNCHANGED <<safe, dropped, resumed>>
<1> DEFINE j == cmd[e]
           r == [j EXCEPT !.pc = OnSessions!First(j),
                          !.lists = OnSessions!Lists(j),
                          !.rec = IF j.op = "restore" THEN OnSessions!Archive(j).rec
                                  ELSE rec[j.p],
                          !.zip = OnSessions!Archive(j).zip]
<1>1. OnSessions!TypeOK
  BY DEF SessionsInv
<1>2. j \in OnSessions!Cmds /\ \A f \in One : f = e
  BY AtWork
<1>3. StepsFit(j) /\ FilesKnown(j)
  BY AtWork
<1>4. /\ j.p \in Pair /\ j.q \in Pair /\ j.s \in Shelves
      /\ j.op \in {"move", "archive", "restore"}
  BY <1>3 DEF StepsFit
<1>5. /\ j.op = "archive" => OnSessions!First(j) = "away"
      /\ j.op = "restore" => OnSessions!First(j) = "record back"
      /\ j.op = "move" =>
           \/ OnSessions!First(j) = "backup"
           \/ OnSessions!First(j) = "copy" /\ live[j.q] \in {OnSessions!NoCopy, live[j.p]}
  BY DEF OnSessions!First
<1>6. OnSessions!First(j) \in OnSessions!Pcs
  BY <1>4, <1>5 DEF OnSessions!Pcs
<1>7. OnSessions!Archive(j).rec \in BOOLEAN /\ OnSessions!Archive(j).zip \in BOOLEAN
  <2>1. arch[j.p][j.s] \in OnSessions!Archives
    BY <1>1, <1>4 DEF OnSessions!TypeOK
  <2> QED
    BY <2>1 DEF OnSessions!Archive, OnSessions!Archives
<1>8. rec[j.p] \in BOOLEAN /\ OnSessions!Lists(j) \in BOOLEAN
  BY <1>1, <1>4 DEF OnSessions!TypeOK, OnSessions!Lists
<1>9. /\ r \in OnSessions!Cmds
      /\ r.pc = OnSessions!First(j) /\ r.lists = OnSessions!Lists(j)
      /\ r.rec = IF j.op = "restore" THEN OnSessions!Archive(j).rec ELSE rec[j.p]
      /\ r.op = j.op /\ r.p = j.p /\ r.q = j.q /\ r.s = j.s /\ r.after = j.after
      /\ r.add = j.add
  BY <1>2, <1>6, <1>7, <1>8 DEF OnSessions!Cmds
<1>10. cmd' = [cmd EXCEPT ![e] = r]
  BY DEF OnSessions!GoesOn
<1> HIDE DEF r
<1>11. cmd' \in [One -> OnSessions!Cmds] /\ j' = r
  BY <1>1, <1>9, <1>10 DEF OnSessions!TypeOK
<1>12. OnSessions!TakesAway(j) /\ rec[j.p] => app[j.p] = "closed"
  <2>1. CASE j.op = "move"
    <3>1. OnSessions!MoveQuits(j) = {}
      BY <2>1 DEF OnSessions!AppsToQuit
    <3> QED
      BY <2>1, <3>1 DEF OnSessions!MoveQuits, OnSessions!Running, OnSessions!TakesAway
  <2>2. CASE j.op = "archive"
    <3>1. OnSessions!ArchiveQuits(j) = {}
      BY <2>2 DEF OnSessions!AppsToQuit
    <3> QED
      BY <3>1 DEF OnSessions!ArchiveQuits, OnSessions!Running
  <2>3. CASE j.op = "restore"
    BY <1>3, <2>3 DEF OnSessions!TakesAway, StepsFit
  <2> QED
    BY <1>4, <2>1, <2>2, <2>3
<1>13. apart' = (apart \/ ( /\ OnSessions!TakesAway(j) /\ OnSessions!Running(j.p)
                           /\ mem[j.p] /\ ~rec[j.p]))
  BY DEF OnSessions!GoesOn
<1>14. /\ apart' \in BOOLEAN /\ (apart => apart')
       /\ ~apart' /\ OnSessions!TakesAway(j) /\ app[j.p] # "closed" => ~rec[j.p] /\ ~mem[j.p]
  BY <1>12, <1>13 DEF OnSessions!Running
<1>15. StepsFit(r)
  BY <1>3, <1>4, <1>5, <1>9 DEF StepsFit, Moving, Parting
<1>16. FilesKnown(r)
  BY <1>3, <1>4, <1>5, <1>9 DEF FilesKnown, StepsFit
<1>17. UNCHANGED <<safe, dropped, resumed>>
  BY DEF OnSessions!GoesOn
<1>18. FilesKnown(j)' /\ StepsFit(j)'
  BY ZenonT(60), <1>11, <1>15, <1>16, <1>17 DEF FilesKnown, StepsFit, Moving, Parting
<1>19. AppsKnown(j)'
  <2>1. Removes(j)' => OnSessions!TakesAway(j) /\ r.op # "restore"
    BY <1>4, <1>5, <1>9, <1>11 DEF Removes, Moving, Parting, OnSessions!TakesAway
  <2>2. ASSUME ~apart', Removes(j)'
        PROVE  /\ r.rec = rec'[r.p]
               /\ app'[r.p] # "closed" => ~rec'[r.p] /\ ~mem'[r.p]
    <3>1. r.rec = rec[j.p] /\ OnSessions!TakesAway(j)
      BY <1>9, <2>1, <2>2
    <3>2. app[j.p] # "closed" => ~rec[j.p] /\ ~mem[j.p]
      BY <1>14, <2>2, <3>1
    <3> QED
      BY <1>9, <3>1, <3>2
  <2> QED
    BY <1>11, <2>2 DEF AppsKnown, Quiet
<1> QED
  BY <1>2, <1>11, <1>14, <1>17, <1>18, <1>19 DEF CommandsFit, CommandFits

LEMMA PrepareKeeps ==
  ASSUME NEW e \in One, NEW confirmed \in BOOLEAN, SessionsInv, OnSessions!Prepare(e, confirmed)
  PROVE  SessionsInv'
<1> DEFINE j == cmd[e]
<1>1. OnSessions!TypeOK
  BY DEF SessionsInv
<1>2. j.pc = "prepare" /\ j \in OnSessions!Cmds /\ \A f \in One : f = e
  BY AtWork DEF OnSessions!Prepare
<1>3. StepsFit(j) /\ FilesKnown(j) /\ AppsKnown(j)
  BY <1>2, AtWork
<1>4. UNCHANGED <<live, arch, rec, said>>
  BY DEF OnSessions!Prepare, OnSessions!userVars, OnSessions!files, OnSessions!history
<1>5. UNCHANGED <<app, mem, term, asked>>
  BY DEF OnSessions!Prepare, OnSessions!userVars, OnSessions!files, OnSessions!history
<1>6. /\ cmd' \in [One -> OnSessions!Cmds] /\ CommandsFit'
      /\ apart' \in BOOLEAN /\ (apart => apart') /\ UNCHANGED <<safe, dropped, resumed>>
  <2>1. \/ OnSessions!Ends(e) /\ UNCHANGED OnSessions!history
        \/ /\ ~OnSessions!Blocked(j) /\ OnSessions!Goto(e, "quit")
           /\ UNCHANGED OnSessions!history
        \/ ~OnSessions!Blocked(j) /\ OnSessions!AppsToQuit(j) = {} /\ OnSessions!GoesOn(e)
    BY DEF OnSessions!Prepare
  <2>2. ~OnSessions!Blocked(j) /\ j.op = "restore" => live[j.p] = OnSessions!NoCopy
    BY DEF OnSessions!Blocked, OnSessions!InTheWay
  <2>3. CASE OnSessions!Ends(e) /\ UNCHANGED OnSessions!history
    BY <2>3, <1>1, <1>2, EndsGoes, IdleFits DEF OnSessions!TypeOK, OnSessions!history
  <2>4. CASE /\ ~OnSessions!Blocked(j) /\ OnSessions!Goto(e, "quit")
             /\ UNCHANGED OnSessions!history
    <3>1. UNCHANGED <<safe, dropped, resumed, apart>>
      BY <2>4 DEF OnSessions!history
    <3>2. cmd' \in [One -> OnSessions!Cmds] /\ j'.pc = "quit" /\ Takes(j, j')
      BY <2>4, <1>1, GotoGoes DEF OnSessions!TypeOK, OnSessions!Pcs
    <3>3. StepsFit(j)'
      BY <1>2, <1>3, <3>2 DEF StepsFit, Takes, Moving, Parting
    <3>4. FilesKnown(j)'
      BY <1>2, <1>3, <1>4, <2>2, <2>4, <3>2 DEF FilesKnown, Takes
    <3>5. AppsKnown(j)'
      BY <3>2 DEF AppsKnown, Removes, Quiet, Moving, Parting
    <3> QED
      BY <1>1, <1>2, <3>1, <3>2, <3>3, <3>4, <3>5
         DEF CommandsFit, CommandFits, OnSessions!TypeOK
  <2>5. CASE ~OnSessions!Blocked(j) /\ OnSessions!AppsToQuit(j) = {} /\ OnSessions!GoesOn(e)
    BY <1>2, <1>4, <1>5, <2>2, <2>5, GoesOnFits
  <2> QED
    BY <2>1, <2>3, <2>4, <2>5
<1>9. OnSessions!TypeOK'
  BY <1>1, <1>4, <1>5, <1>6 DEF OnSessions!TypeOK
<1>10. CommandsFit'
  BY <1>6
<1>11. TogetherBut'
  <2> SUFFICES ASSUME ~apart', NEW o \in Pair, OnItsList(o)', live'[o] = 0
               PROVE  Between(j, o)'
    BY DEF TogetherBut, OnSessions!NoCopy
  <2>1. ~apart /\ OnItsList(o) => live[o] # 0 \/ Between(j, o)
    BY <1>2 DEF SessionsInv, TogetherBut, OnSessions!NoCopy
  <2> QED
    BY <2>1, <1>2, <1>4, <1>5, <1>6 DEF Between, OnItsList
<1>12. OnSessions!LatestKept'
  BY <1>4, <1>6, FilesStay
<1> QED
  BY <1>9, <1>10, <1>11, <1>12 DEF SessionsInv

LEMMA PrepareAgainKeeps ==
  ASSUME NEW e \in One, NEW confirmed \in BOOLEAN, SessionsInv, OnSessions!PrepareAgain(e, confirmed)
  PROVE  SessionsInv'
<1> DEFINE j == cmd[e]
<1>1. OnSessions!TypeOK
  BY DEF SessionsInv
<1>2. j.pc = "again" /\ j \in OnSessions!Cmds /\ \A f \in One : f = e
  BY AtWork DEF OnSessions!PrepareAgain
<1>3. StepsFit(j) /\ FilesKnown(j) /\ AppsKnown(j)
  BY <1>2, AtWork
<1>4. UNCHANGED <<live, arch, rec, said>>
  BY DEF OnSessions!PrepareAgain, OnSessions!userVars, OnSessions!files, OnSessions!history
<1>5. UNCHANGED <<app, mem, term, asked>>
  BY DEF OnSessions!PrepareAgain, OnSessions!userVars, OnSessions!files, OnSessions!history
<1>6. /\ cmd' \in [One -> OnSessions!Cmds] /\ CommandsFit'
      /\ apart' \in BOOLEAN /\ (apart => apart') /\ UNCHANGED <<safe, dropped, resumed>>
  <2>1. \/ OnSessions!Ends(e) /\ UNCHANGED OnSessions!history
        \/ OnSessions!AppsToQuit(j) = {} /\ OnSessions!GoesOn(e)
    BY DEF OnSessions!PrepareAgain
  <2>2. CASE OnSessions!Ends(e) /\ UNCHANGED OnSessions!history
    BY <2>2, <1>1, <1>2, EndsGoes, IdleFits DEF OnSessions!TypeOK, OnSessions!history
  <2>3. CASE OnSessions!AppsToQuit(j) = {} /\ OnSessions!GoesOn(e)
    <3>1. j.op = "restore" => live[j.p] = OnSessions!NoCopy
      BY <1>2, <1>3 DEF FilesKnown
    <3> QED
      BY <1>2, <1>4, <1>5, <2>3, <3>1, GoesOnFits
  <2> QED
    BY <2>1, <2>2, <2>3
<1>9. OnSessions!TypeOK'
  BY <1>1, <1>4, <1>5, <1>6 DEF OnSessions!TypeOK
<1>10. CommandsFit'
  BY <1>6
<1>11. TogetherBut'
  <2> SUFFICES ASSUME ~apart', NEW o \in Pair, OnItsList(o)', live'[o] = 0
               PROVE  Between(j, o)'
    BY DEF TogetherBut, OnSessions!NoCopy
  <2>1. ~apart /\ OnItsList(o) => live[o] # 0 \/ Between(j, o)
    BY <1>2 DEF SessionsInv, TogetherBut, OnSessions!NoCopy
  <2> QED
    BY <2>1, <1>2, <1>4, <1>5, <1>6 DEF Between, OnItsList
<1>12. OnSessions!LatestKept'
  BY <1>4, <1>6, FilesStay
<1> QED
  BY <1>9, <1>10, <1>11, <1>12 DEF SessionsInv

LEMMA QuitKeeps ==
  ASSUME NEW e \in One, SessionsInv, OnSessions!Quit(e)
  PROVE  SessionsInv'
<1> DEFINE j == cmd[e]
<1>1. OnSessions!TypeOK
  BY DEF SessionsInv
<1>2. j.pc = "quit" /\ j \in OnSessions!Cmds /\ \A f \in One : f = e
  BY AtWork DEF OnSessions!Quit
<1>3. StepsFit(j) /\ FilesKnown(j) /\ AppsKnown(j)
  BY <1>2, AtWork
<1>4. j.p \in Pair /\ j.q \in Pair /\ j.s \in Shelves
  BY <1>2, <1>3 DEF StepsFit
<1>5. \A o \in OnSessions!AppsToQuit(j) : o \in Pair /\ app[o] # "closed"
  BY <1>4 DEF OnSessions!AppsToQuit, OnSessions!MoveQuits, OnSessions!ArchiveQuits,
              OnSessions!RestoreQuits, OnSessions!Running
<1>6. UNCHANGED <<live, arch, said, safe, dropped, term, asked, resumed, apart>>
  BY DEF OnSessions!Quit, OnSessions!userVars, OnSessions!files, OnSessions!history
<1>7. /\ app' \in [Pair -> {"closed", "running", "holding"}]
      /\ mem' \in [Pair -> BOOLEAN] /\ rec' \in [Pair -> BOOLEAN]
      /\ \A o \in Pair : OnItsList(o)' => OnItsList(o)
  <2>1. CASE UNCHANGED <<app, mem, rec>>
    BY <2>1, <1>1 DEF OnItsList, OnSessions!TypeOK
  <2>2. CASE \E n \in OnSessions!AppsToQuit(j) :
               /\ app' = [app EXCEPT ![n] = "closed"]
               /\ rec' = [rec EXCEPT ![n] = mem[n]]
               /\ mem' = [mem EXCEPT ![n] = FALSE]
    <3>1. PICK n \in OnSessions!AppsToQuit(j) :
            /\ app' = [app EXCEPT ![n] = "closed"]
            /\ rec' = [rec EXCEPT ![n] = mem[n]]
            /\ mem' = [mem EXCEPT ![n] = FALSE]
      BY <2>2
    <3>2. n \in Pair /\ app[n] # "closed"
      BY <1>5
    <3> QED
      BY <1>1, <3>1, <3>2 DEF OnItsList, OnSessions!TypeOK
  <2> QED
    BY <2>1, <2>2 DEF OnSessions!Quit
<1>8. cmd' \in [One -> OnSessions!Cmds] /\ j'.pc \in {"quit", "again"} /\ Takes(j, j')
  <2>1. CASE OnSessions!Goto(e, "again")
    BY <2>1, <1>1, GotoGoes, EndsGoes DEF OnSessions!TypeOK, OnSessions!Pcs
  <2>2. CASE cmd' = cmd
    BY <1>1, <1>2, <2>2 DEF OnSessions!TypeOK, Takes
  <2> QED
    BY <2>1, <2>2 DEF OnSessions!Quit
<1>9. OnSessions!TypeOK'
  BY <1>1, <1>6, <1>7, <1>8 DEF OnSessions!TypeOK
<1>10. CommandsFit'
  <2>1. StepsFit(j)'
    BY <1>2, <1>3, <1>8 DEF StepsFit, Takes, Moving, Parting
  <2>2. FilesKnown(j)'
    BY <1>2, <1>3, <1>6, <1>8 DEF FilesKnown, Takes
  <2>3. AppsKnown(j)'
    BY <1>8 DEF AppsKnown, Removes, Quiet, Moving, Parting
  <2> QED
    BY <1>2, <1>8, <2>1, <2>2, <2>3 DEF CommandsFit, CommandFits
<1>11. TogetherBut'
  <2> SUFFICES ASSUME ~apart', NEW o \in Pair, OnItsList(o)', live'[o] = 0
               PROVE  Between(j, o)'
    BY DEF TogetherBut, OnSessions!NoCopy
  <2>1. ~apart /\ OnItsList(o) => live[o] # 0 \/ Between(j, o)
    BY <1>2 DEF SessionsInv, TogetherBut, OnSessions!NoCopy
  <2> QED
    BY <2>1, <1>2, <1>6, <1>7 DEF Between, OnItsList
<1>12. OnSessions!LatestKept'
  BY <1>6, <1>7, FilesStay
<1> QED
  BY <1>9, <1>10, <1>11, <1>12 DEF SessionsInv

LEMMA CompressKeeps ==
  ASSUME NEW p \in Pair, NEW s \in Shelves, SessionsInv, OnSessions!Compress(p, s)
  PROVE  SessionsInv'
<1>1. OnSessions!TypeOK
  BY DEF SessionsInv
<1>2. UNCHANGED <<cmd, live, rec, app, mem, term, said, safe, dropped, asked, resumed, apart>>
  BY DEF OnSessions!Compress, OnSessions!userVars, OnSessions!files, OnSessions!history
<1>3. /\ arch' \in [Pair -> [Shelves -> OnSessions!Archives]]
      /\ \A o \in Pair, t \in Shelves : arch'[o][t].v = arch[o][t].v
      /\ \A o \in Pair, t \in Shelves :
           arch[o][t] = OnSessions!NoArchive => arch'[o][t] = OnSessions!NoArchive
  <2> DEFINE v == [arch[p][s] EXCEPT !.zip = TRUE]
  <2>1. arch[p][s] \in OnSessions!Archives
    BY <1>1 DEF OnSessions!TypeOK
  <2>2. v \in OnSessions!Archives /\ v.v = arch[p][s].v
    BY <2>1 DEF OnSessions!Archives
  <2>3. OnSessions!Shelve(p, s, v)
    BY DEF OnSessions!Compress
  <2>4. arch[p][s] # OnSessions!NoArchive
    BY DEF OnSessions!Compress, OnSessions!NoArchive
  <2> HIDE DEF v
  <2>5. /\ arch' \in [Pair -> [Shelves -> OnSessions!Archives]] /\ arch'[p][s] = v
        /\ \A o \in Pair, t \in Shelves : o # p \/ t # s => arch'[o][t] = arch[o][t]
    BY <1>1, <2>2, <2>3, ShelveGoes DEF OnSessions!TypeOK
  <2>6. ASSUME NEW o \in Pair, NEW t \in Shelves
        PROVE  /\ arch'[o][t].v = arch[o][t].v
               /\ arch[o][t] = OnSessions!NoArchive => arch'[o][t] = OnSessions!NoArchive
    <3>1. CASE o = p /\ t = s
      BY <2>2, <2>4, <2>5, <3>1
    <3>2. CASE o # p \/ t # s
      BY <2>5, <3>2
    <3> QED
      BY <3>1, <3>2
  <2> QED
    BY <2>5, <2>6
<1>9. OnSessions!TypeOK'
  BY <1>1, <1>2, <1>3 DEF OnSessions!TypeOK, OnSessions!NoCopy
<1>10. CommandsFit'
  <2> SUFFICES ASSUME NEW e \in One, cmd[e].pc # "idle"
               PROVE  StepsFit(cmd[e])' /\ FilesKnown(cmd[e])' /\ AppsKnown(cmd[e])'
    BY <1>2 DEF CommandsFit, CommandFits
  <2>1. StepsFit(cmd[e]) /\ FilesKnown(cmd[e]) /\ AppsKnown(cmd[e])
    BY AtWork
  <2>2. cmd[e].p \in Pair /\ cmd[e].q \in Pair /\ cmd[e].s \in Shelves
    BY <2>1 DEF StepsFit
  <2>3. StepsFit(cmd[e])'
    BY <1>2, <2>1 DEF StepsFit, Moving, Parting
  <2>4. FilesKnown(cmd[e])'
    BY <1>2, <1>3, <2>1, <2>2 DEF FilesKnown
  <2>5. AppsKnown(cmd[e])'
    BY <1>2, <2>1 DEF AppsKnown, Removes, Quiet, Moving, Parting
  <2> QED
    BY <2>3, <2>4, <2>5
<1>11. TogetherBut'
  BY <1>2 DEF SessionsInv, TogetherBut, Between, OnItsList
<1>12. OnSessions!LatestKept'
  BY <1>2, <1>3 DEF SessionsInv, OnSessions!LatestKept
<1> QED
  BY <1>9, <1>10, <1>11, <1>12 DEF SessionsInv

(* An app may take up, drop and write what no command takes away.          *)
LEMMA AppsChange ==
  ASSUME SessionsInv,
         UNCHANGED <<cmd, live, arch, said, asked, safe, dropped, resumed>>,
         apart' \in BOOLEAN, apart => apart',
         app' \in [Pair -> {"closed", "running", "holding"}],
         mem' \in [Pair -> BOOLEAN], rec' \in [Pair -> BOOLEAN], term' \in [Pair -> BOOLEAN],
         \A o \in Pair : OnItsList(o)' => OnItsList(o) \/ live[o] # OnSessions!NoCopy,
         \A o \in Pair :
           Quiet(o) /\ OnSessions!TakenFrom(o) => apart' \/ (rec'[o] = rec[o] /\ Quiet(o)')
  PROVE  SessionsInv'
<1>1. OnSessions!TypeOK'
  BY DEF SessionsInv, OnSessions!TypeOK
<1>2. CommandsFit'
  <2> SUFFICES ASSUME NEW e \in One, cmd[e].pc # "idle"
               PROVE  StepsFit(cmd[e])' /\ FilesKnown(cmd[e])' /\ AppsKnown(cmd[e])'
    BY DEF CommandsFit, CommandFits
  <2>1. StepsFit(cmd[e]) /\ FilesKnown(cmd[e]) /\ AppsKnown(cmd[e])
    BY AtWork
  <2>2. cmd[e].p \in Pair
    BY <2>1 DEF StepsFit
  <2>3. StepsFit(cmd[e])'
    BY <2>1 DEF StepsFit, Moving, Parting
  <2>4. FilesKnown(cmd[e])'
    BY <2>1 DEF FilesKnown
  <2>5. Removes(cmd[e]) => OnSessions!TakenFrom(cmd[e].p)
    BY <2>1
       DEF Removes, Moving, Parting, StepsFit, OnSessions!PastChecks, OnSessions!TakesAway,
           OnSessions!TakenFrom
  <2>6. Removes(cmd[e])' = Removes(cmd[e])
    BY DEF Removes, Moving, Parting
  <2>7. ASSUME ~apart', Removes(cmd[e])
        PROVE  cmd[e].rec = rec'[cmd[e].p] /\ Quiet(cmd[e].p)'
    <3>1. cmd[e].rec = rec[cmd[e].p] /\ Quiet(cmd[e].p)
      BY <2>1, <2>7 DEF AppsKnown
    <3> QED
      BY <2>2, <2>5, <2>7, <3>1
  <2>8. AppsKnown(cmd[e])'
    BY <2>6, <2>7 DEF AppsKnown
  <2> QED
    BY <2>3, <2>4, <2>8
<1>3. TogetherBut'
  BY DEF SessionsInv, TogetherBut, Between
<1>4. OnSessions!LatestKept'
  BY FilesStay
<1> QED
  BY <1>1, <1>2, <1>3, <1>4 DEF SessionsInv

LEMMA OpenAppKeeps ==
  ASSUME NEW p \in Pair, SessionsInv, OnSessions!OpenApp(p)
  PROVE  SessionsInv'
<1>1. OnSessions!TypeOK
  BY DEF SessionsInv
<1>2. UNCHANGED <<cmd, live, arch, rec, term, said, asked, safe, dropped, resumed>>
  BY DEF OnSessions!OpenApp, OnSessions!files
<1>3. /\ app' \in [Pair -> {"closed", "running", "holding"}] /\ mem' \in [Pair -> BOOLEAN]
      /\ mem'[p] = rec[p] /\ \A o \in Pair : o # p => mem'[o] = mem[o] /\ app'[o] = app[o]
  BY <1>1 DEF OnSessions!OpenApp, OnSessions!TypeOK
<1>4. apart' = (apart \/ (rec[p] /\ OnSessions!TakenFrom(p)))
  BY DEF OnSessions!OpenApp
<1>5. apart' \in BOOLEAN /\ (apart => apart') /\ (rec[p] /\ OnSessions!TakenFrom(p) => apart')
  BY <1>4
<1>6. \A o \in Pair : OnItsList(o)' => OnItsList(o)
  BY <1>2, <1>3 DEF OnItsList
<1>7. \A o \in Pair :
        Quiet(o) /\ OnSessions!TakenFrom(o) => apart' \/ (rec'[o] = rec[o] /\ Quiet(o)')
  BY <1>2, <1>3, <1>5 DEF Quiet
<1>8. rec \in [Pair -> BOOLEAN] /\ term \in [Pair -> BOOLEAN]
  BY <1>1 DEF OnSessions!TypeOK
<1> QED
  BY <1>2, <1>3, <1>5, <1>6, <1>7, <1>8, AppsChange

LEMMA ListSessionKeeps ==
  ASSUME NEW p \in Pair, SessionsInv, OnSessions!ListSession(p)
  PROVE  SessionsInv'
<1>1. OnSessions!TypeOK
  BY DEF SessionsInv
<1>2. UNCHANGED <<cmd, live, arch, rec, app, term, said, asked, safe, dropped, resumed>>
  BY DEF OnSessions!ListSession, OnSessions!files
<1>3. /\ mem' \in [Pair -> BOOLEAN] /\ live[p] # OnSessions!NoCopy
      /\ \A o \in Pair : o # p => mem'[o] = mem[o]
  BY <1>1 DEF OnSessions!ListSession, OnSessions!TypeOK
<1>4. apart' = (apart \/ OnSessions!TakenFrom(p))
  BY DEF OnSessions!ListSession
<1>5. apart' \in BOOLEAN /\ (apart => apart') /\ (OnSessions!TakenFrom(p) => apart')
  BY <1>4
<1>6. \A o \in Pair : OnItsList(o)' => OnItsList(o) \/ live[o] # OnSessions!NoCopy
  BY <1>2, <1>3 DEF OnItsList
<1>7. \A o \in Pair :
        Quiet(o) /\ OnSessions!TakenFrom(o) => apart' \/ (rec'[o] = rec[o] /\ Quiet(o)')
  BY <1>2, <1>3, <1>5 DEF Quiet
<1>8. /\ rec \in [Pair -> BOOLEAN] /\ term \in [Pair -> BOOLEAN]
      /\ app \in [Pair -> {"closed", "running", "holding"}]
  BY <1>1 DEF OnSessions!TypeOK
<1> QED
  BY <1>2, <1>3, <1>5, <1>6, <1>7, <1>8, AppsChange

LEMMA UsesKeep ==
  ASSUME NEW p \in Pair, SessionsInv,
         \/ OnSessions!DropSession(p)
         \/ OnSessions!HoldSession(p)
         \/ OnSessions!LeaveSession(p)
         \/ OnSessions!Terminal(p)
  PROVE  SessionsInv'
<1>1. OnSessions!TypeOK
  BY DEF SessionsInv
<1>2. /\ UNCHANGED <<cmd, live, arch, rec, said, asked, safe, dropped, resumed, apart>>
  BY DEF OnSessions!DropSession, OnSessions!HoldSession, OnSessions!LeaveSession,
         OnSessions!Terminal, OnSessions!files, OnSessions!history
<1>3. /\ app' \in [Pair -> {"closed", "running", "holding"}]
      /\ mem' \in [Pair -> BOOLEAN] /\ term' \in [Pair -> BOOLEAN]
      /\ \A o \in Pair : mem'[o] => mem[o]
      /\ \A o \in Pair : app'[o] = "closed" <=> app[o] = "closed"
  BY <1>1
     DEF OnSessions!DropSession, OnSessions!HoldSession, OnSessions!LeaveSession,
         OnSessions!Terminal, OnSessions!TypeOK
<1>4. \A o \in Pair : (OnItsList(o)' => OnItsList(o)) /\ (Quiet(o) => Quiet(o)')
  BY <1>2, <1>3 DEF OnItsList, Quiet
<1>5. rec \in [Pair -> BOOLEAN] /\ apart \in BOOLEAN
  BY <1>1 DEF OnSessions!TypeOK
<1> QED
  BY <1>2, <1>3, <1>4, <1>5, AppsChange

LEMMA WriteRecordsKeeps ==
  ASSUME NEW p \in Pair, NEW quits \in BOOLEAN, SessionsInv, OnSessions!WriteRecords(p, quits)
  PROVE  SessionsInv'
<1>1. OnSessions!TypeOK
  BY DEF SessionsInv
<1>2. UNCHANGED <<cmd, live, arch, term, said, asked, safe, dropped, resumed, apart>>
  BY DEF OnSessions!WriteRecords, OnSessions!history
<1>3. /\ app[p] # "closed" /\ rec' \in [Pair -> BOOLEAN] /\ rec'[p] = mem[p]
      /\ \A o \in Pair : o # p => rec'[o] = rec[o]
  BY <1>1 DEF OnSessions!WriteRecords, OnSessions!Running, OnSessions!TypeOK
<1>4. /\ app' \in [Pair -> {"closed", "running", "holding"}] /\ mem' \in [Pair -> BOOLEAN]
      /\ \A o \in Pair : app'[o] = "closed" \/ (app'[o] = app[o] /\ mem'[o] = mem[o])
      /\ \A o \in Pair : o # p => app'[o] = app[o] /\ mem'[o] = mem[o]
  <2>1. CASE quits
    BY <1>1, <2>1 DEF OnSessions!WriteRecords, OnSessions!TypeOK
  <2>2. CASE ~quits
    BY <1>1, <2>2 DEF OnSessions!WriteRecords, OnSessions!TypeOK
  <2> QED
    BY <2>1, <2>2
<1>5. \A o \in Pair : OnItsList(o)' => OnItsList(o)
  BY <1>3, <1>4 DEF OnItsList
<1>6. \A o \in Pair : Quiet(o) => rec'[o] = rec[o] /\ Quiet(o)'
  <2> SUFFICES ASSUME NEW o \in Pair, Quiet(o) PROVE rec'[o] = rec[o] /\ Quiet(o)'
    OBVIOUS
  <2>1. CASE o = p
    <3>1. ~rec[p] /\ ~mem[p] /\ ~rec'[p]
      BY <1>3, <2>1 DEF Quiet
    <3> QED
      BY <1>1, <1>3, <1>4, <2>1, <3>1 DEF Quiet, OnSessions!TypeOK
  <2>2. CASE o # p
    BY <1>3, <1>4, <2>2 DEF Quiet
  <2> QED
    BY <2>1, <2>2
<1>7. term \in [Pair -> BOOLEAN] /\ apart \in BOOLEAN
  BY <1>1 DEF OnSessions!TypeOK
<1> QED
  BY <1>2, <1>3, <1>4, <1>5, <1>6, <1>7, AppsChange

LEMMA SayKeeps ==
  ASSUME NEW p \in Pair, SessionsInv, OnSessions!Say(p)
  PROVE  SessionsInv'
<1>1. OnSessions!TypeOK
  BY DEF SessionsInv
<1>2. UNCHANGED <<cmd, arch, rec, app, mem, term, asked, apart>>
  BY DEF OnSessions!Say, OnSessions!userVars, OnSessions!files, OnSessions!history
<1>3. /\ said' \in OnSessions!Versions /\ said' = said + 1
      /\ live' \in [Pair -> {0} \cup OnSessions!Versions] /\ live'[p] = said'
      /\ \A o \in Pair : o # p => live'[o] = live[o]
      /\ live[p] # 0 /\ live'[p] # 0 /\ safe' = FALSE /\ dropped' = FALSE
  BY <1>1, BoundsAssumption DEF OnSessions!Say, OnSessions!TypeOK, OnSessions!Versions, OnSessions!NoCopy
<1>4. resumed' = (resumed \/ OnSessions!WorksOn(p))
  BY DEF OnSessions!Say
<1>5. resumed' \in BOOLEAN /\ (resumed => resumed') /\ (OnSessions!WorksOn(p) => resumed')
  BY <1>4
<1>9. OnSessions!TypeOK'
  BY <1>1, <1>2, <1>3, <1>5 DEF OnSessions!TypeOK, OnSessions!NoCopy
<1>10. CommandsFit'
  <2> SUFFICES ASSUME NEW e \in One, cmd[e].pc # "idle"
               PROVE  StepsFit(cmd[e])' /\ FilesKnown(cmd[e])' /\ AppsKnown(cmd[e])'
    BY <1>2 DEF CommandsFit, CommandFits
  <2>1. StepsFit(cmd[e]) /\ FilesKnown(cmd[e]) /\ AppsKnown(cmd[e])
    BY AtWork
  <2>2. cmd[e].p \in Pair /\ cmd[e].q \in Pair /\ cmd[e].s \in Shelves
    BY <2>1 DEF StepsFit
  <2>3. StepsFit(cmd[e])'
    BY <1>2, <2>1 DEF StepsFit, Moving, Parting
  <2>4. FilesKnown(cmd[e])'
    <3>1. ~resumed' /\ cmd[e].pc \in {"copy", "remove"} => cmd[e].p # p /\ cmd[e].q # p
      BY <1>5, <2>1 DEF OnSessions!WorksOn, OnSessions!PastChecks, StepsFit
    <3>2. cmd[e].op = "restore" /\ cmd[e].pc \in {"quit", "again", "record back", "back"} =>
            cmd[e].p # p
      BY <1>3, <2>1 DEF FilesKnown, OnSessions!NoCopy
    <3> QED
      BY <1>2, <1>3, <1>5, <2>1, <2>2, <3>1, <3>2 DEF FilesKnown, OnSessions!NoCopy
  <2>5. AppsKnown(cmd[e])'
    BY <1>2, <2>1 DEF AppsKnown, Removes, Quiet, Moving, Parting
  <2> QED
    BY <2>3, <2>4, <2>5
<1>11. TogetherBut'
  <2> SUFFICES ASSUME ~apart', NEW o \in Pair, OnItsList(o)', live'[o] = 0
               PROVE  \E e \in One : Between(cmd[e], o)'
    BY DEF TogetherBut, OnSessions!NoCopy
  <2>1. live[o] = 0 /\ OnItsList(o) /\ ~apart
    BY <1>2, <1>3 DEF OnItsList
  <2>2. PICK e \in One : Between(cmd[e], o)
    BY <2>1 DEF SessionsInv, TogetherBut, OnSessions!NoCopy
  <2> QED
    BY <1>2, <2>2 DEF Between, OnItsList
<1>12. OnSessions!LatestKept'
  BY <1>3 DEF OnSessions!LatestKept
<1> QED
  BY <1>9, <1>10, <1>11, <1>12 DEF SessionsInv

LEMMA NextKeeps ==
  ASSUME SessionsInv, OnSessions!Next
  PROVE  SessionsInv'
<1>1. ASSUME NEW e \in One, NEW op \in OnSessions!Ops \ {"none"}, NEW p \in Pair, NEW q \in Pair,
             NEW s \in Shelves, NEW after \in {"keep", "archive", "delete"}, NEW add \in BOOLEAN,
             OnSessions!Start(e, op, p, q, s, after, add)
      PROVE  SessionsInv'
  BY <1>1, StartKeeps
<1>2. ASSUME NEW e \in One, NEW confirmed \in BOOLEAN,
             OnSessions!Prepare(e, confirmed) \/ OnSessions!PrepareAgain(e, confirmed)
      PROVE  SessionsInv'
  BY <1>2, PrepareKeeps, PrepareAgainKeeps
<1>3. ASSUME NEW e \in One, NEW zips \in BOOLEAN, OnSessions!MoveAway(e, zips)
      PROVE  SessionsInv'
  BY <1>3, MoveAwayKeeps
<1>4. ASSUME NEW e \in One,
             \/ OnSessions!BackUp(e)
             \/ OnSessions!Copy(e)
             \/ OnSessions!WriteRecord(e)
             \/ OnSessions!CheckSource(e)
      PROVE  SessionsInv'
  BY <1>4, BackUpKeeps, CopyKeeps, WriteRecordKeeps, CheckSourceKeeps
<1>5. ASSUME NEW e \in One,
             \/ OnSessions!RemoveSource(e)
             \/ OnSessions!RemoveRecord(e)
             \/ OnSessions!RecordAway(e)
             \/ OnSessions!RecordBack(e)
      PROVE  SessionsInv'
  BY <1>5, RemoveSourceKeeps, RemoveRecordKeeps, RecordAwayKeeps, RecordBackKeeps
<1>6. ASSUME NEW e \in One,
             \/ OnSessions!Back(e)
             \/ OnSessions!DeleteArchive(e)
             \/ OnSessions!Stops(e)
             \/ OnSessions!Quit(e)
      PROVE  SessionsInv'
  BY <1>6, BackKeeps, DeleteArchiveKeeps, StopsKeeps, QuitKeeps
<1>7. ASSUME NEW e \in One,
             OnSessions!QuitFails(e)
      PROVE  SessionsInv'
  BY <1>7, QuitFailsKeeps
<1>8. ASSUME NEW p \in Pair, NEW s \in Shelves, OnSessions!Compress(p, s)
      PROVE  SessionsInv'
  BY <1>8, CompressKeeps
<1>9. ASSUME NEW p \in Pair, NEW quits \in BOOLEAN, OnSessions!WriteRecords(p, quits)
      PROVE  SessionsInv'
  BY <1>9, WriteRecordsKeeps
<1>10. ASSUME NEW p \in Pair,
             \/ OnSessions!OpenApp(p)
             \/ OnSessions!ListSession(p)
             \/ OnSessions!DropSession(p)
             \/ OnSessions!HoldSession(p)
             \/ OnSessions!LeaveSession(p)
             \/ OnSessions!Terminal(p)
             \/ OnSessions!Say(p)
      PROVE  SessionsInv'
  BY <1>10, OpenAppKeeps, ListSessionKeeps, UsesKeep, SayKeeps
<1> QED
  BY <1>1, <1>2, <1>3, <1>4, <1>5, <1>6, <1>7, <1>8, <1>9, <1>10 DEF OnSessions!Next

LEMMA SessionsInit ==
  ASSUME OnSessions!Init
  PROVE  SessionsInv
<1>0. PICK p \in Pair, r \in BOOLEAN :
      /\ live = [o \in Pair |-> IF o = p THEN 1 ELSE OnSessions!NoCopy]
      /\ rec = [o \in Pair |-> o = p /\ r]
  BY DEF OnSessions!Init
<1>1. /\ arch = [o \in Pair |-> [s \in Shelves |-> OnSessions!NoArchive]]
      /\ app = [o \in Pair |-> "closed"]
      /\ mem = [o \in Pair |-> FALSE]
      /\ term = [o \in Pair |-> FALSE]
      /\ cmd = OnSessions!Resting
      /\ said = 1 /\ asked = 0 /\ safe = FALSE /\ dropped = FALSE
      /\ resumed = FALSE /\ apart = FALSE
  BY DEF OnSessions!Init
<1>2. OnSessions!NoArchive \in OnSessions!Archives
  BY DEF OnSessions!NoArchive, OnSessions!Archives, OnSessions!NoCopy
<1>3. cmd \in [One -> OnSessions!Cmds] /\ \A e \in One : cmd[e].pc = "idle"
  <2>1. \A e \in One : OnSessions!Resting[e] \in OnSessions!Cmds /\ OnSessions!Resting[e].pc = "idle"
    BY
       DEF OnSessions!Resting, OnSessions!Cmds, OnSessions!Ops, OnSessions!Pcs,
           OnSessions!Nothing
  <2>2. OnSessions!Resting = [e \in One |-> OnSessions!Resting[e]]
    BY DEF OnSessions!Resting
  <2> QED
    BY <1>1, <2>1, <2>2
<1>4. live \in [Pair -> {0} \cup OnSessions!Versions] /\ rec \in [Pair -> BOOLEAN]
  BY <1>0, BoundsAssumption DEF OnSessions!NoCopy, OnSessions!Versions
<1>5. OnSessions!TypeOK
  <2>1. arch \in [Pair -> [Shelves -> OnSessions!Archives]]
    BY <1>1, <1>2
  <2>2. /\ app \in [Pair -> {"closed", "running", "holding"}]
        /\ mem \in [Pair -> BOOLEAN] /\ term \in [Pair -> BOOLEAN]
    BY <1>1
  <2>3. said \in OnSessions!Versions /\ asked \in 0..MaxAsked
    BY <1>1, BoundsAssumption DEF OnSessions!Versions
  <2>4. /\ safe \in BOOLEAN /\ dropped \in BOOLEAN
        /\ resumed \in BOOLEAN /\ apart \in BOOLEAN
    BY <1>1
  <2> QED
    BY <1>3, <1>4, <2>1, <2>2, <2>3, <2>4 DEF OnSessions!TypeOK, OnSessions!NoCopy
<1>6. CommandsFit
  BY <1>3 DEF CommandsFit, CommandFits
<1>7. TogetherBut
  <2>1. \A o \in Pair : OnItsList(o) => o = p
    BY <1>0, <1>1 DEF OnItsList
  <2>2. live[p] = 1
    BY <1>0
  <2> QED
    BY <2>1, <2>2 DEF TogetherBut, OnSessions!NoCopy
<1>8. OnSessions!LatestKept
  BY <1>0, <1>1 DEF OnSessions!LatestKept
<1> QED
  BY <1>5, <1>6, <1>7, <1>8 DEF SessionsInv

(* Moves, archives and restores: the session's own behaviours.             *)
LEMMA SessionsAlways == MacSpec => [](Sessions => SessionsInv)
<1>1. MacInit => (Sessions => SessionsInv)
  BY SessionsInit DEF MacInit, Sessions, Listing, Opens, Lists
<1>2. (Sessions => SessionsInv) /\ [MacNext]_allVars => (Sessions => SessionsInv)'
  <2> SUFFICES ASSUME Sessions => SessionsInv, [MacNext]_allVars, Sessions'
               PROVE  SessionsInv'
    OBVIOUS
  <2>1. Sessions /\ SessionsInv
    BY DEF MacNext, allVars, Sessions
  <2>2. CASE OnSessions!Next
    BY <2>1, <2>2, NextKeeps
  <2>3. CASE UNCHANGED sessionVars
    <3>1. UNCHANGED <<live, arch, rec, app, mem, term, cmd, said, safe, dropped, asked, resumed, apart>>
      BY <2>3 DEF sessionVars
    <3>2. OnSessions!TypeOK' /\ OnSessions!LatestKept'
      BY <2>1, <3>1 DEF SessionsInv, OnSessions!TypeOK, OnSessions!LatestKept
    <3>3. TogetherBut'
      BY <2>1, <3>1 DEF SessionsInv, TogetherBut, Between, OnItsList
    <3>4. CommandsFit'
      <4> SUFFICES ASSUME NEW e \in One, cmd'[e].pc # "idle"
                   PROVE  StepsFit(cmd[e])' /\ FilesKnown(cmd[e])' /\ AppsKnown(cmd[e])'
        BY DEF CommandsFit, CommandFits
      <4>1. StepsFit(cmd[e]) /\ FilesKnown(cmd[e]) /\ AppsKnown(cmd[e])
        BY <2>1, <3>1, AtWork
      <4>2. StepsFit(cmd[e])'
        BY <3>1, <4>1 DEF StepsFit, Moving, Parting
      <4>3. FilesKnown(cmd[e])'
        BY <3>1, <4>1 DEF FilesKnown
      <4>4. AppsKnown(cmd[e])'
        BY <3>1, <4>1 DEF AppsKnown, Removes, Quiet, Moving, Parting
      <4> QED
        BY <4>2, <4>3, <4>4
    <3> QED
      BY <3>2, <3>3, <3>4 DEF SessionsInv
  <2> QED
    BY <2>1, <2>2, <2>3 DEF MacNext, allVars, Sessions, Listing, Opens, Lists
<1> QED
  BY <1>1, <1>2, PTL DEF MacSpec

(* The latest of a conversation is live, in an archive or in a backup,     *)
(* whatever command stops and wherever, whatever apps open, list and write *)
(* meanwhile, unless its archive was deleted, until someone goes on with   *)
(* the session under a command past its checks.                            *)
THEOREM LatestAlwaysKept == MacSpec => []LatestKept
<1>1. (Sessions => SessionsInv) => LatestKept
  BY DEF SessionsInv, LatestKept
<1> QED
  BY <1>1, SessionsAlways, PTL

(* Between commands that ran to their end no app lists a session whose     *)
(* transcript is gone, until an app takes the session up, or has it on its *)
(* list alone, past the checks of a command that takes it away.            *)
THEOREM HalvesAlwaysTogether == MacSpec => []HalvesTogether
<1>1. (Sessions => SessionsInv) => HalvesTogether
  <2> SUFFICES ASSUME SessionsInv, ~apart, \A e \in One : cmd[e].pc = "idle",
                      NEW p \in Pair, rec[p] \/ (OnSessions!Running(p) /\ mem[p])
               PROVE  live[p] # OnSessions!NoCopy
    BY DEF HalvesTogether, OnSessions!HalvesTogether, OnSessions!Busy
  <2>1. OnItsList(p)
    BY DEF OnItsList, OnSessions!Running
  <2> QED
    BY <2>1 DEF SessionsInv, TogetherBut, Between
<1> QED
  BY <1>1, SessionsAlways, PTL

------------------------------------------------------------------------------
(***************************************************************************)
(* Profiles.  Which launchers stand follows from the list, what the thread *)
(* that has the lock has done of its change, and what an import has built. *)
(***************************************************************************)

Locked == {"create", "update", "toggle", "delete", "stamp"}
Asking == {"create", "import"}
AllOps == Locked \cup Unlocked \cup {"none"}
AllAts == {"idle", "next", "lock", "copy", "gui away", "cli away", "gui", "build", "cli",
           "trash", "save", "tidy"}
(* Lists of profiles: functions from some ids.                             *)
AllLists == UNION {[some -> Profile] : some \in SUBSET Profiles}
Threaded == [op : AllOps, at : AllAts, id : Profiles \cup {None}, new : Profile \cup {None},
             build : SUBSET (Surfaces \cup {"name", "icon"}), all : AllLists,
             parked : Profiles \cup {None}]

(* The steps of each command, and what it goes by at them.                 *)
StepFits(k) ==
  /\ k.op = "none" <=> k.at = "idle"
  /\ k.at \notin {"idle", "next"} => k.id \in Profiles /\ k.new \in Profile
  /\ k.at \in {"idle", "next"} => k.id = None
  /\ k.at = "next" => k.op = "refresh"
  /\ k.op = "refresh" => k.at \in {"next", "gui", "build"}
  /\ k.op = "regenerate" => k.at \in {"gui", "build", "cli"}
  /\ k.op = "import" => k.at \in {"copy", "gui away", "cli away", "gui", "build", "cli",
                                  "lock", "save"}
  /\ k.op \in {"create", "toggle"} => k.at \in {"lock", "gui", "build", "cli", "save"}
  /\ k.op = "update" => k.at \in {"lock", "gui", "build", "cli", "save", "tidy"}
  /\ k.op = "delete" => k.at \in {"lock", "trash", "save"}
  /\ k.op = "stamp" => k.at \in {"lock", "save"}
  /\ k.at \in {"gui", "build"} => "gui" \in k.build
  /\ k.at = "cli" => "cli" \in k.build

(* What is built is what is due.                                           *)
BuildFits(k) ==
  /\ k.op \in Asking \cup {"regenerate"} => k.build = k.new.surfaces
  /\ k.op = "import" => k.build # {}
  /\ k.op = "refresh" /\ k.at # "next" => k.build = {"gui"} /\ "gui" \in k.new.surfaces
  /\ k.op = "toggle" /\ k.at = "lock" => k.build \subseteq Surfaces

(* Past the lock: the list a command loaded, and its change of it.         *)
Holds(k) == (k.op \in Locked /\ k.at # "lock") \/ (k.op = "import" /\ k.at = "save")

ChangeFits(k) ==
  Holds(k) =>
    /\ k.op \in Asking => k.id \notin DOMAIN k.all
    /\ k.op \notin Asking => k.id \in DOMAIN k.all
    /\ k.op = "update" => k.build = k.new.surfaces /\ k.build = k.all[k.id].surfaces
    /\ k.op = "toggle" => /\ k.new.name = k.all[k.id].name
                          /\ k.build = k.new.surfaces \ k.all[k.id].surfaces
    /\ k.op \in {"delete", "stamp"} => k.new = k.all[k.id] /\ k.build = {}

ThreadsFit ==
  /\ cmds \in [Threads -> Threaded]
  /\ \A t \in Threads : StepFits(cmds[t]) /\ BuildFits(cmds[t]) /\ ChangeFits(cmds[t])

(* The locks, and the list while it is held.                               *)
LocksFit ==
  /\ lock \in Threads \cup {None} /\ building \in Threads \cup {None}
  /\ \A t \in Threads : (lock = t <=> Holds(cmds[t])) /\ (building = t <=> cmds[t].at = "build")

Loaded ==
  lock # None =>
    LET k == cmds[lock] IN
    store = IF k.at = "tidy" THEN Put(k.all, k.id, k.new) ELSE k.all

(* Ids of new profiles are nobody else's.                                  *)
IdsApart ==
  \A t \in Threads : cmds[t].op \in Asking =>
    /\ cmds[t].id \notin DOMAIN store /\ cmds[t].id \notin DOMAIN cmds[Startup].all
    /\ \A u \in Threads \ {t} : cmds[u].id # cmds[t].id

(* Two that claim one slug are both marked.                                *)
Clash(f, p, n) == {q \in DOMAIN f \ {p} : SlugOf[f[q].name] = SlugOf[n]}
Marked(f, p, n) == Clash(f, p, n) # {} => Clash(f, p, n) \cup {p} \subseteq unsure

SlugsApart ==
  /\ \A p \in DOMAIN store : Marked(store, p, store[p].name)
  /\ lock # None =>
       LET k == cmds[lock] IN
       /\ k.op # "import" => Marked(k.all, k.id, k.new.name)
       /\ k.id \in DOMAIN k.all => Marked(k.all, k.id, k.all[k.id].name)

(* A launcher that a profile had before and keeps, and what was built.     *)
Changing(p) == lock # None /\ cmds[lock].id = p
Before(p) == IF Changing(p) THEN cmds[lock].all ELSE store
Keeps(p, s) ==
  /\ p \in DOMAIN Before(p) /\ s \in Before(p)[p].surfaces
  /\ Changing(p) => cmds[lock].op # "delete" /\ s \in cmds[lock].new.surfaces

Adds(k, s) ==
  /\ s \in k.build /\ k.op \notin {"regenerate", "refresh"}
  /\ \/ k.at \in {"save", "tidy"}
     \/ k.at = "cli" /\ s = "gui"
     \/ k.at = "lock" /\ k.op = "import"

Due(p, s, n) ==
  \/ Keeps(p, s) /\ Before(p)[p].name = n
  \/ \E t \in Threads : cmds[t].id = p /\ Adds(cmds[t], s) /\ cmds[t].new.name = n

Out(p, n) == \E t \in Threads : cmds[t].at = "build" /\ cmds[t].id = p /\ cmds[t].new.name = n

OpensIt(n, p) == n \in DOMAIN bundles /\ bundles[n] = p
RunsIt(z, p) == z \in DOMAIN wrappers /\ wrappers[z] = p

BundleDue(p) == \A n \in Names : OpensIt(n, p) <=> Due(p, "gui", n) /\ ~Out(p, n)
WrapperDue(p) ==
  \A z \in Slugs : RunsIt(z, p) <=> \E n \in Names : SlugOf[n] = z /\ Due(p, "cli", n)
LaunchersDue == \A p \in Profiles \ unsure : BundleDue(p) /\ WrapperDue(p)

(* While a launcher is built, nothing is in its place.                     *)
PlaceFree == \A t \in Threads : cmds[t].at = "build" => cmds[t].new.name \notin DOMAIN bundles

FilesTyped ==
  /\ store \in AllLists /\ dirs \subseteq Profiles /\ unsure \subseteq Profiles
  /\ DOMAIN bundles \subseteq Names /\ Range(bundles) \subseteq Profiles
  /\ outdated \subseteq DOMAIN bundles
  /\ DOMAIN wrappers \subseteq Slugs /\ Range(wrappers) \subseteq Profiles
  /\ stock \in [Surfaces -> Install]
  /\ backups \in [Profiles -> [Surfaces -> Install]]
  /\ ops \in 0..MaxOps /\ failures \in 0..MaxFailures

ProfInv ==
  /\ FilesTyped /\ ThreadsFit /\ LocksFit /\ Loaded /\ IdsApart /\ SlugsApart
  /\ LaunchersDue /\ PlaceFree

LEMMA ListsAre ==
  /\ <<>> \in AllLists
  /\ \A f \in AllLists : DOMAIN f \subseteq Profiles /\ \A p \in DOMAIN f : f[p] \in Profile
  /\ \A f \in AllLists, p \in Profiles, r \in Profile : Put(f, p, r) \in AllLists
  /\ \A f \in AllLists, p \in Profiles : Removed(f, p) \in AllLists
<1> HIDE DEF Profile
<1>1. <<>> \in AllLists
  <2>1. <<>> \in [{} -> Profile]
    OBVIOUS
  <2> QED
    BY <2>1 DEF AllLists
<1>2. ASSUME NEW f \in AllLists
      PROVE  DOMAIN f \subseteq Profiles /\ \A p \in DOMAIN f : f[p] \in Profile
  BY DEF AllLists
<1>3. ASSUME NEW f \in AllLists, NEW p \in Profiles, NEW r \in Profile
      PROVE  Put(f, p, r) \in AllLists
  <2>1. PICK some \in SUBSET Profiles : f \in [some -> Profile]
    BY DEF AllLists
  <2>2. Put(f, p, r) \in [some \cup {p} -> Profile]
    BY <2>1 DEF Put
  <2> QED
    BY <2>2 DEF AllLists
<1>4. ASSUME NEW f \in AllLists, NEW p \in Profiles PROVE Removed(f, p) \in AllLists
  <2>1. PICK some \in SUBSET Profiles : f \in [some -> Profile]
    BY DEF AllLists
  <2>2. Removed(f, p) \in [some \ {p} -> Profile]
    BY <2>1 DEF Removed
  <2> QED
    BY <2>2 DEF AllLists
<1> QED
  BY <1>1, <1>2, <1>3, <1>4

(* A step is one thread's.                                                 *)
Alone(t) ==
  /\ cmds' \in [Threads -> Threaded]
  /\ \A u \in Threads \ {t} : cmds'[u] = cmds[u]

(* It goes on with what it was asked...                                    *)
GoesOn(k, l) ==
  /\ l.op = k.op /\ l.id = k.id /\ l.new = k.new /\ l.build = k.build /\ l.all = k.all

(* ... or is over, and only the rebuild at startup has more to do.         *)
Over(k, l) ==
  /\ l.op = IF k.op = "refresh" THEN "refresh" ELSE "none"
  /\ l.at = IF k.op = "refresh" THEN "next" ELSE "idle"
  /\ l.id = None /\ l.build = {}
  /\ DOMAIN l.all \subseteq DOMAIN k.all

LEMMA ThreadGoes ==
  ASSUME NEW t \in Threads, NEW l \in Threaded, cmds \in [Threads -> Threaded],
         cmds' = [cmds EXCEPT ![t] = l]
  PROVE  Alone(t) /\ cmds'[t] = l
BY DEF Alone

LEMMA GotoGoesOn ==
  ASSUME NEW t \in Threads, NEW at \in AllAts, cmds \in [Threads -> Threaded], Goto(t, at)
  PROVE  Alone(t) /\ cmds'[t].at = at /\ GoesOn(cmds[t], cmds'[t])
<1> DEFINE r == [cmds[t] EXCEPT !.at = at]
<1> HIDE DEF AllAts
<1>1. cmds[t] \in Threaded
  OBVIOUS
<1>2. r \in Threaded /\ r.at = at /\ GoesOn(cmds[t], r)
  BY <1>1 DEF Threaded, GoesOn
<1>3. cmds' = [cmds EXCEPT ![t] = r]
  BY DEF Goto
<1> HIDE DEF r
<1> QED
  BY <1>2, <1>3, ThreadGoes

LEMMA IdleTyped == Idle \in Threaded
BY ListsAre DEF Idle, Threaded, AllOps, AllAts

LEMMA ReturnEnds ==
  ASSUME NEW t \in Threads, cmds \in [Threads -> Threaded], Return(t)
  PROVE  Alone(t) /\ Over(cmds[t], cmds'[t])
<1>1. cmds[t] \in Threaded
  OBVIOUS
<1>2. CASE cmds[t].op = "refresh"
  <2> DEFINE r == [cmds[t] EXCEPT !.at = "next", !.id = None, !.new = None, !.build = {}]
  <2>1. r \in Threaded
    <3>1. "next" \in AllAts
      BY DEF AllAts
    <3> QED
      BY <1>1, <3>1 DEF Threaded
  <2>2. Over(cmds[t], r)
    BY <1>1, <1>2 DEF Over, Threaded
  <2>3. cmds' = [cmds EXCEPT ![t] = r]
    BY <1>2 DEF Return
  <2> HIDE DEF r
  <2> QED
    BY <2>1, <2>2, <2>3, ThreadGoes
<1>3. CASE cmds[t].op # "refresh"
  <2>1. cmds' = [cmds EXCEPT ![t] = Idle]
    BY <1>3 DEF Return
  <2>2. Over(cmds[t], Idle)
    BY <1>3 DEF Over, Idle
  <2> QED
    BY <2>1, <2>2, IdleTyped, ThreadGoes
<1> QED
  BY <1>2, <1>3

(* The locks are taken and left by who holds them.                         *)
LockMoves(t) == lock' = lock \/ (lock \in {t, None} /\ lock' \in {t, None})
BuildingMoves(t) == building' = building \/ (building \in {t, None} /\ building' \in {t, None})

Ends(t) ==
  /\ Alone(t) /\ Over(cmds[t], cmds'[t])
  /\ lock' = IF lock = t THEN None ELSE lock
  /\ BuildingMoves(t) /\ building' # t

Goes(t) ==
  /\ Alone(t) /\ GoesOn(cmds[t], cmds'[t]) /\ lock' = lock
  /\ BuildingMoves(t) /\ (building' = t <=> cmds'[t].at = "build")

LEMMA FitAfter ==
  ASSUME NEW t \in Threads, ThreadsFit, Alone(t),
         StepFits(cmds'[t]), BuildFits(cmds'[t]), ChangeFits(cmds'[t])
  PROVE  ThreadsFit'
BY DEF ThreadsFit, Alone

LEMMA LocksAfter ==
  ASSUME NEW t \in Threads, LocksFit, Alone(t), LockMoves(t), BuildingMoves(t),
         lock' = t <=> Holds(cmds'[t]), building' = t <=> cmds'[t].at = "build"
  PROVE  LocksFit'
<1> USE ProfilesAssumption
<1>1. lock' \in Threads \cup {None} /\ building' \in Threads \cup {None}
  BY DEF LocksFit, LockMoves, BuildingMoves
<1>2. ASSUME NEW u \in Threads, u # t
      PROVE  (lock' = u <=> Holds(cmds'[u])) /\ (building' = u <=> cmds'[u].at = "build")
  BY <1>2 DEF LocksFit, LockMoves, BuildingMoves, Alone
<1> QED
  BY <1>1, <1>2 DEF LocksFit

LEMMA OverFits ==
  ASSUME NEW k, NEW l, Over(k, l)
  PROVE  StepFits(l) /\ BuildFits(l) /\ ChangeFits(l) /\ ~Holds(l) /\ l.at # "build"
<1>1. ~Holds(l) /\ l.at # "build"
  BY DEF Over, Holds, Locked
<1>2. StepFits(l)
  BY DEF Over, StepFits
<1>3. BuildFits(l)
  BY DEF Over, BuildFits, Asking
<1> QED
  BY <1>1, <1>2, <1>3 DEF ChangeFits

LEMMA SameFits ==
  ASSUME NEW k, NEW l, GoesOn(k, l), BuildFits(k), ChangeFits(k), Holds(l) => Holds(k),
         k.at # "next", l.at = "lock" => k.op = "import"
  PROVE  BuildFits(l) /\ ChangeFits(l)
<1>1. BuildFits(l)
  BY DEF GoesOn, BuildFits, Asking
<1>2. ChangeFits(l)
  BY DEF GoesOn, ChangeFits
<1> QED
  BY <1>1, <1>2

(* What a step says of the list, the lock and the ids goes through.        *)
Around == ThreadsFit /\ LocksFit /\ Loaded /\ IdsApart /\ SlugsApart

LEMMA EndsKeeps ==
  ASSUME NEW t \in Threads, Around, Ends(t), store' = store, unsure \subseteq unsure'
  PROVE  Around'
<1> USE ProfilesAssumption DEF Around
<1>1. ThreadsFit'
  BY OverFits, FitAfter DEF Ends
<1>2. LocksFit'
  <2>1. LockMoves(t) /\ lock' # t
    BY DEF Ends, LockMoves
  <2> QED
    BY <2>1, OverFits, LocksAfter DEF Ends
<1>3. lock' # None => lock' = lock /\ lock \in Threads \ {t} /\ cmds'[lock] = cmds[lock]
  BY DEF Ends, Alone, LocksFit
<1>4. Loaded'
  BY <1>3 DEF Loaded
<1>5. IdsApart'
  <2>1. cmds'[t].op \notin Asking /\ cmds'[t].id = None
    BY DEF Ends, Over, Asking
  <2>2. ASSUME NEW u \in Threads, cmds'[u].op \in Asking
        PROVE  u # t /\ cmds'[u] = cmds[u] /\ cmds[u].id # None
    <3>1. u # t /\ cmds'[u] = cmds[u]
      BY <2>1, <2>2 DEF Ends, Alone
    <3>2. cmds[u].id \in Profiles
      BY <2>2, <3>1 DEF ThreadsFit, StepFits, Asking
    <3> QED
      BY <3>1, <3>2
  <2>3. DOMAIN cmds'[Startup].all \subseteq DOMAIN cmds[Startup].all
    BY DEF Ends, Over, Alone, Threads
  <2>4. ASSUME NEW u \in Threads, cmds'[u].op \in Asking, NEW w \in Threads \ {u}
        PROVE  cmds'[w].id # cmds'[u].id
    <3>1. CASE w = t
      BY <2>1, <2>2, <2>4, <3>1
    <3>2. CASE w # t
      BY <2>2, <2>4, <3>2 DEF IdsApart, Ends, Alone
    <3> QED
      BY <3>1, <3>2
  <2> QED
    BY <2>2, <2>3, <2>4 DEF IdsApart
<1>6. SlugsApart'
  BY <1>3 DEF SlugsApart, Marked, Clash
<1> QED
  BY <1>1, <1>2, <1>4, <1>5, <1>6

LEMMA GoesKeeps ==
  ASSUME NEW t \in Threads, Around, Goes(t), store' = store, unsure \subseteq unsure',
         StepFits(cmds'[t]), Holds(cmds'[t]) <=> Holds(cmds[t]),
         cmds'[t].at = "tidy" <=> cmds[t].at = "tidy",
         cmds[t].at # "next", cmds'[t].at = "lock" => cmds[t].op = "import"
  PROVE  Around'
<1> USE ProfilesAssumption DEF Around
<1>1. ThreadsFit'
  <2>1. BuildFits(cmds[t]) /\ ChangeFits(cmds[t])
    BY DEF ThreadsFit
  <2> QED
    BY <2>1, SameFits, FitAfter DEF Goes
<1>2. LocksFit'
  <2>1. LockMoves(t) /\ (lock' = t <=> Holds(cmds'[t]))
    BY DEF Goes, LockMoves, LocksFit
  <2> QED
    BY <2>1, LocksAfter DEF Goes
<1>3. lock' = lock /\ (lock # None => lock \in Threads /\ GoesOn(cmds[lock], cmds'[lock])
                                        /\ (cmds'[lock].at = "tidy" <=> cmds[lock].at = "tidy"))
  BY DEF Goes, Alone, LocksFit, GoesOn
<1>4. Loaded'
  BY <1>3 DEF Loaded, GoesOn
<1>5. IdsApart'
  <2>1. \A u \in Threads : cmds'[u].op = cmds[u].op /\ cmds'[u].id = cmds[u].id
                             /\ cmds'[u].all = cmds[u].all
    BY DEF Goes, Alone, GoesOn
  <2>2. Startup \in Threads
    BY DEF Threads
  <2> QED
    BY <2>1, <2>2 DEF IdsApart
<1>6. SlugsApart'
  BY SMTT(30), <1>3 DEF SlugsApart, Marked, Clash, GoesOn
<1> QED
  BY <1>1, <1>2, <1>4, <1>5, <1>6

(* What is due to a profile that the thread has nothing to do with.        *)
LEMMA DueOthers ==
  ASSUME NEW t \in Threads, NEW p \in Profiles, NEW s, NEW n,
         LocksFit, Alone(t), LockMoves(t), p # cmds[t].id, p # cmds'[t].id,
         p \in DOMAIN store' <=> p \in DOMAIN store, p \in DOMAIN store => store'[p] = store[p]
  PROVE  (Due(p, s, n)' <=> Due(p, s, n)) /\ (Out(p, n)' <=> Out(p, n))
<1> USE ProfilesAssumption
<1>1. (Changing(p))' <=> Changing(p)
  BY DEF Changing, LocksFit, LockMoves, Alone
<1>2. Changing(p) => lock' = lock /\ cmds'[lock] = cmds[lock]
  BY DEF Changing, LocksFit, LockMoves, Alone
<1>3. (Keeps(p, s) /\ Before(p)[p].name = n)' <=> Keeps(p, s) /\ Before(p)[p].name = n
  <2>1. CASE Changing(p)
    BY <1>1, <1>2, <2>1 DEF Keeps, Before
  <2>2. CASE ~Changing(p)
    BY <1>1, <2>2 DEF Keeps, Before
  <2> QED
    BY <2>1, <2>2
<1>4. ASSUME NEW u \in Threads
      PROVE  (cmds'[u].id = p <=> cmds[u].id = p)
               /\ (cmds[u].id = p => cmds'[u] = cmds[u])
  BY DEF Alone
<1>5. (\E u \in Threads : cmds[u].id = p /\ Adds(cmds[u], s) /\ cmds[u].new.name = n)'
        <=> \E u \in Threads : cmds[u].id = p /\ Adds(cmds[u], s) /\ cmds[u].new.name = n
  <2>1. ASSUME NEW u \in Threads
        PROVE  (cmds'[u].id = p /\ Adds(cmds'[u], s) /\ cmds'[u].new.name = n)
                 <=> (cmds[u].id = p /\ Adds(cmds[u], s) /\ cmds[u].new.name = n)
    BY <1>4
  <2> QED
    BY <2>1
<1>6. Out(p, n)' <=> Out(p, n)
  <2>1. ASSUME NEW u \in Threads
        PROVE  (cmds'[u].at = "build" /\ cmds'[u].id = p /\ cmds'[u].new.name = n)
                 <=> (cmds[u].at = "build" /\ cmds[u].id = p /\ cmds[u].new.name = n)
    BY <1>4
  <2> QED
    BY <2>1 DEF Out
<1> QED
  BY <1>3, <1>5, <1>6 DEF Due

(* ... and to all, when the thread has added nothing and adds nothing.     *)
Idles(k) == \A s \in Surfaces : ~Adds(k, s)

LEMMA DueSame ==
  ASSUME NEW t \in Threads, NEW p \in Profiles, NEW s \in Surfaces, NEW n,
         LocksFit, Alone(t), lock' = lock, lock # t, store' = store,
         Idles(cmds[t]), Idles(cmds'[t])
  PROVE  Due(p, s, n)' <=> Due(p, s, n)
<1> USE ProfilesAssumption
<1>1. (Changing(p))' <=> Changing(p)
  BY DEF Changing, LocksFit, Alone
<1>2. Changing(p) => cmds'[lock] = cmds[lock]
  BY DEF Changing, LocksFit, Alone
<1>3. (Keeps(p, s) /\ Before(p)[p].name = n)' <=> Keeps(p, s) /\ Before(p)[p].name = n
  <2>1. CASE Changing(p)
    BY <1>1, <1>2, <2>1 DEF Keeps, Before
  <2>2. CASE ~Changing(p)
    BY <1>1, <2>2 DEF Keeps, Before
  <2> QED
    BY <2>1, <2>2
<1>4. ASSUME NEW u \in Threads
      PROVE  (cmds'[u].id = p /\ Adds(cmds'[u], s) /\ cmds'[u].new.name = n)
               <=> (cmds[u].id = p /\ Adds(cmds[u], s) /\ cmds[u].new.name = n)
  BY DEF Idles, Alone
<1>5. (\E u \in Threads : cmds[u].id = p /\ Adds(cmds[u], s) /\ cmds[u].new.name = n)'
        <=> \E u \in Threads : cmds[u].id = p /\ Adds(cmds[u], s) /\ cmds[u].new.name = n
  BY <1>4
<1> QED
  BY <1>3, <1>5 DEF Due

(* A thread that goes on adds what it has built by then.                   *)
LEMMA DueGoes ==
  ASSUME NEW t \in Threads, NEW p \in Profiles, NEW s \in Surfaces, NEW n,
         LocksFit, Goes(t), store' = store, Adds(cmds[t], s) => Adds(cmds'[t], s)
  PROVE  Due(p, s, n)' <=> \/ Due(p, s, n)
                           \/ cmds[t].id = p /\ Adds(cmds'[t], s) /\ cmds[t].new.name = n
<1> USE ProfilesAssumption
<1>1. ASSUME NEW u \in Threads PROVE GoesOn(cmds[u], cmds'[u])
  BY DEF Goes, Alone, GoesOn
<1>2. lock' = lock /\ lock \in Threads \cup {None}
  BY DEF Goes, LocksFit
<1>3. (Changing(p))' <=> Changing(p)
  BY <1>1, <1>2 DEF Changing, GoesOn
<1>4. (Keeps(p, s) /\ Before(p)[p].name = n)' <=> Keeps(p, s) /\ Before(p)[p].name = n
  <2>1. CASE Changing(p)
    <3>1. GoesOn(cmds[lock], cmds'[lock])
      BY <1>1, <1>2, <2>1 DEF Changing
    <3> QED
      BY <1>2, <1>3, <2>1, <3>1 DEF Keeps, Before, GoesOn
  <2>2. CASE ~Changing(p)
    BY <1>3, <2>2 DEF Keeps, Before
  <2> QED
    BY <2>1, <2>2
<1>5. (\E u \in Threads : cmds[u].id = p /\ Adds(cmds[u], s) /\ cmds[u].new.name = n)'
        <=> \/ \E u \in Threads : cmds[u].id = p /\ Adds(cmds[u], s) /\ cmds[u].new.name = n
            \/ cmds[t].id = p /\ Adds(cmds'[t], s) /\ cmds[t].new.name = n
  <2>1. ASSUME NEW u \in Threads, u # t PROVE cmds'[u] = cmds[u]
    BY <2>1 DEF Goes, Alone
  <2>2. cmds'[t].id = cmds[t].id /\ cmds'[t].new = cmds[t].new
    BY <1>1 DEF GoesOn
  <2> QED
    BY <2>1, <2>2
<1> QED
  BY <1>4, <1>5 DEF Due

LEMMA OutStays ==
  ASSUME NEW t \in Threads, NEW p, NEW n, Alone(t),
         cmds[t].at # "build", cmds'[t].at # "build"
  PROVE  Out(p, n)' <=> Out(p, n)
<1>1. ASSUME NEW u \in Threads
      PROVE  (cmds'[u].at = "build" /\ cmds'[u].id = p /\ cmds'[u].new.name = n)
               <=> (cmds[u].at = "build" /\ cmds[u].id = p /\ cmds[u].new.name = n)
  BY DEF Alone
<1> QED
  BY <1>1 DEF Out

(* Only who has the lock adds to a listed profile's launchers.             *)
LEMMA AddsWho ==
  ASSUME ThreadsFit, LocksFit, IdsApart, NEW u \in Threads, NEW s, Adds(cmds[u], s)
  PROVE  lock = u \/ (cmds[u].op = "import" /\ cmds[u].id \notin DOMAIN store)
<1>1. cmds[u].op \in AllOps /\ StepFits(cmds[u])
  BY DEF ThreadsFit, Threaded
<1>2. CASE cmds[u].op = "import"
  BY <1>2 DEF IdsApart, Asking
<1>3. CASE cmds[u].op # "import"
  <2>1. cmds[u].op \in Locked /\ cmds[u].at # "lock"
    BY <1>1, <1>3 DEF Adds, AllOps, StepFits, Unlocked
  <2> QED
    BY <2>1 DEF Holds, LocksFit
<1> QED
  BY <1>2, <1>3

(* Where the slug of the profile in hand leads, before and after the       *)
(* change, nobody else who is sure has a launcher.                         *)
LEMMA NotTheirs ==
  ASSUME Around, NEW t \in Threads, lock = t, NEW q \in DOMAIN store, q \notin unsure,
         q # cmds[t].id, NEW s, NEW n,
         \/ cmds[t].op # "import" /\ SlugOf[n] = SlugOf[cmds[t].new.name]
         \/ cmds[t].id \in DOMAIN cmds[t].all /\ SlugOf[n] = SlugOf[cmds[t].all[cmds[t].id].name]
  PROVE  ~Due(q, s, n)
<1> USE ProfilesAssumption
<1> SUFFICES ASSUME Due(q, s, n) PROVE FALSE
  OBVIOUS
<1>1. CASE Keeps(q, s) /\ Before(q)[q].name = n
  <2>1. store[q].name = n
    BY <1>1 DEF Before, Changing
  <2>2. q \in DOMAIN cmds[t].all /\ cmds[t].all[q] = store[q]
    BY DEF Around, Loaded, Put
  <2>3. q \in Clash(cmds[t].all, cmds[t].id, n)
    BY <2>1, <2>2 DEF Clash
  <2>4. \/ cmds[t].op # "import" /\ q \in Clash(cmds[t].all, cmds[t].id, cmds[t].new.name)
        \/ /\ cmds[t].id \in DOMAIN cmds[t].all
           /\ q \in Clash(cmds[t].all, cmds[t].id, cmds[t].all[cmds[t].id].name)
    BY <2>3 DEF Clash
  <2> QED
    BY <2>4 DEF Around, SlugsApart, Marked
<1>2. CASE \E u \in Threads : cmds[u].id = q /\ Adds(cmds[u], s) /\ cmds[u].new.name = n
  BY <1>2, AddsWho DEF Around
<1> QED
  BY <1>1, <1>2 DEF Due

LEMMA NotTheirsBefore ==
  ASSUME Around, lock = None, NEW p \in DOMAIN store, NEW q \in DOMAIN store, q \notin unsure,
         q # p, NEW s, NEW n, SlugOf[n] = SlugOf[store[p].name]
  PROVE  ~Due(q, s, n)
<1> USE ProfilesAssumption
<1> SUFFICES ASSUME Due(q, s, n) PROVE FALSE
  OBVIOUS
<1>1. CASE Keeps(q, s) /\ Before(q)[q].name = n
  <2>1. store[q].name = n
    BY <1>1 DEF Before, Changing
  <2>2. q \in Clash(store, p, store[p].name)
    BY <2>1 DEF Clash
  <2> QED
    BY <2>2 DEF Around, SlugsApart, Marked
<1>2. CASE \E u \in Threads : cmds[u].id = q /\ Adds(cmds[u], s) /\ cmds[u].new.name = n
  BY <1>2, AddsWho DEF Around
<1> QED
  BY <1>1, <1>2 DEF Due

LEMMA NotOwned ==
  ASSUME LaunchersDue, NEW q \in Profiles \ unsure, NEW r \in Profile,
         \A n \in Names, s \in Surfaces : SlugOf[n] = SlugOf[r.name] => ~Due(q, s, n)
  PROVE  ~OpensIt(r.name, q) /\ ~RunsIt(SlugOf[r.name], q)
<1>1. r.name \in Names /\ SlugOf[r.name] \in Slugs
  BY DEF Profile, Slugs
<1>2. BundleDue(q) /\ WrapperDue(q)
  BY DEF LaunchersDue
<1>3. "gui" \in Surfaces /\ "cli" \in Surfaces
  BY DEF Surfaces
<1>4. ~OpensIt(r.name, q)
  BY <1>1, <1>2, <1>3 DEF BundleDue
<1>5. ~RunsIt(SlugOf[r.name], q)
  BY <1>1, <1>2, <1>3 DEF WrapperDue
<1> QED
  BY <1>4, <1>5

(* Whose launchers go, and whose come.                                     *)
LEMMA RemovedOnes ==
  ASSUME NEW r, NEW which, RemoveLaunchers(r, which), NEW q, NEW n
  PROVE  /\ OpensIt(n, q)' <=> OpensIt(n, q) /\ ~("gui" \in which /\ n = r.name)
         /\ RunsIt(n, q)' <=> RunsIt(n, q) /\ ~("cli" \in which /\ n = SlugOf[r.name])
BY DEF RemoveLaunchers, OpensIt, RunsIt, Removed

LEMMA PutOpens ==
  ASSUME NEW m, NEW v, bundles' = Put(bundles, m, v), NEW q, NEW n
  PROVE  OpensIt(n, q)' <=> IF n = m THEN v = q ELSE OpensIt(n, q)
BY DEF OpensIt, Put

LEMMA PutRuns ==
  ASSUME NEW m, NEW v, wrappers' = Put(wrappers, m, v), NEW q, NEW n
  PROVE  RunsIt(n, q)' <=> IF n = m THEN v = q ELSE RunsIt(n, q)
BY DEF RunsIt, Put

LEMMA OwnersAre ==
  ASSUME NEW r, NEW which, NEW q
  PROVE  q \in Owners(r, which) <=> \/ "gui" \in which /\ OpensIt(r.name, q)
                                    \/ "cli" \in which /\ RunsIt(SlugOf[r.name], q)
BY DEF Owners, Owner, OpensIt, RunsIt

LEMMA OthersKeep ==
  ASSUME LocksFit, LaunchersDue, NEW t \in Threads, Alone(t), LockMoves(t),
         NEW q \in Profiles \ unsure, q # cmds[t].id, q # cmds'[t].id,
         q \in DOMAIN store' <=> q \in DOMAIN store, q \in DOMAIN store => store'[q] = store[q],
         \A n \in Names : OpensIt(n, q)' <=> OpensIt(n, q),
         \A z \in Slugs : RunsIt(z, q)' <=> RunsIt(z, q)
  PROVE  BundleDue(q)' /\ WrapperDue(q)'
<1>1. BundleDue(q) /\ WrapperDue(q)
  BY DEF LaunchersDue
<1>2. ASSUME NEW s, NEW n
      PROVE  (Due(q, s, n)' <=> Due(q, s, n)) /\ (Out(q, n)' <=> Out(q, n))
  BY DueOthers
<1>3. BundleDue(q)'
  BY <1>1, <1>2 DEF BundleDue
<1>4. WrapperDue(q)'
  <2> SUFFICES ASSUME NEW z \in Slugs
               PROVE  RunsIt(z, q)' <=> \E n \in Names : SlugOf[n] = z /\ Due(q, "cli", n)'
    BY DEF WrapperDue
  <2>1. RunsIt(z, q) <=> \E n \in Names : SlugOf[n] = z /\ Due(q, "cli", n)
    BY <1>1 DEF WrapperDue
  <2> QED
    BY <1>2, <2>1
<1> QED
  BY <1>3, <1>4

(* What the files are made of.                                             *)
LEMMA RemovedLess ==
  \A f, m : DOMAIN Removed(f, m) \subseteq DOMAIN f /\ Range(Removed(f, m)) \subseteq Range(f)
BY DEF Removed, Range

LEMMA FilesKeep ==
  ASSUME FilesTyped, store' \in AllLists, dirs' \subseteq Profiles, unsure' \subseteq Profiles,
         UNCHANGED files \/ \E r, which : RemoveLaunchers(r, which),
         stock' \in [Surfaces -> Install], backups' \in [Profiles -> [Surfaces -> Install]],
         ops' \in 0..MaxOps, failures' \in 0..MaxFailures
  PROVE  FilesTyped'
<1>1. CASE UNCHANGED files
  BY <1>1 DEF FilesTyped, files
<1>2. ASSUME NEW r, NEW which, RemoveLaunchers(r, which) PROVE FilesTyped'
  <2>1. DOMAIN bundles' \subseteq DOMAIN bundles /\ Range(bundles') \subseteq Range(bundles)
    BY <1>2, RemovedLess DEF RemoveLaunchers
  <2>2. DOMAIN wrappers' \subseteq DOMAIN wrappers /\ Range(wrappers') \subseteq Range(wrappers)
    BY <1>2, RemovedLess DEF RemoveLaunchers
  <2>3. outdated' \subseteq DOMAIN bundles'
    BY <1>2 DEF RemoveLaunchers, Removed, FilesTyped
  <2> QED
    BY <2>1, <2>2, <2>3 DEF FilesTyped
<1> QED
  BY <1>1, <1>2

LEMMA IdleThread ==
  ASSUME NEW t \in Threads, ThreadsFit, cmds[t].at \in {"idle", "next"}
  PROVE  ~Holds(cmds[t]) /\ Idles(cmds[t]) /\ cmds[t].id = None
<1>1. cmds[t].op \in {"none", "refresh"} /\ cmds[t].id = None
  BY DEF ThreadsFit, StepFits
<1>2. ~Holds(cmds[t])
  BY <1>1 DEF Holds, Locked
<1>3. Idles(cmds[t])
  BY DEF Idles, Adds
<1> QED
  BY <1>1, <1>2, <1>3

(* A thread takes something up: a command, or the next profile at startup. *)
TakesUp(t, l) ==
  /\ cmds' = [cmds EXCEPT ![t] = l] /\ l \in Threaded
  /\ StepFits(l) /\ BuildFits(l) /\ ~Holds(l) /\ Idles(l) /\ l.at # "build"
  /\ DOMAIN l.all \subseteq DOMAIN cmds[t].all
  /\ l.op \in Asking =>
       /\ l.id \notin DOMAIN store \cup DOMAIN cmds[Startup].all
       /\ \A u \in Threads : l.id # cmds[u].id
  /\ l.op \notin Asking =>
       \A u \in Threads \ {t} : cmds[u].op \in Asking => cmds[u].id # l.id

LEMMA TakesUpKeeps ==
  ASSUME ProfInv, NEW t \in Threads, NEW l, TakesUp(t, l), cmds[t].at \in {"idle", "next"},
         UNCHANGED <<store, dirs, files, install, lock, building, failures, unsure>>,
         ops' \in 0..MaxOps
  PROVE  ProfInv'
<1> USE ProfilesAssumption
<1>1. Alone(t) /\ cmds'[t] = l /\ l \in Threaded
  BY ThreadGoes DEF TakesUp, ProfInv, ThreadsFit
<1>2. ~Holds(cmds[t]) /\ Idles(cmds[t]) /\ cmds[t].id = None
  BY IdleThread DEF ProfInv
<1>3. lock # t /\ lock' = lock /\ LockMoves(t) /\ building' = building /\ BuildingMoves(t)
        /\ building # t
  BY <1>2 DEF ProfInv, LocksFit, LockMoves, BuildingMoves
<1>4. store' = store /\ unsure' = unsure
  OBVIOUS
<1>5. FilesTyped'
  BY FilesKeep DEF ProfInv, FilesTyped, install, files
<1>6. ThreadsFit'
  BY <1>1, FitAfter DEF TakesUp, ProfInv, ChangeFits
<1>7. LocksFit'
  BY <1>1, <1>3, LocksAfter DEF TakesUp, ProfInv
<1>8. lock' # None => lock' = lock /\ lock \in Threads /\ cmds'[lock] = cmds[lock]
  BY <1>1, <1>3 DEF Alone, ProfInv, LocksFit
<1>9. Loaded'
  BY <1>4, <1>8 DEF ProfInv, Loaded
<1>10. SlugsApart'
  BY SMTT(30), <1>4, <1>8 DEF ProfInv, SlugsApart, Marked, Clash
<1>11. IdsApart'
  <2>1. ASSUME NEW u \in Threads, cmds'[u].op \in Asking
        PROVE  cmds'[u].id \notin DOMAIN store' /\ cmds'[u].id \notin DOMAIN cmds'[Startup].all
    <3>1. Startup \in Threads /\ DOMAIN cmds'[Startup].all \subseteq DOMAIN cmds[Startup].all
      BY <1>1 DEF Threads, Alone, TakesUp
    <3>2. CASE u = t
      BY <1>1, <1>4, <2>1, <3>1, <3>2 DEF TakesUp
    <3>3. CASE u # t
      BY <1>1, <1>4, <2>1, <3>1, <3>3 DEF ProfInv, IdsApart, Alone
    <3> QED
      BY <3>2, <3>3
  <2>2. ASSUME NEW u \in Threads, cmds'[u].op \in Asking, NEW w \in Threads \ {u}
        PROVE  cmds'[w].id # cmds'[u].id
    <3>1. CASE u = t
      BY <1>1, <2>2, <3>1 DEF TakesUp, Alone
    <3>2. CASE u # t /\ w = t /\ l.op \in Asking
      BY <1>1, <2>2, <3>2 DEF TakesUp, Alone
    <3>3. CASE u # t /\ w = t /\ l.op \notin Asking
      BY <1>1, <2>2, <3>3 DEF TakesUp, Alone
    <3>4. CASE u # t /\ w # t
      BY <1>1, <2>2, <3>4 DEF ProfInv, IdsApart, Alone
    <3> QED
      BY <3>1, <3>2, <3>3, <3>4
  <2> QED
    BY <2>1, <2>2 DEF IdsApart
<1>12. cmds[t].at # "build" /\ cmds'[t].at # "build"
  BY <1>1 DEF TakesUp
<1>13. LaunchersDue'
  <2>1. ASSUME NEW p \in Profiles \ unsure, NEW s \in Surfaces, NEW n
        PROVE  (Due(p, s, n)' <=> Due(p, s, n)) /\ (Out(p, n)' <=> Out(p, n))
    BY <1>1, <1>2, <1>3, <1>4, <1>12, DueSame, OutStays DEF TakesUp, ProfInv
  <2>2. \A q, n : (OpensIt(n, q)' <=> OpensIt(n, q)) /\ (RunsIt(n, q)' <=> RunsIt(n, q))
    BY DEF OpensIt, RunsIt, files
  <2>3. "gui" \in Surfaces /\ "cli" \in Surfaces
    BY DEF Surfaces
  <2>4. ASSUME NEW p \in Profiles \ unsure
        PROVE  BundleDue(p)' /\ WrapperDue(p)'
    <3>1. BundleDue(p) /\ WrapperDue(p)
      BY DEF ProfInv, LaunchersDue
    <3>2. BundleDue(p)'
      BY <2>1, <2>2, <2>3, <3>1 DEF BundleDue
    <3>3. WrapperDue(p)'
      BY <2>1, <2>2, <2>3, <3>1 DEF WrapperDue
    <3> QED
      BY <3>2, <3>3
  <2> QED
    BY <1>4, <2>4 DEF LaunchersDue
<1>14. PlaceFree'
  BY <1>1, <1>12 DEF ProfInv, PlaceFree, Alone, files
<1> QED
  BY <1>5, <1>6, <1>7, <1>9, <1>10, <1>11, <1>13, <1>14 DEF ProfInv

(* The commands begin.                                                     *)
Begins(op, id, new, build, at) ==
  /\ id \in Profiles /\ new \in Profile /\ build \subseteq Surfaces \cup {"name", "icon"}
  /\ \/ op \in Locked /\ at = "lock"
     \/ op = "regenerate" /\ at \in {"gui", "cli"} /\ at \in build
     \/ op = "import" /\ at = "copy"
  /\ op \in {"create", "import", "regenerate"} => build = new.surfaces
  /\ op = "toggle" => build \subseteq Surfaces
  /\ op = "import" => build # {}
  /\ IF op \in Asking THEN Fresh(id) ELSE id \in DOMAIN store

LEMMA AskStarts ==
  ASSUME ProfInv, NEW t \in Commands, NEW op, NEW id, NEW new, NEW build, NEW at,
         Begins(op, id, new, build, at), Start(t, op, id, new, build, at)
  PROVE  ProfInv'
<1> USE ProfilesAssumption
<1> DEFINE r == [Idle EXCEPT !.op = op, !.at = at, !.id = id, !.new = new, !.build = build]
<1>1. t \in Threads /\ Startup \in Threads
  BY DEF Threads
<1>2. op \in AllOps /\ at \in AllAts
  BY DEF Begins, Locked, AllOps, AllAts, Unlocked
<1>3. r \in Threaded
  BY <1>2, ListsAre DEF Begins, Threaded, Idle
<1>4. r.op = op /\ r.at = at /\ r.id = id /\ r.new = new /\ r.build = build /\ DOMAIN r.all = {}
  <2>1. DOMAIN <<>> = {}
    OBVIOUS
  <2> QED
    BY <2>1 DEF Idle
<1>5. cmds' = [cmds EXCEPT ![t] = r] /\ cmds[t].at = "idle"
  BY DEF Start
<1> HIDE DEF r
<1>6. StepFits(r)
  BY <1>4 DEF StepFits, Begins, Locked
<1>7. BuildFits(r)
  BY <1>4 DEF BuildFits, Begins, Locked, Asking
<1>8. ~Holds(r) /\ Idles(r) /\ r.at # "build"
  BY <1>4 DEF Holds, Idles, Adds, Begins, Locked
<1>9. op \in Asking => /\ id \notin DOMAIN store \cup DOMAIN cmds[Startup].all
                       /\ \A u \in Threads : id # cmds[u].id
  BY <1>1 DEF Begins, Fresh
<1>10. op \notin Asking => \A u \in Threads \ {t} : cmds[u].op \in Asking => cmds[u].id # id
  BY DEF Begins, ProfInv, IdsApart
<1>11. TakesUp(t, r)
  BY <1>3, <1>4, <1>5, <1>6, <1>7, <1>8, <1>9, <1>10 DEF TakesUp
<1>12. ops' \in 0..MaxOps
  BY DEF Start, ProfInv, FilesTyped
<1> QED
  BY <1>1, <1>5, <1>11, <1>12, TakesUpKeeps DEF Start

LEMMA Listed ==
  ASSUME ProfInv, NEW p \in DOMAIN store
  PROVE  p \in Profiles /\ store[p] \in Profile /\ store[p].surfaces \subseteq Surfaces
<1>1. p \in Profiles /\ store[p] \in Profile
  BY ListsAre DEF ProfInv, FilesTyped
<1> QED
  BY <1>1 DEF Profile

LEMMA AskKeeps ==
  ASSUME ProfInv, NEW t \in Commands,
         Create(t) \/ Update(t) \/ Delete(t) \/ Toggle(t) \/ Stamp(t) \/ Regenerate(t) \/ Import(t)
  PROVE  ProfInv'
<1> USE ProfilesAssumption
<1>1. ASSUME Create(t) PROVE ProfInv'
  <2>1. PICK p \in Profiles, n \in Names, s \in Shapes, i \in BOOLEAN :
          Fresh(p) /\ Start(t, "create", p, [name |-> n, surfaces |-> s, icon |-> i], s, "lock")
    BY <1>1 DEF Create
  <2>2. Begins("create", p, [name |-> n, surfaces |-> s, icon |-> i], s, "lock")
    BY <2>1 DEF Begins, Profile, Locked, Asking
  <2> QED
    BY <2>1, <2>2, AskStarts
<1>2. ASSUME Update(t) PROVE ProfInv'
  <2>1. PICK p \in DOMAIN store :
        \/ \E n \in Names : Start(t, "update", p, [store[p] EXCEPT !.name = n], {"name"}, "lock")
        \/ Start(t, "update", p, [store[p] EXCEPT !.icon = ~@], {"icon"}, "lock")
    BY <1>2 DEF Update
  <2>2. p \in Profiles /\ store[p] \in Profile
    BY Listed
  <2>3. ASSUME NEW n \in Names,
               Start(t, "update", p, [store[p] EXCEPT !.name = n], {"name"}, "lock")
        PROVE  ProfInv'
    <3>1. Begins("update", p, [store[p] EXCEPT !.name = n], {"name"}, "lock")
      BY <2>2 DEF Begins, Profile, Locked, Asking
    <3> QED
      BY <2>3, <3>1, AskStarts
  <2>4. ASSUME Start(t, "update", p, [store[p] EXCEPT !.icon = ~@], {"icon"}, "lock")
        PROVE  ProfInv'
    <3>1. Begins("update", p, [store[p] EXCEPT !.icon = ~@], {"icon"}, "lock")
      BY <2>2 DEF Begins, Profile, Locked, Asking
    <3> QED
      BY <2>4, <3>1, AskStarts
  <2> QED
    BY <2>1, <2>3, <2>4
<1>3. ASSUME Delete(t) PROVE ProfInv'
  <2>1. PICK p \in DOMAIN store : Start(t, "delete", p, store[p], {}, "lock")
    BY <1>3 DEF Delete
  <2>2. Begins("delete", p, store[p], {}, "lock")
    BY Listed DEF Begins, Locked, Asking
  <2> QED
    BY <2>1, <2>2, AskStarts
<1>4. ASSUME Toggle(t) PROVE ProfInv'
  <2>1. PICK p \in DOMAIN store, s \in Surfaces :
          Start(t, "toggle", p, store[p], {s}, "lock")
    BY <1>4 DEF Toggle
  <2>2. Begins("toggle", p, store[p], {s}, "lock")
    BY Listed DEF Begins, Locked, Asking
  <2> QED
    BY <2>1, <2>2, AskStarts
<1>5. ASSUME Stamp(t) PROVE ProfInv'
  <2>1. PICK p \in DOMAIN store : Start(t, "stamp", p, store[p], {}, "lock")
    BY <1>5 DEF Stamp
  <2>2. Begins("stamp", p, store[p], {}, "lock")
    BY Listed DEF Begins, Locked, Asking
  <2> QED
    BY <2>1, <2>2, AskStarts
<1>6. ASSUME Regenerate(t) PROVE ProfInv'
  <2>1. PICK p \in DOMAIN store :
          /\ store[p].surfaces # {}
          /\ Start(t, "regenerate", p, store[p], store[p].surfaces, First(store[p].surfaces))
    BY <1>6 DEF Regenerate
  <2>2. First(store[p].surfaces) \in {"gui", "cli"} /\ First(store[p].surfaces) \in store[p].surfaces
    BY <2>1, Listed DEF First, Surfaces
  <2>3. Begins("regenerate", p, store[p], store[p].surfaces, First(store[p].surfaces))
    BY <2>2, Listed DEF Begins, Locked, Asking
  <2> QED
    BY <2>1, <2>3, AskStarts
<1>7. ASSUME Import(t) PROVE ProfInv'
  <2>1. PICK p \in Profiles, n \in Names, s \in Shapes :
          /\ Fresh(p) /\ s # {}
          /\ Start(t, "import", p, [name |-> n, surfaces |-> s, icon |-> FALSE], s, "copy")
    BY <1>7 DEF Import
  <2>2. Begins("import", p, [name |-> n, surfaces |-> s, icon |-> FALSE], s, "copy")
    BY <2>1 DEF Begins, Profile, Locked, Asking
  <2> QED
    BY <2>1, <2>2, AskStarts
<1> QED
  BY <1>1, <1>2, <1>3, <1>4, <1>5, <1>6, <1>7

LEMMA RefreshKeeps == ASSUME ProfInv, Refresh PROVE ProfInv'
<1> USE ProfilesAssumption
<1> DEFINE k == cmds[Startup]
           up(p) == [k EXCEPT !.all = Removed(@, p), !.id = p, !.new = k.all[p],
                              !.build = {"gui"}, !.at = "gui"]
           on(p) == [k EXCEPT !.all = Removed(@, p)]
           due(p) == "gui" \in k.all[p].surfaces /\ k.all[p].name \in outdated
<1>1. Startup \in Threads /\ k \in Threaded /\ k.at = "next" /\ k.op = "refresh"
  BY DEF Threads, ProfInv, ThreadsFit, StepFits, Refresh
<1>2. PICK p \in DOMAIN k.all :
        cmds' = [cmds EXCEPT ![Startup] = IF due(p) THEN up(p) ELSE on(p)]
  BY DEF Refresh
<1>3. p \in Profiles /\ k.all[p] \in Profile /\ k.all \in AllLists /\ Removed(k.all, p) \in AllLists
        /\ DOMAIN Removed(k.all, p) \subseteq DOMAIN k.all
  BY <1>1, ListsAre, RemovedLess DEF Threaded
<1>4. CASE due(p)
  <2> DEFINE l == up(p)
  <2>1. cmds' = [cmds EXCEPT ![Startup] = l]
    BY <1>2, <1>4
  <2>2. l \in Threaded /\ l.op = "refresh" /\ l.at = "gui" /\ l.id = p /\ l.new = k.all[p]
          /\ l.build = {"gui"} /\ l.all = Removed(k.all, p)
    <3>1. "gui" \in AllAts /\ "gui" \in Surfaces
      BY DEF AllAts, Surfaces
    <3> QED
      BY <1>1, <1>3, <3>1 DEF Threaded
  <2> HIDE DEF l, k
  <2>3. StepFits(l) /\ BuildFits(l) /\ ~Holds(l) /\ Idles(l)
    BY <2>2, <1>3, <1>4 DEF StepFits, BuildFits, Holds, Locked, Idles, Adds, Asking
  <2>4. \A u \in Threads : cmds[u].op \in Asking => cmds[u].id # p
    BY DEF k, ProfInv, IdsApart
  <2>5. TakesUp(Startup, l)
    BY <1>3, <2>1, <2>2, <2>3, <2>4 DEF TakesUp, Asking, k
  <2> QED
    BY <1>1, <2>5, TakesUpKeeps DEF Refresh, ProfInv, FilesTyped, k
<1>5. CASE ~due(p)
  <2> DEFINE l == on(p)
  <2>1. cmds' = [cmds EXCEPT ![Startup] = l]
    BY <1>2, <1>5
  <2>2. l \in Threaded /\ l.op = "refresh" /\ l.at = "next" /\ l.id = k.id /\ l.new = k.new
          /\ l.build = k.build /\ l.all = Removed(k.all, p)
    BY <1>1, <1>3 DEF Threaded
  <2>3. k.id = None
    BY <1>1, IdleThread DEF ProfInv
  <2> HIDE DEF l, k
  <2>4. StepFits(l) /\ BuildFits(l) /\ ~Holds(l) /\ Idles(l)
    BY <2>2, <2>3 DEF StepFits, BuildFits, Holds, Locked, Idles, Adds, Asking
  <2>5. \A u \in Threads : cmds[u].op \in Asking => cmds[u].id # None
    BY DEF ProfInv, ThreadsFit, StepFits, Asking
  <2>6. TakesUp(Startup, l)
    BY <1>3, <2>1, <2>2, <2>3, <2>4, <2>5 DEF TakesUp, Asking, k
  <2> QED
    BY <1>1, <2>6, TakesUpKeeps DEF Refresh, ProfInv, FilesTyped, k
<1> QED
  BY <1>4, <1>5

LEMMA OverIdles == ASSUME NEW k, NEW l, Over(k, l) PROVE Idles(l)
BY DEF Over, Idles, Adds

(* Steps that leave the launchers alone.                                   *)
LEMMA QuietKeeps ==
  ASSUME ProfInv, NEW t \in Threads, UNCHANGED files, store' = store, unsure \subseteq unsure',
         cmds[t].at # "build", cmds'[t].at # "build",
         \/ Goes(t) /\ Idles(cmds[t]) /\ Idles(cmds'[t])
         \/ Ends(t) /\ (cmds[t].id \in unsure' \/ (lock # t /\ Idles(cmds[t])))
  PROVE  LaunchersDue' /\ PlaceFree'
<1> USE ProfilesAssumption
<1>1. Alone(t) /\ LockMoves(t)
  BY DEF Goes, Ends, LockMoves
<1>2. \A q, n : (OpensIt(n, q)' <=> OpensIt(n, q)) /\ (RunsIt(n, q)' <=> RunsIt(n, q))
  BY DEF OpensIt, RunsIt, files
<1>3. ASSUME NEW q \in Profiles \ unsure'
      PROVE  BundleDue(q)' /\ WrapperDue(q)'
  <2>1. CASE Ends(t) /\ cmds[t].id \in unsure'
    <3>1. q # cmds[t].id /\ q # cmds'[t].id
      BY <2>1 DEF Ends, Over
    <3> QED
      BY <1>1, <1>2, <3>1, OthersKeep DEF ProfInv
  <2>2. CASE ~(Ends(t) /\ cmds[t].id \in unsure')
    <3>1. ASSUME NEW s \in Surfaces, NEW n
          PROVE  (Due(q, s, n)' <=> Due(q, s, n)) /\ (Out(q, n)' <=> Out(q, n))
      <4>1. Out(q, n)' <=> Out(q, n)
        BY <1>1, OutStays
      <4>2. CASE Goes(t) /\ Idles(cmds[t]) /\ Idles(cmds'[t])
        BY <4>1, <4>2, DueGoes DEF Idles, ProfInv
      <4>3. CASE Ends(t) /\ lock # t /\ Idles(cmds[t])
        <5>1. lock' = lock /\ Idles(cmds'[t])
          BY <4>3, OverIdles DEF Ends
        <5> QED
          BY <1>1, <4>1, <4>3, <5>1, DueSame DEF ProfInv
      <4> QED
        BY <2>2, <4>2, <4>3
    <3>2. "gui" \in Surfaces /\ "cli" \in Surfaces
      BY DEF Surfaces
    <3>3. BundleDue(q) /\ WrapperDue(q)
      BY DEF ProfInv, LaunchersDue
    <3>4. BundleDue(q)'
      BY <1>2, <3>1, <3>2, <3>3 DEF BundleDue
    <3>5. WrapperDue(q)'
      BY <1>2, <3>1, <3>2, <3>3 DEF WrapperDue
    <3> QED
      BY <3>4, <3>5
  <2> QED
    BY <2>1, <2>2
<1>4. PlaceFree'
  BY <1>1 DEF ProfInv, PlaceFree, Alone, files
<1> QED
  BY <1>3, <1>4 DEF LaunchersDue

(* A step that is one of its thread's steps and no more than that.         *)
LEMMA StepGoes ==
  ASSUME ProfInv, NEW t \in Threads, NEW at \in AllAts, Goto(t, at), UNCHANGED <<lock, building>>,
         cmds[t].at # "build", at # "build"
  PROVE  Goes(t) /\ Alone(t) /\ cmds'[t].at = at /\ GoesOn(cmds[t], cmds'[t])
<1>1. Alone(t) /\ cmds'[t].at = at /\ GoesOn(cmds[t], cmds'[t])
  BY GotoGoesOn DEF ProfInv, ThreadsFit
<1>2. building' # t
  BY DEF ProfInv, LocksFit
<1> QED
  BY <1>1, <1>2 DEF Goes, BuildingMoves

LEMMA StepEnds ==
  ASSUME ProfInv, NEW t \in Threads, Return(t), UNCHANGED building, cmds[t].at # "build"
  PROVE  Ends(t) /\ Alone(t) /\ cmds'[t].at # "build"
<1>1. Alone(t) /\ Over(cmds[t], cmds'[t])
  BY ReturnEnds DEF ProfInv, ThreadsFit
<1>2. building' # t
  BY DEF ProfInv, LocksFit
<1>3. cmds'[t].at # "build"
  BY <1>1, OverFits
<1> QED
  BY <1>1, <1>2, <1>3 DEF Ends, BuildingMoves, Return

LEMMA WhoIsAt ==
  ASSUME ThreadsFit, NEW t \in Threads
  PROVE  /\ cmds[t] \in Threaded /\ StepFits(cmds[t]) /\ BuildFits(cmds[t]) /\ ChangeFits(cmds[t])
         /\ cmds[t].at \in {"copy", "gui away", "cli away"} => cmds[t].op = "import"
         /\ cmds[t].at = "trash" => cmds[t].op = "delete"
         /\ cmds[t].at = "tidy" => cmds[t].op = "update"
         /\ cmds[t].at \in {"lock", "save"} => cmds[t].op \in Locked \cup {"import"}
         /\ cmds[t].at \in {"gui", "build"} =>
              cmds[t].op \in {"create", "toggle", "update", "import", "regenerate", "refresh"}
         /\ cmds[t].at = "cli" =>
              cmds[t].op \in {"create", "toggle", "update", "import", "regenerate"}
         /\ cmds[t].at \notin {"idle", "next"} => cmds[t].id \in Profiles /\ cmds[t].new \in Profile
<1>1. cmds[t] \in Threaded /\ StepFits(cmds[t]) /\ BuildFits(cmds[t]) /\ ChangeFits(cmds[t])
  BY DEF ThreadsFit
<1>2. cmds[t].op \in AllOps
  BY <1>1 DEF Threaded
<1> DEFINE k == cmds[t]
<1> HIDE DEF k
<1>3. StepFits(k) /\ k.op \in AllOps
  BY <1>1, <1>2 DEF k
<1>4. /\ k.at \in {"copy", "gui away", "cli away"} => k.op = "import"
      /\ k.at = "trash" => k.op = "delete"
      /\ k.at = "tidy" => k.op = "update"
      /\ k.at \in {"lock", "save"} => k.op \in Locked \cup {"import"}
  BY <1>3 DEF StepFits, AllOps, Locked, Unlocked
<1>5. /\ k.at \in {"gui", "build"} =>
           k.op \in {"create", "toggle", "update", "import", "regenerate", "refresh"}
      /\ k.at = "cli" => k.op \in {"create", "toggle", "update", "import", "regenerate"}
      /\ k.at \notin {"idle", "next"} => k.id \in Profiles /\ k.new \in Profile
  BY <1>3 DEF StepFits, AllOps, Locked, Unlocked
<1> QED
  BY <1>1, <1>4, <1>5 DEF k

LEMMA ImportCopyKeeps == ASSUME ProfInv, NEW t \in Commands, Copy(t) PROVE ProfInv'
<1> USE ProfilesAssumption
<1>1. t \in Threads /\ cmds[t].at = "copy" /\ cmds[t].op = "import" /\ StepFits(cmds[t])
        /\ cmds[t].id \in Profiles
  BY WhoIsAt DEF Threads, Copy, ProfInv
<1>2. ~Holds(cmds[t]) /\ lock # t /\ Idles(cmds[t])
  BY <1>1 DEF Holds, Locked, Idles, Adds, ProfInv, LocksFit
<1>3. UNCHANGED <<store, files, install, building, ops, unsure>>
  BY DEF Copy
<1>4. ASSUME Goto(t, "gui away"), dirs' = dirs \cup {cmds[t].id}, UNCHANGED <<lock, failures>>
      PROVE  ProfInv'
  <2>1. Goes(t) /\ cmds'[t].at = "gui away" /\ GoesOn(cmds[t], cmds'[t])
    BY <1>1, <1>3, <1>4, StepGoes DEF AllAts
  <2>2. StepFits(cmds'[t]) /\ ~Holds(cmds'[t]) /\ Idles(cmds'[t])
    BY <1>1, <2>1 DEF StepFits, GoesOn, Holds, Locked, Idles, Adds
  <2>3. Around'
    BY <1>1, <1>2, <1>3, <2>1, <2>2, GoesKeeps DEF ProfInv, Around
  <2>4. LaunchersDue' /\ PlaceFree'
    BY <1>1, <1>2, <1>3, <2>1, <2>2, QuietKeeps
  <2>5. FilesTyped'
    BY <1>1, <1>3, <1>4, FilesKeep DEF ProfInv, FilesTyped, install
  <2> QED
    BY <2>3, <2>4, <2>5 DEF ProfInv, Around
<1>5. ASSUME Fails, Return(t), UNCHANGED dirs PROVE ProfInv'
  <2>1. Ends(t) /\ cmds'[t].at # "build"
    BY <1>1, <1>3, <1>5, StepEnds
  <2>2. Around'
    BY <1>1, <1>3, <2>1, EndsKeeps DEF ProfInv, Around
  <2>3. LaunchersDue' /\ PlaceFree'
    BY <1>1, <1>2, <1>3, <2>1, QuietKeeps
  <2>4. failures' \in 0..MaxFailures
    BY <1>5 DEF Fails, ProfInv, FilesTyped
  <2>5. FilesTyped'
    BY <1>3, <1>5, <2>4, FilesKeep DEF ProfInv, FilesTyped, install
  <2> QED
    BY <2>2, <2>3, <2>5 DEF ProfInv, Around
<1> QED
  BY <1>4, <1>5 DEF Copy

LEMMA GiveBackTyped ==
  ASSUME FilesTyped, NEW p \in Profiles, GiveBack(p)
  PROVE  /\ stock' \in [Surfaces -> Install] /\ backups' \in [Profiles -> [Surfaces -> Install]]
         /\ dirs' \subseteq Profiles
<1>1. backups[p] \in [Surfaces -> Install] /\ stock \in [Surfaces -> Install]
  BY DEF FilesTyped
<1>2. stock' \in [Surfaces -> Install]
  BY <1>1 DEF GiveBack
<1>3. [s \in Surfaces |-> "none"] \in [Surfaces -> Install]
  BY DEF Install
<1>4. backups' \in [Profiles -> [Surfaces -> Install]]
  BY <1>3 DEF GiveBack, FilesTyped
<1>5. dirs' \subseteq Profiles
  BY DEF GiveBack, FilesTyped
<1> QED
  BY <1>2, <1>4, <1>5

LEMMA FailsTyped ==
  ASSUME FilesTyped, Fails \/ UNCHANGED failures
  PROVE  failures' \in 0..MaxFailures
BY ProfilesAssumption DEF Fails, FilesTyped

LEMMA PutAway ==
  ASSUME FilesTyped, NEW p \in Profiles, NEW s \in Surfaces,
         backups' = [backups EXCEPT ![p][s] = stock[s]]
  PROVE  backups' \in [Profiles -> [Surfaces -> Install]]
<1> DEFINE g == [backups[p] EXCEPT ![s] = stock[s]]
<1>1. backups[p] \in [Surfaces -> Install] /\ stock[s] \in Install
  BY DEF FilesTyped
<1>2. g \in [Surfaces -> Install]
  BY <1>1
<1>3. backups' = [backups EXCEPT ![p] = g]
  OBVIOUS
<1> HIDE DEF g
<1> QED
  BY <1>2, <1>3 DEF FilesTyped

LEMMA AwayKeeps ==
  ASSUME ProfInv, NEW t \in Commands, NEW s \in Surfaces, MoveAway(t, s)
  PROVE  ProfInv'
<1> USE ProfilesAssumption
<1> DEFINE next == IF s = "gui" THEN "cli away" ELSE First(cmds[t].build)
<1>1. /\ t \in Threads /\ cmds[t].at \in {"gui away", "cli away"} /\ cmds[t].op = "import"
      /\ cmds[t].id \in Profiles /\ StepFits(cmds[t]) /\ BuildFits(cmds[t])
      /\ cmds[t].new \in Profile
  BY WhoIsAt DEF Threads, MoveAway, ProfInv
<1>2. ~Holds(cmds[t]) /\ lock # t /\ Idles(cmds[t])
  BY <1>1 DEF Holds, Locked, Idles, Adds, ProfInv, LocksFit
<1>3. UNCHANGED <<store, files, building, ops, unsure>>
  BY DEF MoveAway
<1>4. next \in {"cli away", "gui", "cli"} /\ (next # "cli away" => next \in cmds[t].build)
        /\ next \in AllAts /\ (next = "cli" => "gui" \notin cmds[t].build)
  <2>1. cmds[t].build \subseteq Surfaces /\ cmds[t].build # {}
    BY <1>1 DEF BuildFits, Asking, Profile
  <2> QED
    BY <2>1 DEF First, Surfaces, AllAts
<1>5. ASSUME Goto(t, next), UNCHANGED <<dirs, lock, failures>>,
             stock' \in [Surfaces -> Install], backups' \in [Profiles -> [Surfaces -> Install]]
      PROVE  ProfInv'
  <2> HIDE DEF next
  <2>1. Goes(t) /\ cmds'[t].at = next /\ GoesOn(cmds[t], cmds'[t])
    BY <1>1, <1>3, <1>4, <1>5, StepGoes
  <2>2. StepFits(cmds'[t]) /\ ~Holds(cmds'[t]) /\ Idles(cmds'[t])
    BY <1>1, <1>4, <2>1 DEF StepFits, GoesOn, Holds, Locked, Idles, Adds
  <2>3. Around'
    BY <1>1, <1>2, <1>3, <1>4, <2>1, <2>2, GoesKeeps DEF ProfInv, Around
  <2>4. LaunchersDue' /\ PlaceFree'
    BY <1>1, <1>2, <1>3, <1>4, <2>1, <2>2, QuietKeeps
  <2>5. FilesTyped'
    BY <1>1, <1>3, <1>5, FilesKeep DEF ProfInv, FilesTyped
  <2> QED
    BY <2>3, <2>4, <2>5 DEF ProfInv, Around
<1>6. ASSUME UNCHANGED failures \/ Fails, GiveBack(cmds[t].id), Return(t) PROVE ProfInv'
  <2>1. Ends(t) /\ cmds'[t].at # "build"
    BY <1>1, <1>3, <1>6, StepEnds
  <2>2. Around'
    BY <1>1, <1>3, <2>1, EndsKeeps DEF ProfInv, Around
  <2>3. LaunchersDue' /\ PlaceFree'
    BY <1>1, <1>2, <1>3, <2>1, QuietKeeps
  <2>4. failures' \in 0..MaxFailures
    BY <1>6, FailsTyped DEF ProfInv
  <2>5. /\ stock' \in [Surfaces -> Install] /\ backups' \in [Profiles -> [Surfaces -> Install]]
        /\ dirs' \subseteq Profiles
    BY <1>1, <1>6, GiveBackTyped DEF ProfInv
  <2>6. FilesTyped'
    BY <1>3, <2>4, <2>5, FilesKeep DEF ProfInv, FilesTyped
  <2> QED
    BY <2>2, <2>3, <2>6 DEF ProfInv, Around
<1>7. \/ Goto(t, next) /\ UNCHANGED <<dirs, install, lock, failures>>
      \/ /\ stock' = [stock EXCEPT ![s] = "none"]
         /\ backups' = [backups EXCEPT ![cmds[t].id][s] = stock[s]]
         /\ Goto(t, next) /\ UNCHANGED <<dirs, lock, failures>>
      \/ (UNCHANGED failures \/ Fails) /\ GiveBack(cmds[t].id) /\ Return(t)
  BY DEF MoveAway
<1>8. stock \in [Surfaces -> Install] /\ backups \in [Profiles -> [Surfaces -> Install]]
        /\ "none" \in Install
  BY DEF ProfInv, FilesTyped, Install
<1> HIDE DEF next
<1>9. CASE Goto(t, next) /\ UNCHANGED <<dirs, install, lock, failures>>
  BY <1>5, <1>8, <1>9 DEF install
<1>10. CASE /\ stock' = [stock EXCEPT ![s] = "none"]
            /\ backups' = [backups EXCEPT ![cmds[t].id][s] = stock[s]]
            /\ Goto(t, next) /\ UNCHANGED <<dirs, lock, failures>>
  <2>1. stock' \in [Surfaces -> Install]
    BY <1>8, <1>10
  <2>2. backups' \in [Profiles -> [Surfaces -> Install]]
    BY <1>1, <1>10, PutAway DEF ProfInv
  <2> QED
    BY <1>5, <1>10, <2>1, <2>2
<1>11. CASE (UNCHANGED failures \/ Fails) /\ GiveBack(cmds[t].id) /\ Return(t)
  BY <1>6, <1>11
<1> QED
  BY <1>7, <1>9, <1>10, <1>11

LEMMA TrashKeeps == ASSUME ProfInv, NEW t \in Commands, Trash(t) PROVE ProfInv'
<1> USE ProfilesAssumption
<1>1. t \in Threads /\ cmds[t].at = "trash" /\ cmds[t].op = "delete" /\ StepFits(cmds[t])
        /\ cmds[t].id \in Profiles /\ ChangeFits(cmds[t])
  BY WhoIsAt DEF Threads, Trash, ProfInv
<1>2. Holds(cmds[t]) /\ Idles(cmds[t]) /\ cmds[t].build = {}
  BY <1>1 DEF Holds, Locked, Idles, Adds, ChangeFits, Asking
<1>3. UNCHANGED <<store, files, install, building, ops>>
  BY DEF Trash
<1>4. ASSUME Goto(t, "save"), dirs' = dirs \ {cmds[t].id}, UNCHANGED <<lock, failures, unsure>>
      PROVE  ProfInv'
  <2>1. Goes(t) /\ cmds'[t].at = "save" /\ GoesOn(cmds[t], cmds'[t])
    BY <1>1, <1>3, <1>4, StepGoes DEF AllAts
  <2>2. StepFits(cmds'[t]) /\ Holds(cmds'[t]) /\ Idles(cmds'[t])
    BY <1>1, <1>2, <2>1 DEF StepFits, GoesOn, Holds, Locked, Idles, Adds
  <2>3. Around'
    BY <1>1, <1>2, <1>3, <1>4, <2>1, <2>2, GoesKeeps DEF ProfInv, Around
  <2>4. LaunchersDue' /\ PlaceFree'
    BY <1>1, <1>2, <1>3, <1>4, <2>1, <2>2, QuietKeeps
  <2>5. FilesTyped'
    BY <1>1, <1>3, <1>4, FilesKeep DEF ProfInv, FilesTyped, install
  <2> QED
    BY <2>3, <2>4, <2>5 DEF ProfInv, Around
<1>5. ASSUME Fails, Return(t), UNCHANGED dirs, unsure' = unsure \cup {cmds[t].id}
      PROVE  ProfInv'
  <2>1. Ends(t) /\ cmds'[t].at # "build"
    BY <1>1, <1>3, <1>5, StepEnds
  <2>2. Around'
    BY <1>1, <1>3, <1>5, <2>1, EndsKeeps DEF ProfInv, Around
  <2>3. LaunchersDue' /\ PlaceFree'
    BY <1>1, <1>2, <1>3, <1>5, <2>1, QuietKeeps
  <2>4. failures' \in 0..MaxFailures
    BY <1>5, FailsTyped DEF ProfInv
  <2>5. FilesTyped'
    BY <1>1, <1>3, <1>5, <2>4, FilesKeep DEF ProfInv, FilesTyped, install
  <2> QED
    BY <2>2, <2>3, <2>5 DEF ProfInv, Around
<1> QED
  BY <1>4, <1>5 DEF Trash

LEMMA RecreateKeeps == ASSUME ProfInv, NEW s \in Surfaces, Recreate(s) PROVE ProfInv'
<1>1. stock' \in [Surfaces -> Install]
  BY DEF Recreate, ProfInv, FilesTyped, Install
<1>2. UNCHANGED <<store, dirs, bundles, outdated, wrappers, backups, lock, building, cmds, ops,
                  failures, unsure>>
  BY DEF Recreate, files
<1>3. FilesTyped'
  BY <1>1, <1>2 DEF ProfInv, FilesTyped
<1>4. ThreadsFit' /\ LocksFit' /\ Loaded' /\ IdsApart'
  BY <1>2 DEF ProfInv, ThreadsFit, LocksFit, Loaded, IdsApart
<1>5. SlugsApart' /\ PlaceFree'
  <2>1. SlugsApart /\ PlaceFree
    BY DEF ProfInv
  <2>2. SlugsApart'
    BY SMTT(30), <1>2, <2>1 DEF SlugsApart, Marked, Clash
  <2>3. PlaceFree'
    BY <1>2, <2>1 DEF PlaceFree
  <2> QED
    BY <2>2, <2>3
<1>6. LaunchersDue'
  <2>1. ASSUME NEW q, NEW w, NEW n
        PROVE  (Due(q, w, n)' <=> Due(q, w, n)) /\ (Out(q, n)' <=> Out(q, n))
    <3>1. Out(q, n)' <=> Out(q, n)
      BY <1>2 DEF Out
    <3>2. (Keeps(q, w) /\ Before(q)[q].name = n)' <=> Keeps(q, w) /\ Before(q)[q].name = n
      BY <1>2 DEF Keeps, Before, Changing
    <3> QED
      BY <1>2, <3>1, <3>2 DEF Due, Adds
  <2>2. \A q, n : (OpensIt(n, q)' <=> OpensIt(n, q)) /\ (RunsIt(n, q)' <=> RunsIt(n, q))
    BY <1>2 DEF OpensIt, RunsIt
  <2>3. ASSUME NEW q \in Profiles \ unsure PROVE BundleDue(q)' /\ WrapperDue(q)'
    <3>1. BundleDue(q) /\ WrapperDue(q)
      BY DEF ProfInv, LaunchersDue
    <3>2. BundleDue(q)'
      BY <2>1, <2>2, <3>1 DEF BundleDue
    <3>3. WrapperDue(q)'
      BY <2>1, <2>2, <3>1 DEF WrapperDue
    <3> QED
      BY <3>2, <3>3
  <2> QED
    BY <1>2, <2>3 DEF LaunchersDue
<1> QED
  BY <1>3, <1>4, <1>5, <1>6 DEF ProfInv

(* The threads as the app starts them.                                     *)
LEMMA FreshThreads ==
  ASSUME NEW f \in AllLists, NEW g, g = [u \in Threads |-> IF u = Startup THEN Begun(f) ELSE Idle]
  PROVE  /\ g \in [Threads -> Threaded]
         /\ \A u \in Threads : /\ StepFits(g[u]) /\ BuildFits(g[u]) /\ ChangeFits(g[u])
                               /\ ~Holds(g[u]) /\ Idles(g[u]) /\ g[u].at # "build"
                               /\ g[u].op \notin Asking /\ g[u].id = None
<1>1. ASSUME NEW l, l = Idle \/ l = Begun(f)
      PROVE  /\ l \in Threaded /\ StepFits(l) /\ BuildFits(l) /\ ChangeFits(l)
             /\ ~Holds(l) /\ Idles(l) /\ l.at # "build" /\ l.op \notin Asking /\ l.id = None
  <2>1. Idle \in Threaded
    BY IdleTyped
  <2>2. Begun(f) \in Threaded
    BY <2>1 DEF Begun, Threaded, AllOps, AllAts, Unlocked
  <2>3. \/ l.op = "none" /\ l.at = "idle" /\ l.id = None
        \/ l.op = "refresh" /\ l.at = "next" /\ l.id = None
    <3>1. Idle.op = "none" /\ Idle.at = "idle" /\ Idle.id = None
      BY DEF Idle
    <3>2. Begun(f).op = "refresh" /\ Begun(f).at = "next" /\ Begun(f).id = None
      BY DEF Idle, Begun
    <3> QED
      BY <1>1, <3>1, <3>2
  <2>4. StepFits(l) /\ BuildFits(l) /\ ChangeFits(l) /\ ~Holds(l)
    BY <2>3 DEF StepFits, BuildFits, ChangeFits, Holds, Locked, Asking
  <2>5. Idles(l) /\ l.at # "build" /\ l.op \notin Asking
    BY <2>3 DEF Idles, Adds, Asking
  <2> QED
    BY <1>1, <2>1, <2>2, <2>3, <2>4, <2>5
<1> QED
  BY <1>1

LEMMA AppQuitKeeps == ASSUME ProfInv, Quit PROVE ProfInv'
<1> USE ProfilesAssumption
<1>1. UNCHANGED <<store, dirs, files, install, failures>> /\ lock' = None /\ building' = None
  BY DEF Quit
<1>2. /\ cmds' \in [Threads -> Threaded]
      /\ \A u \in Threads : /\ StepFits(cmds'[u]) /\ BuildFits(cmds'[u]) /\ ChangeFits(cmds'[u])
                            /\ ~Holds(cmds'[u]) /\ Idles(cmds'[u]) /\ cmds'[u].at # "build"
                            /\ cmds'[u].op \notin Asking /\ cmds'[u].id = None
  BY FreshThreads DEF Quit, ProfInv, FilesTyped
<1>3. unsure \subseteq unsure' /\ \A u \in Threads : cmds[u].id \in Profiles => cmds[u].id \in unsure'
  BY DEF Quit, ProfInv, FilesTyped
<1>4. unsure' \subseteq Profiles
  <2>1. \A u \in Threads : cmds[u].id \in Profiles \cup {None} /\ cmds[u].parked \in Profiles \cup {None}
    BY DEF ProfInv, ThreadsFit, Threaded
  <2> QED
    BY <2>1 DEF Quit, ProfInv, FilesTyped
<1>5. FilesTyped'
  <2>1. ops' \in 0..MaxOps
    BY DEF Quit, ProfInv, FilesTyped
  <2> QED
    BY <1>1, <1>4, <2>1, FilesKeep DEF ProfInv, FilesTyped, install
<1>6. ThreadsFit' /\ LocksFit' /\ Loaded' /\ IdsApart' /\ PlaceFree'
  BY <1>1, <1>2 DEF ThreadsFit, LocksFit, Loaded, IdsApart, PlaceFree
<1>7. SlugsApart'
  BY <1>1, <1>3 DEF ProfInv, SlugsApart, Marked, Clash
<1>8. LaunchersDue'
  <2>1. \A q, n : (OpensIt(n, q)' <=> OpensIt(n, q)) /\ (RunsIt(n, q)' <=> RunsIt(n, q))
    BY <1>1 DEF OpensIt, RunsIt, files
  <2>2. ASSUME NEW q \in Profiles \ unsure', NEW s, NEW n
        PROVE  (Due(q, s, n)' <=> Due(q, s, n)) /\ (Out(q, n)' <=> Out(q, n))
    <3>1. \A u \in Threads : cmds[u].id # q /\ cmds'[u].id # q
      BY <1>2, <1>3
    <3>2. Out(q, n)' <=> Out(q, n)
      BY <3>1 DEF Out
    <3>3. ~Changing(q) /\ ~(Changing(q))'
      BY <1>1, <3>1 DEF Changing, ProfInv, LocksFit
    <3>4. (Keeps(q, s) /\ Before(q)[q].name = n)' <=> Keeps(q, s) /\ Before(q)[q].name = n
      BY <1>1, <3>3 DEF Keeps, Before
    <3> QED
      BY <3>1, <3>2, <3>4 DEF Due
  <2>3. ASSUME NEW q \in Profiles \ unsure' PROVE BundleDue(q)' /\ WrapperDue(q)'
    <3>1. BundleDue(q) /\ WrapperDue(q)
      BY <1>3 DEF ProfInv, LaunchersDue
    <3>2. BundleDue(q)'
      BY <2>1, <2>2, <3>1 DEF BundleDue
    <3>3. WrapperDue(q)'
      BY <2>1, <2>2, <3>1 DEF WrapperDue
    <3> QED
      BY <3>2, <3>3
  <2> QED
    BY <2>3 DEF LaunchersDue
<1> QED
  BY <1>5, <1>6, <1>7, <1>8 DEF ProfInv

(* Who is marked when launchers go or come.                                *)
LEMMA DoubtMarks ==
  ASSUME NEW t \in Threads, NEW owners, Doubt(t, owners)
  PROVE  /\ unsure \subseteq unsure'
         /\ \A q \in owners : q \in unsure' \/ q = cmds[t].id
                                \/ (cmds[t].op \notin Unlocked /\ q \in DOMAIN store)
         /\ cmds[t].op \in {"regenerate", "refresh"} =>
              \/ cmds[t].id \in unsure'
              \/ /\ lock = None /\ cmds[t].id \in DOMAIN store
                 /\ store[cmds[t].id] = cmds[t].new
         /\ unsure \subseteq Profiles /\ owners \subseteq Profiles /\ cmds[t].id \in Profiles
              => unsure' \subseteq Profiles
<1>1. unsure \subseteq unsure'
  BY DEF Doubt
<1>2. ASSUME NEW q \in owners
      PROVE  q \in unsure' \/ q = cmds[t].id \/ (cmds[t].op \notin Unlocked /\ q \in DOMAIN store)
  BY DEF Doubt
<1>3. ASSUME cmds[t].op \in {"regenerate", "refresh"}, cmds[t].id \notin unsure'
      PROVE  lock = None /\ cmds[t].id \in DOMAIN store /\ store[cmds[t].id] = cmds[t].new
  BY <1>3 DEF Doubt, Unlocked
<1>4. ASSUME unsure \subseteq Profiles, owners \subseteq Profiles, cmds[t].id \in Profiles
      PROVE  unsure' \subseteq Profiles
  BY <1>4 DEF Doubt
<1> QED
  BY <1>1, <1>2, <1>3, <1>4

LEMMA OwnersTyped ==
  ASSUME FilesTyped, NEW r, NEW which
  PROVE  Owners(r, which) \subseteq Profiles
BY DEF FilesTyped, Owners, Owner, Range

LEMMA BuilderApart ==
  ASSUME ProfInv, NEW t \in Threads, cmds[t].at \in {"gui", "build", "cli"},
         cmds[t].op \notin Unlocked, NEW q \in DOMAIN store, q \notin unsure, q # cmds[t].id
  PROVE  ~OpensIt(cmds[t].new.name, q) /\ ~RunsIt(SlugOf[cmds[t].new.name], q)
<1>1. cmds[t].op \in {"create", "toggle", "update"} /\ cmds[t].new \in Profile
  BY WhoIsAt DEF ProfInv, Unlocked
<1>2. lock = t
  BY <1>1 DEF ProfInv, LocksFit, Holds, Locked
<1>3. \A n, s : SlugOf[n] = SlugOf[cmds[t].new.name] => ~Due(q, s, n)
  BY <1>1, <1>2, NotTheirs DEF ProfInv, Around
<1>4. q \in Profiles \ unsure
  BY Listed
<1> QED
  BY <1>1, <1>3, <1>4, NotOwned DEF ProfInv

LEMMA NoOwner ==
  ASSUME ProfInv, NEW t \in Threads, cmds[t].at \in {"gui", "build", "cli"}, NEW which,
         Doubt(t, Owners(cmds[t].new, which)), NEW q \in Profiles \ unsure', q # cmds[t].id
  PROVE  /\ "gui" \in which => ~OpensIt(cmds[t].new.name, q)
         /\ "cli" \in which => ~RunsIt(SlugOf[cmds[t].new.name], q)
<1>1. CASE q \notin Owners(cmds[t].new, which)
  BY <1>1, OwnersAre
<1>2. CASE q \in Owners(cmds[t].new, which)
  <2>1. cmds[t].op \notin Unlocked /\ q \in DOMAIN store /\ q \notin unsure
    BY <1>2, DoubtMarks
  <2> QED
    BY <2>1, BuilderApart
<1> QED
  BY <1>1, <1>2

LEMMA BuildKeeps == ASSUME ProfInv, NEW t \in Threads, Build(t) PROVE ProfInv'
<1> USE ProfilesAssumption
<1> DEFINE k == cmds[t]
           l == [k EXCEPT !.at = "build",
                  !.parked = IF k.new.icon /\ k.new.name \in DOMAIN bundles
                             THEN bundles[k.new.name] ELSE None]
<1>1. /\ k.at = "gui" /\ building = None /\ building' = t
      /\ UNCHANGED <<store, dirs, install, lock, ops, failures>>
      /\ RemoveLaunchers(k.new, {"gui"}) /\ Doubt(t, Owners(k.new, {"gui"}))
      /\ cmds' = [cmds EXCEPT ![t] = l]
  BY DEF Build
<1>2. /\ k \in Threaded /\ StepFits(k) /\ k.id \in Profiles /\ k.new \in Profile
      /\ k.op \in {"create", "toggle", "update", "import", "regenerate", "refresh"}
  BY <1>1, WhoIsAt DEF ProfInv
<1>3. l \in Threaded /\ l.at = "build" /\ GoesOn(k, l)
  <2>1. k.new.name \in DOMAIN bundles => bundles[k.new.name] \in Profiles
    BY DEF ProfInv, FilesTyped, Range
  <2>2. "build" \in AllAts
    BY DEF AllAts
  <2> QED
    BY <1>2, <2>1, <2>2 DEF Threaded, GoesOn
<1> HIDE DEF l
<1>4. Alone(t) /\ cmds'[t] = l
  BY <1>1, <1>3, ThreadGoes DEF ProfInv, ThreadsFit
<1>5. Goes(t) /\ LockMoves(t)
  BY <1>1, <1>3, <1>4 DEF Goes, BuildingMoves, LockMoves
<1>6. StepFits(l) /\ (Holds(l) <=> Holds(k)) /\ Idles(k) /\ Idles(l)
  BY <1>1, <1>2, <1>3 DEF StepFits, GoesOn, Holds, Idles, Adds
<1>7. unsure \subseteq unsure' /\ unsure' \subseteq Profiles
  BY <1>1, <1>2, DoubtMarks, OwnersTyped DEF ProfInv, FilesTyped
<1>8. Around'
  BY <1>1, <1>3, <1>4, <1>5, <1>6, <1>7, GoesKeeps DEF ProfInv, Around
<1>9. \A u \in Threads : cmds[u].at # "build"
  BY <1>1 DEF ProfInv, LocksFit
<1>10. FilesTyped'
  BY <1>1, <1>7, FilesKeep DEF ProfInv, FilesTyped, install
<1>11. PlaceFree'
  <2>1. k.new.name \notin DOMAIN bundles'
    BY <1>1 DEF RemoveLaunchers, Removed
  <2> QED
    BY <1>3, <1>4, <1>9, <2>1 DEF PlaceFree, Alone, GoesOn
<1>12. ASSUME NEW q \in Profiles \ unsure' PROVE BundleDue(q)' /\ WrapperDue(q)'
  <2>1. \A n : /\ OpensIt(n, q)' <=> OpensIt(n, q) /\ n # k.new.name
               /\ RunsIt(n, q)' <=> RunsIt(n, q)
    BY <1>1, RemovedOnes
  <2>2. CASE q # k.id
    <3>1. ~OpensIt(k.new.name, q)
      BY <1>1, <2>2, NoOwner
    <3>2. q # cmds'[t].id
      BY <1>3, <1>4, <2>2 DEF GoesOn
    <3> QED
      BY <1>1, <1>4, <1>5, <1>7, <2>1, <2>2, <3>1, <3>2, OthersKeep DEF ProfInv
  <2>3. CASE q = k.id
    <3>1. ASSUME NEW s \in Surfaces, NEW n PROVE Due(q, s, n)' <=> Due(q, s, n)
      BY <1>1, <1>4, <1>5, <1>6, DueGoes DEF Idles, ProfInv
    <3>2. ASSUME NEW n PROVE ~Out(q, n) /\ (Out(q, n)' <=> n = k.new.name)
      BY <1>3, <1>4, <1>9, <2>3 DEF Out, Alone, GoesOn
    <3>3. BundleDue(q) /\ WrapperDue(q) /\ "gui" \in Surfaces /\ "cli" \in Surfaces
      BY <1>7 DEF ProfInv, LaunchersDue, Surfaces
    <3>4. BundleDue(q)'
      BY <2>1, <3>1, <3>2, <3>3 DEF BundleDue
    <3>5. WrapperDue(q)'
      BY <2>1, <3>1, <3>3 DEF WrapperDue
    <3> QED
      BY <3>4, <3>5
  <2> QED
    BY <2>2, <2>3
<1>13. LaunchersDue'
  BY <1>12 DEF LaunchersDue
<1> QED
  BY <1>8, <1>10, <1>11, <1>13 DEF ProfInv, Around

(* What a thread does once a launcher stands.                              *)
GoesToNext(t) ==
  \/ cmds[t].at = "build" /\ "cli" \in cmds[t].build /\ Goto(t, "cli") /\ UNCHANGED lock
  \/ (cmds[t].at = "build" => "cli" \notin cmds[t].build) /\ Built(t)

NowStands(k, s) ==
  /\ k.op \notin {"regenerate", "refresh"} /\ s \in k.build
  /\ s = "gui" \/ k.at = "cli"

LEMMA NextGoes ==
  ASSUME ProfInv, NEW t \in Threads, cmds[t].at \in {"build", "cli"}, GoesToNext(t),
         building' = IF cmds[t].at = "build" THEN None ELSE building,
         store' = store, unsure \subseteq unsure'
  PROVE  /\ Around' /\ Alone(t) /\ LockMoves(t) /\ cmds'[t].at # "build"
         /\ cmds'[t].id \in {cmds[t].id, None}
         /\ \A s \in Surfaces, q \in Profiles : \A n :
              Due(q, s, n)' <=> \/ Due(q, s, n)
                                \/ q = cmds[t].id /\ NowStands(cmds[t], s) /\ n = cmds[t].new.name
<1> USE ProfilesAssumption
<1> DEFINE k == cmds[t]
<1>1. /\ k \in Threaded /\ StepFits(k) /\ BuildFits(k) /\ k.id \in Profiles /\ k.new \in Profile
      /\ k.op \in {"create", "toggle", "update", "import", "regenerate", "refresh"}
  BY WhoIsAt DEF ProfInv
<1>2. BuildingMoves(t) /\ building' # t
  BY DEF BuildingMoves, ProfInv, LocksFit
<1>3. ASSUME NEW at \in {"cli", "lock", "save"}, Goto(t, at), UNCHANGED lock,
             at = "cli" => k.at = "build" /\ "cli" \in k.build,
             at # "cli" => /\ k.at = "build" => "cli" \notin k.build
                           /\ k.op \notin {"regenerate", "refresh"}
                           /\ at = "lock" <=> k.op = "import"
      PROVE  /\ Around' /\ Alone(t) /\ LockMoves(t) /\ cmds'[t].at # "build"
             /\ cmds'[t].id \in {cmds[t].id, None}
             /\ \A s \in Surfaces, q \in Profiles : \A n :
                  Due(q, s, n)' <=> \/ Due(q, s, n)
                                    \/ q = k.id /\ NowStands(k, s) /\ n = k.new.name
  <2>1. Alone(t) /\ cmds'[t].at = at /\ GoesOn(k, cmds'[t])
    <3>1. at \in AllAts
      BY <1>3 DEF AllAts
    <3>2. cmds \in [Threads -> Threaded]
      BY DEF ProfInv, ThreadsFit
    <3> QED
      BY <1>3, <3>1, <3>2, GotoGoesOn
  <2>2. Goes(t) /\ LockMoves(t)
    BY <1>2, <1>3, <2>1 DEF Goes, LockMoves
  <2>3. k.op # "refresh"
    BY <1>1, <1>3 DEF BuildFits
  <2> DEFINE l == cmds'[t]
  <2>4. l.at = at /\ GoesOn(k, l)
    BY <2>1
  <2> HIDE DEF k, l
  <2>5. StepFits(l)
    BY <1>1, <1>3, <2>3, <2>4 DEF StepFits, GoesOn
  <2>6. Holds(l) <=> Holds(k)
    BY <1>1, <1>3, <2>4 DEF GoesOn, Holds, Locked, k
  <2>7. Around'
    <3>1. l.at # "tidy" /\ k.at # "tidy" /\ k.at # "next" /\ (l.at = "lock" => k.op = "import")
      BY <1>3, <2>4 DEF k
    <3> QED
      BY <2>2, <2>5, <2>6, <3>1, GoesKeeps DEF ProfInv, Around, k, l
  <2>8. ASSUME NEW s \in Surfaces
        PROVE  /\ Adds(k, s) => Adds(l, s)
               /\ Adds(l, s) <=> Adds(k, s) \/ NowStands(k, s)
    <3>1. k.at \in {"build", "cli"}
      BY DEF k
    <3> QED
      BY <1>1, <1>3, <2>4, <3>1 DEF GoesOn, Adds, NowStands, Surfaces
  <2>9. ASSUME NEW s \in Surfaces, NEW q \in Profiles, NEW n
        PROVE  Due(q, s, n)' <=> \/ Due(q, s, n)
                                 \/ q = k.id /\ NowStands(k, s) /\ n = k.new.name
    <3>1. Due(q, s, n)' <=> Due(q, s, n) \/ (k.id = q /\ Adds(l, s) /\ k.new.name = n)
      BY <2>2, <2>8, DueGoes DEF ProfInv, k, l
    <3>2. k.id = q /\ Adds(k, s) /\ k.new.name = n => Due(q, s, n)
      BY DEF k, Due
    <3> QED
      BY <2>8, <3>1, <3>2
  <2> QED
    BY <1>3, <2>1, <2>2, <2>4, <2>7, <2>9 DEF GoesOn, k
<1>4. ASSUME Return(t), k.op \in {"regenerate", "refresh"}
      PROVE  /\ Around' /\ Alone(t) /\ LockMoves(t) /\ cmds'[t].at # "build"
             /\ cmds'[t].id \in {cmds[t].id, None}
             /\ \A s \in Surfaces, q \in Profiles : \A n :
                  Due(q, s, n)' <=> \/ Due(q, s, n)
                                    \/ q = k.id /\ NowStands(k, s) /\ n = k.new.name
  <2>1. Alone(t) /\ Over(k, cmds'[t])
    BY <1>4, ReturnEnds DEF ProfInv, ThreadsFit
  <2>2. Ends(t) /\ cmds'[t].at # "build" /\ Idles(cmds'[t]) /\ cmds'[t].id = None
    BY <1>2, <1>4, <2>1, OverFits, OverIdles DEF Ends, Return, Over
  <2>3. ~Holds(k) /\ Idles(k)
    BY <1>4 DEF Holds, Locked, Idles, Adds
  <2>4. lock # t /\ lock' = lock /\ LockMoves(t)
    BY <1>4, <2>3 DEF ProfInv, LocksFit, Return, LockMoves
  <2>5. Around'
    BY <2>2, EndsKeeps DEF ProfInv, Around
  <2>6. \A s \in Surfaces : ~NowStands(k, s)
    BY <1>4 DEF NowStands
  <2>7. ASSUME NEW s \in Surfaces, NEW q \in Profiles, NEW n
        PROVE  Due(q, s, n)' <=> Due(q, s, n)
    BY <2>1, <2>2, <2>3, <2>4, DueSame DEF ProfInv
  <2> QED
    BY <2>1, <2>2, <2>4, <2>5, <2>6, <2>7
<1>5. CASE k.at = "build" /\ "cli" \in k.build /\ Goto(t, "cli") /\ UNCHANGED lock
  BY <1>3, <1>5
<1>6. CASE (k.at = "build" => "cli" \notin k.build) /\ Built(t)
  <2>1. CASE k.op \in {"regenerate", "refresh"}
    <3>1. Return(t)
      BY <1>6, <2>1 DEF Built
    <3> QED
      BY <1>4, <2>1, <3>1
  <2>2. CASE k.op = "import"
    <3>1. Goto(t, "lock") /\ UNCHANGED lock
      BY <1>6, <2>2 DEF Built
    <3> QED
      BY <1>3, <1>6, <2>2, <3>1
  <2>3. CASE k.op \notin {"regenerate", "refresh", "import"}
    <3>1. Goto(t, "save") /\ UNCHANGED lock
      BY <1>6, <2>3 DEF Built
    <3> QED
      BY <1>3, <1>6, <2>3, <3>1
  <2> QED
    BY <2>1, <2>2, <2>3
<1> QED
  BY <1>5, <1>6 DEF GoesToNext

(* A thread without the lock builds what is in the list already, or marks  *)
(* the profile.                                                            *)
LEMMA SureDue ==
  ASSUME ProfInv, NEW t \in Threads, cmds[t].at \in {"build", "cli"},
         cmds[t].op \in {"regenerate", "refresh"}, lock = None,
         cmds[t].id \in DOMAIN store, store[cmds[t].id] = cmds[t].new,
         NEW s \in {"gui", "cli"}, s \in cmds[t].build
  PROVE  Due(cmds[t].id, s, cmds[t].new.name)
<1>1. s \in cmds[t].new.surfaces
  BY WhoIsAt DEF ProfInv, BuildFits, Asking
<1> QED
  BY <1>1 DEF Due, Keeps, Before, Changing

LEMMA BuildEndsKeeps == ASSUME ProfInv, NEW t \in Threads, BuildEnds(t) PROVE ProfInv'
<1> USE ProfilesAssumption
<1> DEFINE k == cmds[t]
<1>1. /\ k.at = "build" /\ building' = None /\ building = t
      /\ UNCHANGED <<store, dirs, outdated, wrappers, install, ops, failures>>
      /\ bundles' = Put(bundles, k.new.name, k.id) /\ Doubt(t, Owners(k.new, {"gui"}))
      /\ GoesToNext(t)
  BY DEF BuildEnds, GoesToNext, ProfInv, LocksFit
<1>2. /\ k.id \in Profiles /\ k.new \in Profile /\ k.new.name \in Names /\ "gui" \in k.build
  BY <1>1, WhoIsAt DEF ProfInv, Profile, StepFits
<1>3. /\ unsure \subseteq unsure' /\ unsure' \subseteq Profiles
      /\ k.op \in {"regenerate", "refresh"} =>
           k.id \in unsure' \/ (lock = None /\ k.id \in DOMAIN store /\ store[k.id] = k.new)
  BY <1>1, <1>2, DoubtMarks, OwnersTyped DEF ProfInv, FilesTyped
<1>4. /\ Around' /\ Alone(t) /\ LockMoves(t) /\ cmds'[t].at # "build"
      /\ cmds'[t].id \in {k.id, None}
      /\ \A s \in Surfaces, q \in Profiles : \A n :
           Due(q, s, n)' <=> Due(q, s, n) \/ (q = k.id /\ NowStands(k, s) /\ n = k.new.name)
  BY <1>1, <1>3, NextGoes
<1>5. FilesTyped'
  <2>1. DOMAIN bundles' \subseteq Names /\ Range(bundles') \subseteq Profiles
          /\ DOMAIN bundles \subseteq DOMAIN bundles'
    <3>1. DOMAIN bundles \subseteq Names /\ Range(bundles) \subseteq Profiles
      BY DEF ProfInv, FilesTyped
    <3>2. /\ DOMAIN bundles' = DOMAIN bundles \cup {k.new.name}
          /\ Range(bundles') \subseteq Range(bundles) \cup {k.id}
      <4>1. bundles' = Put(bundles, k.new.name, k.id)
        BY <1>1
      <4> HIDE DEF k
      <4> QED
        BY <4>1 DEF Put, Range
    <3> QED
      BY <1>2, <3>1, <3>2
  <2> QED
    BY <1>1, <1>3, <2>1 DEF ProfInv, FilesTyped, install
<1>6. \A u \in Threads : u # t => cmds[u].at # "build"
  BY <1>1 DEF ProfInv, LocksFit
<1>7. \A u \in Threads : cmds'[u].at # "build"
  BY <1>4, <1>6 DEF Alone
<1>8. PlaceFree'
  BY <1>7 DEF PlaceFree
<1>9. ASSUME NEW q \in Profiles \ unsure' PROVE BundleDue(q)' /\ WrapperDue(q)'
  <2>1. \A n : OpensIt(n, q)' <=> IF n = k.new.name THEN k.id = q ELSE OpensIt(n, q)
    BY <1>1, PutOpens
  <2>2. \A n : RunsIt(n, q)' <=> RunsIt(n, q)
    BY <1>1 DEF RunsIt
  <2>3. ~OpensIt(k.new.name, q)
    BY <1>1 DEF ProfInv, PlaceFree, OpensIt
  <2>4. CASE q # k.id
    <3>1. \A n \in Names : OpensIt(n, q)' <=> OpensIt(n, q)
      BY <2>1, <2>3, <2>4
    <3>2. q # cmds'[t].id
      BY <1>4, <2>4
    <3> QED
      BY <1>1, <1>3, <1>4, <2>2, <2>4, <3>1, <3>2, OthersKeep DEF ProfInv
  <2>5. CASE q = k.id
    <3>1. ASSUME NEW n PROVE ~(Out(q, n)') /\ (Out(q, n) <=> n = k.new.name)
      BY <1>1, <1>6, <1>7, <2>5 DEF Out
    <3>2. BundleDue(q) /\ WrapperDue(q) /\ "gui" \in Surfaces /\ "cli" \in Surfaces
      BY <1>3 DEF ProfInv, LaunchersDue, Surfaces
    <3>3. ASSUME NEW n, n = k.new.name PROVE Due(q, "gui", n)'
      <4>1. CASE k.op \in {"regenerate", "refresh"}
        <5>1. Due(q, "gui", k.new.name)
          BY <1>1, <1>2, <1>3, <2>5, <4>1, SureDue
        <5> QED
          BY <1>4, <3>2, <3>3, <5>1
      <4>2. CASE k.op \notin {"regenerate", "refresh"}
        <5>1. NowStands(k, "gui")
          BY <1>2, <4>2 DEF NowStands
        <5> QED
          BY <1>2, <1>4, <2>5, <3>2, <3>3, <5>1
      <4> QED
        BY <4>1, <4>2
    <3>4. ASSUME NEW n, n # k.new.name PROVE Due(q, "gui", n)' <=> Due(q, "gui", n)
      BY <1>4, <3>2, <3>4
    <3>5. ASSUME NEW n PROVE Due(q, "cli", n)' <=> Due(q, "cli", n)
      <4>1. ~NowStands(k, "cli")
        BY <1>1 DEF NowStands
      <4> QED
        BY <1>4, <3>2, <4>1
    <3>6. BundleDue(q)'
      <4> SUFFICES ASSUME NEW n \in Names
                   PROVE  (OpensIt(n, q) <=> Due(q, "gui", n) /\ ~Out(q, n))'
        BY DEF BundleDue
      <4>1. OpensIt(n, q) <=> Due(q, "gui", n) /\ ~Out(q, n)
        BY <3>2 DEF BundleDue
      <4> QED
        BY <2>1, <2>5, <3>1, <3>3, <3>4, <4>1
    <3>7. WrapperDue(q)'
      BY <2>2, <3>2, <3>5 DEF WrapperDue
    <3> QED
      BY <3>6, <3>7
  <2> QED
    BY <2>4, <2>5
<1>10. LaunchersDue'
  BY <1>9 DEF LaunchersDue
<1> QED
  BY <1>4, <1>5, <1>8, <1>10 DEF ProfInv, Around

LEMMA CliKeeps == ASSUME ProfInv, NEW t \in Threads, Cli(t) PROVE ProfInv'
<1> USE ProfilesAssumption
<1> DEFINE k == cmds[t]
<1>1. /\ k.at = "cli" /\ UNCHANGED <<store, dirs, bundles, outdated, install, building, ops, failures>>
      /\ wrappers' = Put(wrappers, SlugOf[k.new.name], k.id) /\ Doubt(t, Owners(k.new, {"cli"}))
      /\ GoesToNext(t)
  BY DEF Cli, GoesToNext
<1>2. /\ k.id \in Profiles /\ k.new \in Profile /\ k.new.name \in Names /\ "cli" \in k.build
      /\ SlugOf[k.new.name] \in Slugs
  BY <1>1, WhoIsAt DEF ProfInv, Profile, StepFits, Slugs
<1>3. /\ unsure \subseteq unsure' /\ unsure' \subseteq Profiles
      /\ k.op \in {"regenerate", "refresh"} =>
           k.id \in unsure' \/ (lock = None /\ k.id \in DOMAIN store /\ store[k.id] = k.new)
  BY <1>1, <1>2, DoubtMarks, OwnersTyped DEF ProfInv, FilesTyped
<1>4. /\ Around' /\ Alone(t) /\ LockMoves(t) /\ cmds'[t].at # "build"
      /\ cmds'[t].id \in {k.id, None}
      /\ \A s \in Surfaces, q \in Profiles : \A n :
           Due(q, s, n)' <=> Due(q, s, n) \/ (q = k.id /\ NowStands(k, s) /\ n = k.new.name)
  BY <1>1, <1>3, NextGoes
<1>5. FilesTyped'
  <2>1. DOMAIN wrappers' \subseteq Slugs /\ Range(wrappers') \subseteq Profiles
    <3>1. DOMAIN wrappers \subseteq Slugs /\ Range(wrappers) \subseteq Profiles
      BY DEF ProfInv, FilesTyped
    <3>2. /\ DOMAIN wrappers' = DOMAIN wrappers \cup {SlugOf[k.new.name]}
          /\ Range(wrappers') \subseteq Range(wrappers) \cup {k.id}
      <4>1. wrappers' = Put(wrappers, SlugOf[k.new.name], k.id)
        BY <1>1
      <4> HIDE DEF k
      <4> QED
        BY <4>1 DEF Put, Range
    <3> QED
      BY <1>2, <3>1, <3>2
  <2> QED
    BY <1>1, <1>3, <2>1 DEF ProfInv, FilesTyped, install
<1>6. PlaceFree'
  BY <1>1, <1>4 DEF ProfInv, PlaceFree, Alone
<1>7. ASSUME NEW q \in Profiles \ unsure' PROVE BundleDue(q)' /\ WrapperDue(q)'
  <2>1. \A z : RunsIt(z, q)' <=> IF z = SlugOf[k.new.name] THEN k.id = q ELSE RunsIt(z, q)
    BY <1>1, PutRuns
  <2>2. \A n : OpensIt(n, q)' <=> OpensIt(n, q)
    BY <1>1 DEF OpensIt
  <2>3. CASE q # k.id
    <3>1. ~RunsIt(SlugOf[k.new.name], q)
      BY <1>1, <2>3, NoOwner
    <3>2. \A z \in Slugs : RunsIt(z, q)' <=> RunsIt(z, q)
      BY <2>1, <2>3, <3>1
    <3>3. q # cmds'[t].id
      BY <1>4, <2>3
    <3> QED
      BY <1>1, <1>3, <1>4, <2>2, <2>3, <3>2, <3>3, OthersKeep DEF ProfInv
  <2>4. CASE q = k.id
    <3>1. BundleDue(q) /\ WrapperDue(q) /\ "gui" \in Surfaces /\ "cli" \in Surfaces
      BY <1>3 DEF ProfInv, LaunchersDue, Surfaces
    <3>2. ASSUME NEW n PROVE Out(q, n)' <=> Out(q, n)
      BY <1>1, <1>4, OutStays
    <3>3. ASSUME NEW n PROVE Due(q, "gui", n)' <=> Due(q, "gui", n)
      <4>1. CASE NowStands(k, "gui")
        <5>1. Adds(k, "gui")
          BY <1>1, <4>1 DEF NowStands, Adds
        <5>2. Due(k.id, "gui", k.new.name)
          BY <5>1 DEF Due
        <5> QED
          BY <1>4, <2>4, <3>1, <5>2
      <4>2. CASE ~NowStands(k, "gui")
        BY <1>4, <3>1, <4>2
      <4> QED
        BY <4>1, <4>2
    <3>4. ASSUME NEW n, n = k.new.name PROVE Due(q, "cli", n)'
      <4>1. CASE k.op \in {"regenerate", "refresh"}
        <5>1. Due(q, "cli", k.new.name)
          BY <1>1, <1>2, <1>3, <2>4, <4>1, SureDue
        <5> QED
          BY <1>4, <3>1, <3>4, <5>1
      <4>2. CASE k.op \notin {"regenerate", "refresh"}
        <5>1. NowStands(k, "cli")
          BY <1>1, <1>2, <4>2 DEF NowStands
        <5> QED
          BY <1>2, <1>4, <2>4, <3>1, <3>4, <5>1
      <4> QED
        BY <4>1, <4>2
    <3>5. ASSUME NEW n, n # k.new.name PROVE Due(q, "cli", n)' <=> Due(q, "cli", n)
      BY <1>4, <3>1, <3>5
    <3>6. BundleDue(q)'
      BY <2>2, <3>1, <3>2, <3>3 DEF BundleDue
    <3>7. WrapperDue(q)'
      <4> SUFFICES ASSUME NEW z \in Slugs
                   PROVE  RunsIt(z, q)' <=> \E n \in Names : SlugOf[n] = z /\ Due(q, "cli", n)'
        BY DEF WrapperDue
      <4>1. RunsIt(z, q) <=> \E n \in Names : SlugOf[n] = z /\ Due(q, "cli", n)
        BY <3>1 DEF WrapperDue
      <4>2. CASE z = SlugOf[k.new.name]
        BY <1>2, <2>1, <2>4, <3>4, <4>2
      <4>3. CASE z # SlugOf[k.new.name]
        BY <2>1, <3>5, <4>1, <4>3
      <4> QED
        BY <4>2, <4>3
    <3> QED
      BY <3>6, <3>7
  <2> QED
    BY <2>3, <2>4
<1>8. LaunchersDue'
  BY <1>7 DEF LaunchersDue
<1> QED
  BY <1>4, <1>5, <1>6, <1>8 DEF ProfInv, Around

(* A step that fails ends its command and marks the profile.               *)
LEMMA EndsMarked ==
  ASSUME ProfInv, NEW t \in Threads, Ends(t), store' = store, unsure \subseteq unsure',
         cmds[t].id \in unsure',
         \A q \in Profiles \ unsure' : \A n : /\ OpensIt(n, q)' <=> OpensIt(n, q)
                                              /\ RunsIt(n, q)' <=> RunsIt(n, q)
  PROVE  Around' /\ LaunchersDue'
<1> USE ProfilesAssumption
<1>1. Around'
  BY EndsKeeps DEF ProfInv, Around
<1>2. ASSUME NEW q \in Profiles \ unsure' PROVE BundleDue(q)' /\ WrapperDue(q)'
  <2>1. q # cmds[t].id /\ q # cmds'[t].id
    BY DEF Ends, Over
  <2>2. Alone(t) /\ LockMoves(t)
    BY DEF Ends, LockMoves
  <2> QED
    BY <2>1, <2>2, OthersKeep DEF ProfInv
<1> QED
  BY <1>1, <1>2 DEF LaunchersDue

LEMMA UndoTyped ==
  ASSUME FilesTyped, NEW t, cmds[t].id \in Profiles, Undo(t)
  PROVE  /\ stock' \in [Surfaces -> Install] /\ backups' \in [Profiles -> [Surfaces -> Install]]
         /\ dirs' \subseteq Profiles
<1>1. CASE cmds[t].op = "import"
  BY <1>1, GiveBackTyped DEF Undo
<1>2. CASE cmds[t].op # "import"
  BY <1>2 DEF Undo, FilesTyped, install
<1> QED
  BY <1>1, <1>2

LEMMA BuildFailsKeeps == ASSUME ProfInv, NEW t \in Threads, BuildFails(t) PROVE ProfInv'
<1> USE ProfilesAssumption
<1> DEFINE k == cmds[t]
<1>1. /\ k.at = "build" /\ Fails /\ building' = None /\ building = t
      /\ UNCHANGED <<store, outdated, wrappers, ops>>
      /\ bundles' = IF k.parked = None THEN bundles ELSE Put(bundles, k.new.name, k.parked)
      /\ unsure' = unsure \cup ({k.id, k.parked} \ {None})
      /\ Undo(t) /\ Return(t)
  BY DEF BuildFails, ProfInv, LocksFit
<1>2. /\ k.id \in Profiles /\ k.new \in Profile /\ k.new.name \in Names
      /\ k.parked \in Profiles \cup {None}
  BY <1>1, WhoIsAt DEF ProfInv, Profile, Threaded
<1>3. unsure \subseteq unsure' /\ unsure' \subseteq Profiles /\ k.id \in unsure'
  BY <1>1, <1>2 DEF ProfInv, FilesTyped
<1>4. Ends(t)
  <2>1. Alone(t) /\ Over(k, cmds'[t])
    BY <1>1, ReturnEnds DEF ProfInv, ThreadsFit
  <2> QED
    BY <1>1, <2>1 DEF Ends, BuildingMoves, Return
<1>5. ASSUME NEW q \in Profiles \ unsure', NEW n
      PROVE  (OpensIt(n, q)' <=> OpensIt(n, q)) /\ (RunsIt(n, q)' <=> RunsIt(n, q))
  <2>1. RunsIt(n, q)' <=> RunsIt(n, q)
    BY <1>1 DEF RunsIt
  <2>2. CASE k.parked = None
    BY <1>1, <2>1, <2>2 DEF OpensIt
  <2>3. CASE k.parked # None
    <3>1. OpensIt(n, q)' <=> IF n = k.new.name THEN k.parked = q ELSE OpensIt(n, q)
      BY <1>1, <2>3, PutOpens
    <3>2. k.parked # q
      BY <1>1, <2>3
    <3>3. ~OpensIt(k.new.name, q)
      BY <1>1 DEF ProfInv, PlaceFree, OpensIt
    <3> QED
      BY <2>1, <3>1, <3>2, <3>3
  <2> QED
    BY <2>2, <2>3
<1>6. Around' /\ LaunchersDue'
  BY <1>1, <1>3, <1>4, <1>5, EndsMarked
<1>7. FilesTyped'
  <2>1. DOMAIN bundles' \subseteq Names /\ Range(bundles') \subseteq Profiles
          /\ DOMAIN bundles \subseteq DOMAIN bundles'
    <3>1. DOMAIN bundles \subseteq Names /\ Range(bundles) \subseteq Profiles
      BY DEF ProfInv, FilesTyped
    <3>2. CASE k.parked = None
      BY <1>1, <3>1, <3>2
    <3>3. CASE k.parked # None
      <4>1. bundles' = Put(bundles, k.new.name, k.parked) /\ k.parked \in Profiles
        BY <1>1, <1>2, <3>3
      <4> HIDE DEF k
      <4>2. /\ DOMAIN bundles' = DOMAIN bundles \cup {k.new.name}
            /\ Range(bundles') \subseteq Range(bundles) \cup {k.parked}
        BY <4>1 DEF Put, Range
      <4> QED
        BY <1>2, <3>1, <4>1, <4>2
    <3> QED
      BY <3>2, <3>3
  <2>2. /\ stock' \in [Surfaces -> Install] /\ backups' \in [Profiles -> [Surfaces -> Install]]
        /\ dirs' \subseteq Profiles /\ failures' \in 0..MaxFailures
    BY <1>1, <1>2, UndoTyped, FailsTyped DEF ProfInv
  <2> QED
    BY <1>1, <1>3, <2>1, <2>2 DEF ProfInv, FilesTyped
<1>8. PlaceFree'
  <2>1. \A u \in Threads : u # t => cmds[u].at # "build"
    BY <1>1 DEF ProfInv, LocksFit
  <2>2. cmds'[t].at # "build"
    BY <1>4, OverFits DEF Ends
  <2> QED
    BY <1>4, <2>1, <2>2 DEF PlaceFree, Ends, Alone
<1> QED
  BY <1>6, <1>7, <1>8 DEF ProfInv, Around

(* Launchers that a failed command takes away mark whose they were.        *)
LEMMA TakenBack ==
  ASSUME ProfInv, NEW t \in Threads, cmds[t].at \in {"cli", "save"}, Fails, NEW which,
         RemoveLaunchers(cmds[t].new, which),
         unsure' = unsure \cup {cmds[t].id} \cup Owners(cmds[t].new, which),
         Undo(t), Return(t), UNCHANGED <<store, building, ops>>
  PROVE  ProfInv'
<1> USE ProfilesAssumption
<1> DEFINE k == cmds[t]
<1>1. k.id \in Profiles
  BY WhoIsAt DEF ProfInv
<1>2. Ends(t) /\ Alone(t) /\ cmds'[t].at # "build"
  BY StepEnds
<1>3. unsure \subseteq unsure' /\ k.id \in unsure' /\ unsure' \subseteq Profiles
  BY <1>1, OwnersTyped DEF ProfInv, FilesTyped
<1>4. ASSUME NEW q \in Profiles \ unsure', NEW n
      PROVE  (OpensIt(n, q)' <=> OpensIt(n, q)) /\ (RunsIt(n, q)' <=> RunsIt(n, q))
  <2>1. q \notin Owners(k.new, which)
    OBVIOUS
  <2>2. /\ OpensIt(n, q)' <=> OpensIt(n, q) /\ ~("gui" \in which /\ n = k.new.name)
        /\ RunsIt(n, q)' <=> RunsIt(n, q) /\ ~("cli" \in which /\ n = SlugOf[k.new.name])
    BY RemovedOnes
  <2> QED
    BY <2>1, <2>2, OwnersAre
<1>5. Around' /\ LaunchersDue'
  BY <1>2, <1>3, <1>4, EndsMarked
<1>6. FilesTyped'
  <2>1. /\ stock' \in [Surfaces -> Install] /\ backups' \in [Profiles -> [Surfaces -> Install]]
        /\ dirs' \subseteq Profiles /\ failures' \in 0..MaxFailures
    BY <1>1, UndoTyped, FailsTyped DEF ProfInv
  <2> QED
    BY <1>3, <2>1, FilesKeep DEF ProfInv, FilesTyped
<1>7. PlaceFree'
  <2>1. DOMAIN bundles' \subseteq DOMAIN bundles
    BY RemovedLess DEF RemoveLaunchers
  <2> QED
    BY <1>2, <2>1 DEF ProfInv, PlaceFree, Alone
<1> QED
  BY <1>5, <1>6, <1>7 DEF ProfInv, Around

LEMMA CliFailsKeeps == ASSUME ProfInv, NEW t \in Threads, CliFails(t) PROVE ProfInv'
BY TakenBack DEF CliFails

LEMMA SaveFailsKeeps == ASSUME ProfInv, NEW t \in Threads, SaveFails(t) PROVE ProfInv'
BY TakenBack DEF SaveFails

(* What is due to the profile in hand: while the lock is held...           *)
LEMMA OneAdds ==
  ASSUME Around, NEW t \in Threads, lock = t, NEW u \in Threads \ {t}, NEW s,
         cmds[u].id = cmds[t].id
  PROVE  ~Adds(cmds[u], s)
<1> SUFFICES ASSUME Adds(cmds[u], s) PROVE FALSE
  OBVIOUS
<1>1. cmds[u].op = "import"
  BY AddsWho DEF Around
<1> QED
  BY <1>1 DEF Around, IdsApart, Asking

LEMMA DueHeld ==
  ASSUME Around, NEW t \in Threads, lock = t, NEW s, NEW n
  PROVE  LET k == cmds[t] IN
         Due(k.id, s, n) <=>
           \/ /\ k.id \in DOMAIN k.all /\ s \in k.all[k.id].surfaces /\ k.all[k.id].name = n
              /\ k.op # "delete" /\ s \in k.new.surfaces
           \/ Adds(k, s) /\ k.new.name = n
<1> USE ProfilesAssumption
<1> DEFINE k == cmds[t]
<1>1. (\E u \in Threads : cmds[u].id = k.id /\ Adds(cmds[u], s) /\ cmds[u].new.name = n)
        <=> Adds(k, s) /\ k.new.name = n
  BY OneAdds
<1>2. Changing(k.id)
  BY DEF Changing
<1>3. Keeps(k.id, s) /\ Before(k.id)[k.id].name = n
        <=> /\ k.id \in DOMAIN k.all /\ s \in k.all[k.id].surfaces /\ k.all[k.id].name = n
            /\ k.op # "delete" /\ s \in k.new.surfaces
  BY <1>2 DEF Keeps, Before
<1> QED
  BY <1>1, <1>3 DEF Due

(* ... and once it is let go.                                              *)
LEMMA DueFree ==
  ASSUME lock' = None, NEW d, NEW s, NEW n,
         \A u \in Threads : cmds'[u].id = d => ~Adds(cmds'[u], s)
  PROVE  Due(d, s, n)' <=> d \in DOMAIN store' /\ s \in store'[d].surfaces /\ store'[d].name = n
BY DEF Due, Keeps, Before, Changing

LEMMA DueGoesHeld ==
  ASSUME Around, NEW t \in Threads, lock = t, Goes(t), NEW s, NEW n, NEW d, d = cmds[t].id,
         Adds(cmds'[t], s) <=> Adds(cmds[t], s)
  PROVE  Due(d, s, n)' <=> Due(d, s, n)
<1> USE ProfilesAssumption
<1>1. Alone(t) /\ GoesOn(cmds[t], cmds'[t]) /\ lock' = t
  BY DEF Goes
<1>2. Changing(d) /\ (Changing(d))'
  BY <1>1 DEF Changing, GoesOn
<1>3. (Keeps(d, s) /\ Before(d)[d].name = n)' <=> Keeps(d, s) /\ Before(d)[d].name = n
  BY <1>1, <1>2 DEF Keeps, Before, GoesOn
<1>4. ASSUME NEW u \in Threads
      PROVE  (cmds'[u].id = d /\ Adds(cmds'[u], s) /\ cmds'[u].new.name = n)
               <=> (cmds[u].id = d /\ Adds(cmds[u], s) /\ cmds[u].new.name = n)
  BY <1>1 DEF Alone, GoesOn
<1> QED
  BY <1>3, <1>4 DEF Due

(* The slugs of a list with one change.                                    *)
LEMMA PutMarked ==
  ASSUME SlugsApart, NEW d, NEW r, store' = Put(store, d, r), unsure \subseteq unsure',
         Clash(store, d, r.name) # {} => Clash(store, d, r.name) \cup {d} \subseteq unsure'
  PROVE  \A p \in DOMAIN store' : Marked(store, p, store[p].name)'
<1> SUFFICES ASSUME NEW p \in DOMAIN store', NEW q \in DOMAIN store' \ {p},
                    SlugOf[store'[q].name] = SlugOf[store'[p].name]
             PROVE  {p, q} \subseteq unsure'
  BY DEF Marked, Clash
<1>1. \A w \in DOMAIN store' : IF w = d THEN store'[w] = r
                                       ELSE w \in DOMAIN store /\ store'[w] = store[w]
  BY DEF Put
<1>2. CASE p = d
  <2>1. q \in Clash(store, d, r.name)
    BY <1>1, <1>2 DEF Clash
  <2> QED
    BY <1>2, <2>1
<1>3. CASE q = d
  <2>1. p \in Clash(store, d, r.name)
    BY <1>1, <1>3 DEF Clash
  <2> QED
    BY <1>3, <2>1
<1>4. CASE p # d /\ q # d
  <2>1. p \in DOMAIN store /\ q \in Clash(store, p, store[p].name)
    BY <1>1, <1>4 DEF Clash
  <2> QED
    BY <2>1 DEF SlugsApart, Marked
<1> QED
  BY <1>2, <1>3, <1>4

LEMMA RemovedMarked ==
  ASSUME SlugsApart, NEW d, store' = Removed(store, d), unsure \subseteq unsure'
  PROVE  \A p \in DOMAIN store' : Marked(store, p, store[p].name)'
<1> SUFFICES ASSUME NEW p \in DOMAIN store', NEW q \in DOMAIN store' \ {p},
                    SlugOf[store'[q].name] = SlugOf[store'[p].name]
             PROVE  {p, q} \subseteq unsure'
  BY DEF Marked, Clash
<1>1. p \in DOMAIN store /\ q \in Clash(store, p, store[p].name)
  BY DEF Removed, Clash
<1> QED
  BY <1>1 DEF SlugsApart, Marked

LEMMA SaveKeeps == ASSUME ProfInv, NEW t \in Commands, Save(t) PROVE ProfInv'
<1> USE ProfilesAssumption
<1> DEFINE k == cmds[t]
<1>1. /\ t \in Threads /\ k.at = "save" /\ k.op \in Locked \cup {"import"}
      /\ k \in Threaded /\ k.id \in Profiles /\ k.new \in Profile
      /\ StepFits(k) /\ BuildFits(k) /\ ChangeFits(k)
  BY WhoIsAt DEF Threads, Save, ProfInv
<1>2. Holds(k) /\ lock = t
  BY <1>1 DEF Holds, Locked, ProfInv, LocksFit
<1>3. UNCHANGED <<dirs, files, install, building, ops, failures>>
        /\ store' = Saved(t)
  BY DEF Save
<1>4. store = k.all
  BY <1>1, <1>2 DEF ProfInv, Loaded
<1>5. unsure \subseteq unsure' /\ unsure' \subseteq Profiles
  <2>1. DOMAIN store \subseteq Profiles
    BY ListsAre DEF ProfInv, FilesTyped
  <2> QED
    BY <1>1, <1>4, <2>1 DEF Save, ProfInv, FilesTyped
<1>6. Clash(store, k.id, k.new.name) # {}
        => Clash(store, k.id, k.new.name) \cup {k.id} \subseteq unsure'
  <2>1. CASE k.op # "import"
    <3>1. Marked(k.all, k.id, k.new.name)
      <4>1. lock # None /\ cmds[lock] = k
        BY <1>1, <1>2
      <4> HIDE DEF k
      <4> QED
        BY <2>1, <4>1 DEF ProfInv, SlugsApart
    <3> QED
      BY <1>4, <1>5, <3>1 DEF Marked
  <2>2. CASE k.op = "import"
    <3>1. SlugTaken(k.all, k.new.name, k.id) <=> Clash(store, k.id, k.new.name) # {}
      BY <1>4 DEF SlugTaken, Clash
    <3>2. SlugTaken(k.all, k.new.name, k.id) =>
            unsure' = unsure \cup {k.id}
              \cup {p \in DOMAIN k.all : SlugOf[k.all[p].name] = SlugOf[k.new.name]}
      BY <2>2 DEF Save
    <3> QED
      BY <1>4, <3>1, <3>2 DEF Clash
  <2> QED
    BY <2>1, <2>2
<1>7. /\ store' \in AllLists /\ DOMAIN store' \subseteq DOMAIN store \cup {k.id}
      /\ \A p \in DOMAIN store' : Marked(store, p, store[p].name)'
  <2>1. store \in AllLists /\ SlugsApart
    BY DEF ProfInv, FilesTyped
  <2>2. CASE k.op = "delete"
    <3>1. store' = Removed(store, k.id)
      BY <1>3, <1>4, <2>2 DEF Saved
    <3>2. store' \in AllLists /\ DOMAIN store' \subseteq DOMAIN store
      BY <1>1, <2>1, <3>1, ListsAre, RemovedLess
    <3> QED
      BY <1>5, <2>1, <3>1, <3>2, RemovedMarked
  <2>3. CASE k.op # "delete"
    <3>1. store' = Put(store, k.id, k.new)
      BY <1>3, <1>4, <2>3 DEF Saved
    <3>2. store' \in AllLists
      BY <1>1, <2>1, <3>1, ListsAre
    <3>3. DOMAIN store' = DOMAIN store \cup {k.id}
      BY <3>1 DEF Put
    <3> QED
      BY <1>5, <1>6, <2>1, <3>1, <3>2, <3>3, PutMarked
  <2> QED
    BY <2>2, <2>3
<1>8. FilesTyped'
  BY <1>3, <1>5, <1>7, FilesKeep DEF ProfInv, FilesTyped, install
<1>9. \A q \in Profiles : \A n : (OpensIt(n, q)' <=> OpensIt(n, q)) /\ (RunsIt(n, q)' <=> RunsIt(n, q))
  BY <1>3 DEF OpensIt, RunsIt, files
<1>10. \A p : p # k.id => /\ p \in DOMAIN store' <=> p \in DOMAIN store
                          /\ p \in DOMAIN store => store'[p] = store[p]
  BY <1>3, <1>4 DEF Saved, Put, Removed
<1>11. building # t /\ building' = building
  BY <1>1, <1>3 DEF ProfInv, LocksFit
<1>12. ASSUME Alone(t), LockMoves(t), cmds'[t].id \in {k.id, None}, cmds'[t].op \in {k.op, "none"},
              cmds'[t].at # "build", DOMAIN cmds'[t].all \subseteq DOMAIN k.all,
              cmds'[t].op \in Asking => FALSE,
              StepFits(cmds'[t]), BuildFits(cmds'[t]), ChangeFits(cmds'[t]),
              lock' = t <=> Holds(cmds'[t]),
              Loaded',
              lock' # None => cmds'[t].op # "import" /\ lock' = t /\ GoesOn(k, cmds'[t]),
              \A d, s, n : d = k.id /\ s \in Surfaces => (Due(d, s, n)' <=> Due(d, s, n))
       PROVE  ProfInv'
  <2>1. ThreadsFit' /\ LocksFit'
    <3>1. BuildingMoves(t) /\ building' # t
      BY <1>11 DEF BuildingMoves
    <3> QED
      BY <1>1, <1>12, <3>1, FitAfter, LocksAfter DEF ProfInv
  <2>2. IdsApart'
    <3>1. ASSUME NEW u \in Threads, cmds'[u].op \in Asking
          PROVE  u # t /\ cmds'[u] = cmds[u] /\ cmds[u].id # None
      <4>1. u # t /\ cmds'[u] = cmds[u]
        BY <1>12, <3>1 DEF Alone
      <4>2. cmds[u].id \in Profiles
        BY <3>1, <4>1 DEF ProfInv, ThreadsFit, StepFits, Asking
      <4> QED
        BY <4>1, <4>2
    <3>2. DOMAIN cmds'[Startup].all \subseteq DOMAIN cmds[Startup].all /\ Startup \in Threads
      BY <1>12 DEF Alone, Threads
    <3>3. ASSUME NEW u \in Threads, cmds'[u].op \in Asking, NEW w \in Threads \ {u}
          PROVE  cmds'[w].id # cmds'[u].id
      <4>1. CASE w = t
        BY <1>1, <1>12, <3>1, <3>3, <4>1 DEF ProfInv, IdsApart
      <4>2. CASE w # t
        BY <1>12, <3>1, <3>3, <4>2 DEF ProfInv, IdsApart, Alone
      <4> QED
        BY <4>1, <4>2
    <3>4. ASSUME NEW u \in Threads, cmds'[u].op \in Asking
          PROVE  cmds'[u].id \notin DOMAIN store'
      BY <1>1, <1>7, <3>1, <3>4 DEF ProfInv, IdsApart
    <3> QED
      BY <3>1, <3>2, <3>3, <3>4 DEF ProfInv, IdsApart
  <2>3. SlugsApart'
    <3>1. CASE lock' = None
      BY <1>7, <3>1 DEF SlugsApart
    <3>2. CASE lock' # None
      <4> DEFINE l == cmds'[t]
      <4>1. lock' = t /\ l.op # "import" /\ k.op # "import"
            /\ l.id = k.id /\ l.new = k.new /\ l.all = k.all
        BY <1>12, <3>2 DEF GoesOn
      <4>2. lock # None /\ cmds[lock] = k
        BY <1>1, <1>2
      <4> HIDE DEF k
      <4>3. /\ Marked(k.all, k.id, k.new.name)
            /\ k.id \in DOMAIN k.all => Marked(k.all, k.id, k.all[k.id].name)
        BY <4>1, <4>2 DEF ProfInv, SlugsApart
      <4>4. ASSUME NEW n, n = l.new.name \/ (l.id \in DOMAIN l.all /\ n = l.all[l.id].name),
                   Clash(l.all, l.id, n) # {}
            PROVE  Clash(l.all, l.id, n) \cup {l.id} \subseteq unsure'
        BY <1>5, <4>1, <4>3, <4>4 DEF Marked
      <4>5. cmds'[lock'] = l
        BY <4>1
      <4> HIDE DEF l
      <4> QED
        BY <1>7, <4>4, <4>5 DEF SlugsApart, Marked
    <3> QED
      BY <3>1, <3>2
  <2>4. PlaceFree'
    BY <1>3, <1>12 DEF ProfInv, PlaceFree, Alone, files
  <2>5. ASSUME NEW q \in Profiles \ unsure' PROVE BundleDue(q)' /\ WrapperDue(q)'
    <3>1. CASE q # k.id
      <4>1. q # cmds'[t].id
        BY <1>12, <3>1
      <4> QED
        BY <1>1, <1>5, <1>9, <1>10, <1>12, <3>1, <4>1, OthersKeep DEF ProfInv
    <3>2. CASE q = k.id
      <4>1. BundleDue(q) /\ WrapperDue(q) /\ "gui" \in Surfaces /\ "cli" \in Surfaces
        BY <1>5 DEF ProfInv, LaunchersDue, Surfaces
      <4>2. ASSUME NEW n PROVE Out(q, n)' <=> Out(q, n)
        BY <1>1, <1>12, OutStays
      <4>3. ASSUME NEW s \in Surfaces, NEW n PROVE Due(q, s, n)' <=> Due(q, s, n)
        BY <1>12, <3>2
      <4>4. BundleDue(q)'
        BY <1>9, <4>1, <4>2, <4>3 DEF BundleDue
      <4>5. WrapperDue(q)'
        BY <1>9, <4>1, <4>3 DEF WrapperDue
      <4> QED
        BY <4>4, <4>5
    <3> QED
      BY <3>1, <3>2
  <2>6. LaunchersDue'
    BY <2>5 DEF LaunchersDue
  <2> QED
    BY <1>8, <1>12, <2>1, <2>2, <2>3, <2>4, <2>6 DEF ProfInv
<1>13. CASE k.op = "update"
  <2>1. Goto(t, "tidy") /\ UNCHANGED lock
    BY <1>13 DEF Save
  <2>2. /\ Goes(t) /\ Alone(t) /\ cmds'[t].at = "tidy" /\ GoesOn(k, cmds'[t])
    <3>1. "tidy" \in AllAts
      BY DEF AllAts
    <3> QED
      BY <1>1, <1>3, <2>1, <3>1, StepGoes
  <2> DEFINE l == cmds'[t]
  <2>3. l.at = "tidy" /\ GoesOn(k, l) /\ l.op = "update"
    BY <1>13, <2>2 DEF GoesOn
  <2> HIDE DEF l, k
  <2>4. StepFits(l) /\ Holds(l)
    BY <1>1, <2>3 DEF StepFits, GoesOn, Holds, Locked
  <2>5. BuildFits(l) /\ ChangeFits(l)
    BY <1>1, <1>2, <2>3, SameFits
  <2>6. Loaded'
    <3>1. store' = Put(k.all, k.id, k.new)
      BY <1>3, <1>13 DEF Saved, k
    <3>2. lock' = t
      BY <1>2, <2>1
    <3> QED
      BY <2>3, <3>1, <3>2 DEF Loaded, GoesOn, l
  <2>7. ASSUME NEW d, d = k.id, NEW s \in Surfaces, NEW n
        PROVE  Due(d, s, n)' <=> Due(d, s, n)
    <3>1. Adds(l, s) <=> Adds(k, s)
      BY <1>1, <2>3 DEF Adds, GoesOn
    <3> QED
      BY <1>1, <1>2, <2>2, <2>7, <3>1, DueGoesHeld DEF ProfInv, Around, k, l
  <2> QED
    BY <1>2, <1>12, <1>13, <2>1, <2>2, <2>3, <2>4, <2>5, <2>6, <2>7
       DEF LockMoves, GoesOn, l, Asking
<1>14. CASE k.op # "update"
  <2>1. Return(t)
    BY <1>14 DEF Save
  <2>2. Alone(t) /\ Over(k, cmds'[t])
    BY <1>1, <2>1, ReturnEnds DEF ProfInv, ThreadsFit
  <2>3. lock' = None
    BY <1>2, <2>1 DEF Return
  <2> DEFINE l == cmds'[t]
  <2>4. Over(k, l) /\ l.op = "none" /\ l.id = None /\ DOMAIN l.all \subseteq DOMAIN k.all
    <3>1. Over(k, l) /\ k.op \in Locked \cup {"import"}
      BY <1>1, <2>2
    <3> HIDE DEF k, l
    <3> QED
      BY <3>1 DEF Over, Locked
  <2> HIDE DEF l
  <2>5. StepFits(l) /\ BuildFits(l) /\ ChangeFits(l) /\ ~Holds(l) /\ l.at # "build"
    BY <2>4, OverFits
  <2>6. ASSUME NEW d, d = k.id, NEW s \in Surfaces, NEW n
        PROVE  Due(d, s, n)' <=> Due(d, s, n)
    <3>1. Due(d, s, n)' <=> d \in DOMAIN store' /\ s \in store'[d].surfaces /\ store'[d].name = n
      <4>1. ASSUME NEW u \in Threads, cmds'[u].id = d PROVE ~Adds(cmds'[u], s)
        <5>1. u # t
          BY <1>1, <2>4, <2>6, <4>1 DEF l
        <5>2. cmds'[u] = cmds[u]
          BY <2>2, <5>1 DEF Alone
        <5> QED
          BY <1>1, <1>2, <2>6, <4>1, <5>1, <5>2, OneAdds DEF ProfInv, Around
      <4> QED
        BY <2>3, <4>1, DueFree
    <3>2. Due(d, s, n) <=>
            \/ /\ d \in DOMAIN k.all /\ s \in k.all[d].surfaces /\ k.all[d].name = n
               /\ k.op # "delete" /\ s \in k.new.surfaces
            \/ Adds(k, s) /\ k.new.name = n
      BY <1>1, <1>2, <2>6, DueHeld DEF ProfInv, Around
    <3>3. Adds(k, s) <=> s \in k.build
      BY <1>1 DEF Adds, Locked
    <3> HIDE DEF k
    <3>4. CASE k.op \in Asking
      <4>1. d \notin DOMAIN k.all /\ k.build = k.new.surfaces
        BY <1>1, <1>2, <2>6, <3>4 DEF ChangeFits, BuildFits
      <4>2. d \in DOMAIN store' /\ store'[d] = k.new
        BY <1>3, <2>6, <3>4 DEF Saved, Put, Asking, k
      <4> QED
        BY <3>1, <3>2, <3>3, <4>1, <4>2
    <3>5. CASE k.op = "delete"
      <4>1. k.build = {}
        BY <1>1, <1>2, <3>5 DEF ChangeFits
      <4>2. d \notin DOMAIN store'
        BY <1>3, <2>6, <3>5 DEF Saved, Removed, k
      <4> QED
        BY <3>1, <3>2, <3>3, <3>5, <4>1, <4>2
    <3>6. CASE k.op = "toggle"
      <4>1. /\ d \in DOMAIN k.all /\ k.new.name = k.all[d].name
            /\ k.build = k.new.surfaces \ k.all[d].surfaces
        BY <1>1, <1>2, <2>6, <3>6 DEF ChangeFits, Asking
      <4>2. d \in DOMAIN store' /\ store'[d] = k.new
        BY <1>3, <2>6, <3>6 DEF Saved, Put, k
      <4> QED
        BY <3>1, <3>2, <3>3, <3>6, <4>1, <4>2
    <3>7. CASE k.op = "stamp"
      <4>1. d \in DOMAIN k.all /\ k.new = k.all[d] /\ k.build = {}
        BY <1>1, <1>2, <2>6, <3>7 DEF ChangeFits, Asking
      <4>2. d \in DOMAIN store' /\ store'[d] = k.new
        BY <1>3, <2>6, <3>7 DEF Saved, Put, k
      <4> QED
        BY <3>1, <3>2, <3>3, <3>7, <4>1, <4>2
    <3> QED
      BY <1>1, <1>14, <3>4, <3>5, <3>6, <3>7 DEF Locked, Asking
  <2>7. Loaded'
    BY <2>3 DEF Loaded
  <2>8. LockMoves(t) /\ lock' # t
    BY <1>1, <1>2, <2>3 DEF LockMoves
  <2> QED
    BY <1>12, <2>2, <2>3, <2>4, <2>5, <2>6, <2>7, <2>8 DEF l, Asking
<1> QED
  BY <1>13, <1>14

LEMMA TidyKeeps == ASSUME ProfInv, NEW t \in Commands, Tidy(t) PROVE ProfInv'
<1> USE ProfilesAssumption
<1> DEFINE k == cmds[t]
           old == k.all[k.id]
           former == (IF old.name # k.new.name THEN {"gui"} ELSE {})
                       \cup (IF SlugOf[old.name] # SlugOf[k.new.name] THEN {"cli"} ELSE {})
           which == former \cap old.surfaces
<1>1. /\ t \in Threads /\ k.at = "tidy" /\ k.op = "update"
      /\ k \in Threaded /\ k.id \in Profiles /\ k.new \in Profile
      /\ StepFits(k) /\ ChangeFits(k)
  BY WhoIsAt DEF Threads, Tidy, ProfInv
<1>2. Holds(k) /\ lock = t
  BY <1>1 DEF Holds, Locked, ProfInv, LocksFit
<1>3. /\ UNCHANGED <<store, dirs, install, building, ops, failures>>
      /\ Return(t) /\ RemoveLaunchers(old, which) /\ Doubt(t, Owners(old, which))
  BY DEF Tidy
<1>4. /\ k.id \in DOMAIN k.all /\ k.new.surfaces = old.surfaces /\ k.build = k.new.surfaces
      /\ old \in Profile /\ old.name \in Names /\ k.new.name \in Names
  <2>1. k.id \in DOMAIN k.all /\ k.new.surfaces = old.surfaces /\ k.build = k.new.surfaces
    BY <1>1, <1>2 DEF ChangeFits, Asking
  <2>2. old \in Profile
    BY <1>1, <2>1, ListsAre DEF Threaded
  <2> QED
    BY <1>1, <2>1, <2>2 DEF Profile
<1>5. store = Put(k.all, k.id, k.new)
  BY <1>1, <1>2 DEF ProfInv, Loaded
<1>6. k.id \in DOMAIN store /\ store[k.id] = k.new
  BY <1>5 DEF Put
<1> HIDE DEF which, old
<1>7. Ends(t) /\ Alone(t) /\ cmds'[t].at # "build" /\ lock' = None /\ LockMoves(t)
  <2>1. Ends(t) /\ Alone(t) /\ cmds'[t].at # "build"
    BY <1>1, <1>3, StepEnds
  <2> QED
    BY <1>2, <1>3, <2>1 DEF Return, LockMoves
<1>8. cmds'[t].id = None
  BY <1>7 DEF Ends, Over
<1>9. unsure \subseteq unsure' /\ unsure' \subseteq Profiles
  BY <1>1, <1>3, DoubtMarks, OwnersTyped DEF ProfInv, FilesTyped
<1>10. Around'
  BY <1>1, <1>3, <1>7, <1>9, EndsKeeps DEF ProfInv, Around
<1>11. FilesTyped'
  BY <1>3, <1>9, FilesKeep DEF ProfInv, FilesTyped, install
<1>12. PlaceFree'
  <2>1. DOMAIN bundles' \subseteq DOMAIN bundles
    BY <1>3, RemovedLess DEF RemoveLaunchers
  <2> QED
    BY <1>7, <2>1 DEF ProfInv, PlaceFree, Alone
<1>13. ASSUME NEW q \in Profiles \ unsure' PROVE BundleDue(q)' /\ WrapperDue(q)'
  <2>1. \A n : /\ OpensIt(n, q)' <=> OpensIt(n, q) /\ ~("gui" \in which /\ n = old.name)
               /\ RunsIt(n, q)' <=> RunsIt(n, q) /\ ~("cli" \in which /\ n = SlugOf[old.name])
    BY <1>3, RemovedOnes
  <2>2. CASE q # k.id
    <3>1. CASE q \notin Owners(old, which)
      <4>1. \A n : (OpensIt(n, q)' <=> OpensIt(n, q)) /\ (RunsIt(n, q)' <=> RunsIt(n, q))
        BY <2>1, <3>1, OwnersAre
      <4> QED
        BY <1>1, <1>3, <1>7, <1>8, <1>9, <2>2, <4>1, OthersKeep DEF ProfInv
    <3>2. CASE q \in Owners(old, which)
      <4>1. q \in DOMAIN store /\ q \notin unsure
        BY <1>1, <1>3, <1>9, <2>2, <3>2, DoubtMarks
      <4>2. \A n, s : SlugOf[n] = SlugOf[old.name] => ~Due(q, s, n)
        BY <1>1, <1>2, <1>4, <2>2, <4>1, NotTheirs DEF ProfInv, Around, old
      <4>3. ~OpensIt(old.name, q) /\ ~RunsIt(SlugOf[old.name], q)
        BY <1>4, <4>1, <4>2, NotOwned DEF ProfInv
      <4> QED
        BY <3>2, <4>3, OwnersAre
    <3> QED
      BY <3>1, <3>2
  <2>3. CASE q = k.id
    <3>1. BundleDue(q) /\ WrapperDue(q) /\ "gui" \in Surfaces /\ "cli" \in Surfaces
      BY <1>9 DEF ProfInv, LaunchersDue, Surfaces
    <3>2. ASSUME NEW n PROVE Out(q, n)' <=> Out(q, n)
      BY <1>1, <1>7, OutStays
    <3>3. ASSUME NEW s, NEW n PROVE Due(q, s, n)' <=> s \in k.new.surfaces /\ n = k.new.name
      <4>1. ASSUME NEW u \in Threads, cmds'[u].id = q PROVE ~Adds(cmds'[u], s)
        <5>1. u # t /\ cmds'[u] = cmds[u]
          BY <1>7, <1>8, <4>1 DEF Alone
        <5> QED
          BY <1>1, <1>2, <2>3, <4>1, <5>1, OneAdds DEF ProfInv, Around
      <4>2. Due(q, s, n)' <=> q \in DOMAIN store' /\ s \in store'[q].surfaces /\ store'[q].name = n
        BY <1>7, <4>1, DueFree
      <4> QED
        BY <1>3, <1>6, <2>3, <4>2
    <3>4. ASSUME NEW s, NEW n
          PROVE  Due(q, s, n) <=> s \in k.new.surfaces /\ (n = k.new.name \/ n = old.name)
      <4>1. Due(q, s, n) <=>
              \/ /\ k.id \in DOMAIN k.all /\ s \in k.all[k.id].surfaces /\ k.all[k.id].name = n
                 /\ k.op # "delete" /\ s \in k.new.surfaces
              \/ Adds(k, s) /\ k.new.name = n
        BY <1>1, <1>2, <2>3, DueHeld DEF ProfInv, Around
      <4>2. Adds(k, s) <=> s \in k.new.surfaces
        BY <1>1, <1>4 DEF Adds
      <4> QED
        BY <1>1, <1>4, <4>1, <4>2 DEF old
    <3>5. /\ "gui" \in which <=> "gui" \in k.new.surfaces /\ old.name # k.new.name
          /\ "cli" \in which <=> "cli" \in k.new.surfaces /\ SlugOf[old.name] # SlugOf[k.new.name]
      BY <1>4 DEF which
    <3> HIDE DEF k
    <3>6. BundleDue(q)'
      <4> SUFFICES ASSUME NEW n \in Names
                   PROVE  OpensIt(n, q)' <=> Due(q, "gui", n)' /\ ~(Out(q, n)')
        BY DEF BundleDue
      <4>1. OpensIt(n, q) <=> Due(q, "gui", n) /\ ~Out(q, n)
        BY <3>1 DEF BundleDue
      <4> QED
        BY <2>1, <3>2, <3>3, <3>4, <3>5, <4>1
    <3>7. WrapperDue(q)'
      <4> SUFFICES ASSUME NEW z \in Slugs
                   PROVE  RunsIt(z, q)' <=> \E n \in Names : SlugOf[n] = z /\ Due(q, "cli", n)'
        BY DEF WrapperDue
      <4>1. RunsIt(z, q) <=> \E n \in Names : SlugOf[n] = z /\ Due(q, "cli", n)
        BY <3>1 DEF WrapperDue
      <4>2. RunsIt(z, q) <=> "cli" \in k.new.surfaces /\ (z = SlugOf[k.new.name] \/ z = SlugOf[old.name])
        BY <1>4, <3>4, <4>1
      <4>3. (\E n \in Names : SlugOf[n] = z /\ Due(q, "cli", n)')
              <=> "cli" \in k.new.surfaces /\ z = SlugOf[k.new.name]
        BY <1>4, <3>3
      <4> QED
        BY <2>1, <3>5, <4>2, <4>3
    <3> QED
      BY <3>6, <3>7
  <2> QED
    BY <2>2, <2>3
<1>14. LaunchersDue'
  BY <1>13 DEF LaunchersDue
<1> QED
  BY <1>10, <1>11, <1>12, <1>14 DEF ProfInv, Around

(* What a command that gets the lock makes of the list.                    *)
ChangeIs(k, r, build, off) ==
  /\ r \in Profile /\ build \subseteq Surfaces
  /\ k.op \in Asking => k.id \notin DOMAIN store /\ r = k.new /\ off = {}
  /\ k.op = "create" => build = r.surfaces
  /\ k.op = "import" => build = {}
  /\ k.op \notin Asking => k.id \in DOMAIN store
  /\ k.op = "update" => r.surfaces = store[k.id].surfaces /\ build = r.surfaces /\ off = {}
  /\ k.op = "toggle" => /\ r.name = store[k.id].name /\ build = r.surfaces \ store[k.id].surfaces
                        /\ off = store[k.id].surfaces \ r.surfaces
  /\ k.op = "delete" => r = store[k.id] /\ build = {} /\ off = r.surfaces
  /\ k.op = "stamp" => r = store[k.id] /\ build = {} /\ off = {}
  /\ k.op # "import" => Marked(store, k.id, r.name)

LEMMA Changes ==
  ASSUME ProfInv, NEW t \in Threads, cmds[t].at = "lock", ~Refused(t)
  PROVE  ChangeIs(cmds[t], Changed(t), ToBuild(t, Changed(t)), ToRemove(t, Changed(t)))
<1> USE ProfilesAssumption
<1> DEFINE k == cmds[t]
           r == Changed(t)
<1>1. /\ k.op \in Locked \cup {"import"} /\ k.id \in Profiles /\ k.new \in Profile
      /\ BuildFits(k)
  BY WhoIsAt DEF ProfInv
<1>2. SlugsApart
  BY DEF ProfInv
<1>3. CASE k.op \in Asking
  <2>1. r = k.new /\ k.id \notin DOMAIN store
    BY <1>3 DEF Changed, Asking, ProfInv, IdsApart
  <2>2. ToRemove(t, r) = {}
    BY <1>3 DEF ToRemove, Asking
  <2>3. k.op = "create" => ToBuild(t, r) = r.surfaces
    BY DEF ToBuild
  <2>4. k.op = "import" => ToBuild(t, r) = {}
    BY DEF ToBuild
  <2>5. k.op = "create" => Marked(store, k.id, r.name)
    BY <2>1 DEF Refused, SlugTaken, Marked, Clash
  <2>6. r.surfaces \subseteq Surfaces
    BY <1>1, <2>1 DEF Profile
  <2> HIDE DEF k, r
  <2> QED
    BY <1>1, <1>3, <2>1, <2>2, <2>3, <2>4, <2>5, <2>6 DEF ChangeIs, Asking, k, r
<1>4. CASE k.op \notin Asking
  <2>1. k.id \in DOMAIN store
    BY <1>4 DEF Refused, Asking
  <2> DEFINE mine == store[k.id]
  <2>2. mine \in Profile /\ mine.surfaces \subseteq Surfaces /\ Marked(store, k.id, mine.name)
    BY <1>2, <2>1, Listed DEF SlugsApart
  <2>3. CASE k.op = "update"
    <3>1. r \in Profile /\ r.surfaces = mine.surfaces
      <4>1. r = [mine EXCEPT !.name = IF "name" \in k.build THEN k.new.name ELSE @,
                             !.icon = IF "icon" \in k.build THEN k.new.icon ELSE @]
        BY <2>3 DEF Changed
      <4> HIDE DEF k, r, mine
      <4> QED
        BY <1>1, <2>2, <4>1 DEF Profile
    <3>2. ToBuild(t, r) = r.surfaces /\ ToRemove(t, r) = {}
      BY <2>3 DEF ToBuild, ToRemove
    <3>3. Marked(store, k.id, r.name)
      <4>1. SlugOf[r.name] = SlugOf[mine.name] \/ Clash(store, k.id, r.name) = {}
        BY <2>1, <2>3 DEF Refused, SlugTaken, Clash
      <4> HIDE DEF k, r, mine
      <4> QED
        BY <2>2, <4>1 DEF Marked, Clash
    <3> QED
      BY <1>4, <2>1, <2>2, <2>3, <3>1, <3>2, <3>3 DEF ChangeIs, Asking
  <2>4. CASE k.op = "toggle"
    <3>1. r = [mine EXCEPT !.surfaces = IF k.build \subseteq @ THEN @ \ k.build ELSE @ \cup k.build]
      BY <2>4 DEF Changed
    <3>2. ToBuild(t, r) = k.build \ mine.surfaces /\ ToRemove(t, r) = k.build \ r.surfaces
      BY <2>4 DEF ToBuild, ToRemove
    <3>3. k.build \subseteq Surfaces
      BY <1>1, <2>4 DEF BuildFits
    <3> HIDE DEF k, r, mine
    <3>4. r \in Profile /\ r.name = mine.name
            /\ r.surfaces = IF k.build \subseteq mine.surfaces THEN mine.surfaces \ k.build
                                                               ELSE mine.surfaces \cup k.build
      BY <2>2, <3>1, <3>3 DEF Profile
    <3>5. k.build \ mine.surfaces = r.surfaces \ mine.surfaces
            /\ k.build \ r.surfaces = mine.surfaces \ r.surfaces
      <4>1. CASE k.build \subseteq mine.surfaces
        BY <3>4, <4>1
      <4>2. CASE ~(k.build \subseteq mine.surfaces)
        BY <3>4, <4>2
      <4> QED
        BY <4>1, <4>2
    <3>6. k.build \ mine.surfaces \subseteq Surfaces
      BY <3>3
    <3> QED
      BY <1>4, <2>1, <2>2, <2>4, <3>2, <3>4, <3>5, <3>6 DEF ChangeIs, Asking, k, r, mine
  <2>5. CASE k.op \in {"delete", "stamp"}
    <3>1. r = mine /\ ToBuild(t, r) = {}
      BY <2>5 DEF Changed, ToBuild
    <3>2. /\ k.op = "delete" => ToRemove(t, r) = r.surfaces
          /\ k.op = "stamp" => ToRemove(t, r) = {}
      BY DEF ToRemove
    <3> QED
      BY <1>4, <2>1, <2>2, <2>5, <3>1, <3>2 DEF ChangeIs, Asking
  <2> QED
    BY <1>1, <1>4, <2>3, <2>4, <2>5 DEF Locked, Asking
<1> QED
  BY <1>3, <1>4

(* How the command goes on with it.                                        *)
LoadsIt(k, l, r, build) ==
  /\ l.op = k.op /\ l.id = k.id /\ l.new = r /\ l.all = store
  /\ l.build = (IF k.op = "import" THEN k.build ELSE build)
  /\ l.at = (IF k.op = "delete" THEN "trash" ELSE First(build))

LEMMA LoadedFits ==
  ASSUME NEW k, NEW l, NEW r, NEW build, NEW off, LoadsIt(k, l, r, build),
         ChangeIs(k, r, build, off), k.op \in Locked \cup {"import"}, k.at = "lock",
         k.id \in Profiles, BuildFits(k)
  PROVE  /\ StepFits(l) /\ BuildFits(l) /\ ChangeFits(l) /\ Holds(l)
         /\ l.at \notin {"build", "tidy"}
         /\ \A s \in Surfaces : Adds(l, s) <=> Adds(k, s)
<1>1. /\ First(build) \in {"gui", "cli", "save"}
      /\ First(build) = "gui" => "gui" \in build
      /\ First(build) = "cli" => "cli" \in build /\ "gui" \notin build
      /\ First(build) = "save" => build = {}
  BY DEF First, ChangeIs, Surfaces
<1>2. k.op = "import" => build = {} /\ First(build) = "save"
  BY <1>1 DEF ChangeIs, First
<1>3. k.op # "import" => l.build = build
  BY DEF LoadsIt
<1>4. StepFits(l)
  BY <1>1, <1>2, <1>3 DEF LoadsIt, ChangeIs, StepFits, Locked
<1>5. BuildFits(l)
  BY <1>3 DEF LoadsIt, ChangeIs, BuildFits, Locked, Asking
<1>6. l.at \notin {"build", "tidy", "lock"}
  BY <1>1 DEF LoadsIt
<1>7. Holds(l)
  BY <1>2, <1>6 DEF LoadsIt, Holds, Locked
<1>8. ChangeFits(l)
  BY <1>3 DEF LoadsIt, ChangeIs, ChangeFits, Asking
<1>9. ASSUME NEW s \in Surfaces PROVE Adds(l, s) <=> Adds(k, s)
  <2>1. CASE k.op = "import"
    BY <1>2, <2>1 DEF LoadsIt, Adds
  <2>2. CASE k.op # "import"
    BY <1>1, <1>3, <2>2 DEF LoadsIt, Adds
  <2> QED
    BY <2>1, <2>2
<1> QED
  BY <1>4, <1>5, <1>6, <1>7, <1>8, <1>9

InList(p, s, n) == p \in DOMAIN store /\ s \in store[p].surfaces /\ store[p].name = n

LEMMA DueBefore ==
  ASSUME Around, NEW t \in Threads, lock = None, NEW s, NEW n, NEW d \in Profiles,
         d = cmds[t].id
  PROVE  Due(d, s, n) <=> InList(d, s, n) \/ (Adds(cmds[t], s) /\ cmds[t].new.name = n)
<1> USE ProfilesAssumption
<1> DEFINE k == cmds[t]
<1>1. ASSUME NEW u \in Threads \ {t}, cmds[u].id = k.id PROVE ~Adds(cmds[u], s)
  <2> SUFFICES ASSUME Adds(cmds[u], s) PROVE FALSE
    OBVIOUS
  <2>1. cmds[u].op = "import"
    BY AddsWho DEF Around
  <2> QED
    BY <1>1, <2>1 DEF Around, IdsApart, Asking
<1>2. (\E u \in Threads : cmds[u].id = k.id /\ Adds(cmds[u], s) /\ cmds[u].new.name = n)
        <=> Adds(k, s) /\ k.new.name = n
  BY <1>1
<1>3. ~Changing(k.id)
  BY DEF Changing
<1>4. Keeps(k.id, s) /\ Before(k.id)[k.id].name = n
        <=> k.id \in DOMAIN store /\ s \in store[k.id].surfaces /\ store[k.id].name = n
  BY <1>3 DEF Keeps, Before
<1> QED
  BY <1>2, <1>4 DEF Due, InList

LEMMA DueLoaded ==
  ASSUME Around, NEW t \in Threads, lock = None, lock' = t, NEW s \in Surfaces, NEW n,
         NEW d \in Profiles, d = cmds[t].id, cmds[t].at = "lock", Alone(t),
         NEW r, NEW build, NEW off, LoadsIt(cmds[t], cmds'[t], r, build),
         ChangeIs(cmds[t], r, build, off), cmds[t].op \in Locked \cup {"import"},
         Adds(cmds'[t], s) <=> Adds(cmds[t], s)
  PROVE  Due(d, s, n)' <=> Due(d, s, n) /\ ~(s \in off /\ n = r.name)
<1> USE ProfilesAssumption
<1> DEFINE k == cmds[t]
           l == cmds'[t]
<1>1. Due(d, s, n) <=>
        \/ d \in DOMAIN store /\ s \in store[d].surfaces /\ store[d].name = n
        \/ Adds(k, s) /\ k.new.name = n
  <2>1. Due(d, s, n) <=> InList(d, s, n) \/ (Adds(cmds[t], s) /\ cmds[t].new.name = n)
    BY DueBefore
  <2> QED
    BY <2>1 DEF InList
<1>2. Due(d, s, n)' <=>
        \/ /\ d \in DOMAIN store /\ s \in store[d].surfaces /\ store[d].name = n
           /\ k.op # "delete" /\ s \in r.surfaces
        \/ Adds(l, s) /\ r.name = n
  <2>1. ASSUME NEW u \in Threads \ {t}, cmds'[u].id = d PROVE ~Adds(cmds'[u], s)
    <3> SUFFICES ASSUME Adds(cmds'[u], s) PROVE FALSE
      OBVIOUS
    <3>1. cmds'[u] = cmds[u]
      BY DEF Alone
    <3>2. cmds[u].op = "import"
      BY <3>1, AddsWho DEF Around
    <3> QED
      BY <2>1, <3>1, <3>2 DEF Around, IdsApart, Asking
  <2>2. l.id = d /\ l.new = r /\ l.all = store /\ l.op = k.op
    BY DEF LoadsIt
  <2>3. (\E u \in Threads : cmds'[u].id = d /\ Adds(cmds'[u], s) /\ cmds'[u].new.name = n)
          <=> Adds(l, s) /\ r.name = n
    BY <2>1, <2>2
  <2>4. (Changing(d))'
    BY <2>2 DEF Changing
  <2>5. (Keeps(d, s) /\ Before(d)[d].name = n)'
          <=> /\ d \in DOMAIN store /\ s \in store[d].surfaces /\ store[d].name = n
              /\ k.op # "delete" /\ s \in r.surfaces
    BY <2>2, <2>4 DEF Keeps, Before
  <2> QED
    BY <2>3, <2>5 DEF Due
<1>3. k.op \notin Asking => ~Adds(k, s)
  BY DEF Adds, Asking
<1> HIDE DEF k, l
<1>4. CASE k.op \in Asking
  BY <1>1, <1>2, <1>4 DEF ChangeIs, Asking, k, l
<1>5. CASE k.op \notin Asking
  <2>1. d \in DOMAIN store
    BY <1>5 DEF ChangeIs, k
  <2>2. CASE k.op = "update"
    BY <1>1, <1>2, <1>3, <1>5, <2>1, <2>2 DEF ChangeIs, k, l
  <2>3. CASE k.op = "toggle"
    BY <1>1, <1>2, <1>3, <1>5, <2>1, <2>3 DEF ChangeIs, k, l
  <2>4. CASE k.op \in {"delete", "stamp"}
    BY <1>1, <1>2, <1>3, <1>5, <2>1, <2>4 DEF ChangeIs, k, l
  <2> QED
    BY <1>5, <2>2, <2>3, <2>4 DEF Locked, Asking, k
<1> QED
  BY <1>4, <1>5

LEMMA LoadGoes ==
  ASSUME ProfInv, NEW t \in Threads, cmds[t].at = "lock", NEW r \in Profile,
         NEW build \in SUBSET Surfaces,
         cmds' = [cmds EXCEPT ![t] = [@ EXCEPT !.new = r, !.all = store,
                    !.build = IF cmds[t].op = "import" THEN cmds[t].build ELSE build,
                    !.at = IF cmds[t].op = "delete" THEN "trash" ELSE First(build)]]
  PROVE  Alone(t) /\ LoadsIt(cmds[t], cmds'[t], r, build)
<1> DEFINE k == cmds[t]
           todo == IF k.op = "import" THEN k.build ELSE build
           at == IF k.op = "delete" THEN "trash" ELSE First(build)
           l == [k EXCEPT !.new = r, !.all = store, !.build = todo, !.at = at]
<1>1. k \in Threaded /\ cmds \in [Threads -> Threaded] /\ store \in AllLists
  BY DEF ProfInv, ThreadsFit, FilesTyped
<1>2. cmds' = [cmds EXCEPT ![t] = l]
  OBVIOUS
<1>3. at \in AllAts
  BY DEF First, AllAts
<1>4. todo \in SUBSET (Surfaces \cup {"name", "icon"})
  BY <1>1 DEF Threaded
<1> HIDE DEF todo, at
<1>5. l \in Threaded /\ l.op = k.op /\ l.id = k.id /\ l.new = r /\ l.all = store
        /\ l.build = todo /\ l.at = at
  BY <1>1, <1>3, <1>4 DEF Threaded
<1> HIDE DEF l
<1>6. Alone(t) /\ cmds'[t] = l
  BY <1>1, <1>2, <1>5, ThreadGoes
<1> QED
  BY <1>5, <1>6 DEF LoadsIt, todo, at

(* A command that is refused the change.                                   *)
LEMMA RefusedKeeps ==
  ASSUME ProfInv, NEW t \in Threads, cmds[t].at = "lock", lock = None, Refused(t), Return(t),
         UNCHANGED <<dirs, files, unsure, store, install, building, ops, failures>>
  PROVE  ProfInv'
<1> USE ProfilesAssumption
<1>1. cmds[t].op # "import"
  BY DEF Refused
<1>2. Idles(cmds[t])
  BY <1>1 DEF Idles, Adds
<1>3. Ends(t) /\ Alone(t) /\ cmds'[t].at # "build"
  BY StepEnds
<1>4. Around'
  BY <1>3, EndsKeeps DEF ProfInv, Around
<1>5. LaunchersDue' /\ PlaceFree'
  BY <1>2, <1>3, QuietKeeps
<1>6. FilesTyped'
  BY FilesKeep DEF ProfInv, FilesTyped, install
<1> QED
  BY <1>4, <1>5, <1>6 DEF ProfInv, Around

(* A command that is not, once it has the lock and the list.               *)
LEMMA LoadedKeeps ==
  ASSUME ProfInv, NEW t \in Threads, cmds[t].at = "lock", lock = None, lock' = t,
         NEW r, NEW build, NEW off, Alone(t), LoadsIt(cmds[t], cmds'[t], r, build),
         ChangeIs(cmds[t], r, build, off), dirs' \subseteq dirs \cup {cmds[t].id},
         RemoveLaunchers(r, off), Doubt(t, Owners(r, off)),
         UNCHANGED <<store, install, building, ops, failures>>
  PROVE  ProfInv'
<1> USE ProfilesAssumption
<1> DEFINE k == cmds[t]
           l == cmds'[t]
<1>1. /\ k.op \in Locked \cup {"import"} /\ k.id \in Profiles /\ BuildFits(k)
  BY WhoIsAt DEF ProfInv
<1>2. /\ StepFits(l) /\ BuildFits(l) /\ ChangeFits(l) /\ Holds(l)
      /\ l.at \notin {"build", "tidy"}
      /\ \A s \in Surfaces : Adds(l, s) <=> Adds(k, s)
  BY <1>1, LoadedFits
<1>3. l.op = k.op /\ l.id = k.id /\ l.new = r /\ l.all = store
  BY DEF LoadsIt
<1>4. unsure \subseteq unsure' /\ unsure' \subseteq Profiles
  BY <1>1, DoubtMarks, OwnersTyped DEF ProfInv, FilesTyped
<1>5. ThreadsFit' /\ LocksFit' /\ LockMoves(t)
  <2>1. LockMoves(t) /\ BuildingMoves(t) /\ building' # t
    BY DEF LockMoves, BuildingMoves, ProfInv, LocksFit
  <2>2. ThreadsFit'
    BY <1>2, FitAfter DEF ProfInv
  <2>3. LocksFit'
    BY <1>2, <2>1, LocksAfter DEF ProfInv
  <2> QED
    BY <2>1, <2>2, <2>3
<1>6. Loaded'
  BY <1>2, <1>3 DEF Loaded
<1>7. IdsApart'
  <2>1. \A u \in Threads : cmds'[u].op = cmds[u].op /\ cmds'[u].id = cmds[u].id
    BY <1>3 DEF Alone
  <2>2. Startup \in Threads /\ cmds'[Startup].all \in {store, cmds[Startup].all}
    BY <1>3 DEF Threads, Alone
  <2> QED
    BY <2>1, <2>2 DEF ProfInv, IdsApart
<1>8. SlugsApart'
  <2>1. \A p \in DOMAIN store : Marked(store, p, store[p].name)'
    BY <1>4 DEF ProfInv, SlugsApart, Marked, Clash
  <2>2. k.op # "import" /\ Clash(store, k.id, r.name) # {}
          => Clash(store, k.id, r.name) \cup {k.id} \subseteq unsure'
    BY <1>4 DEF ChangeIs, Marked
  <2> QED
    BY <1>3, <2>1, <2>2 DEF SlugsApart, Marked, Clash
<1>9. FilesTyped'
  BY <1>1, <1>4, FilesKeep DEF ProfInv, FilesTyped, install
<1>10. PlaceFree'
  <2>1. DOMAIN bundles' \subseteq DOMAIN bundles
    BY RemovedLess DEF RemoveLaunchers
  <2> QED
    BY <1>2, <2>1 DEF ProfInv, PlaceFree, Alone
<1>11. off # {} => k.op \in {"toggle", "delete"} /\ k.id \in DOMAIN store /\ r.name = store[k.id].name
  BY <1>1 DEF ChangeIs, Locked, Asking
<1>12. ASSUME NEW q \in Profiles \ unsure', q # k.id PROVE BundleDue(q)' /\ WrapperDue(q)'
  <2>1. q \notin Owners(r, off)
    <3> SUFFICES ASSUME q \in Owners(r, off) PROVE FALSE
      OBVIOUS
    <3>1. off # {}
      BY OwnersAre
    <3>2. q \in DOMAIN store /\ q \notin unsure
      BY <1>4, <1>12, DoubtMarks
    <3>3. \A n, s : SlugOf[n] = SlugOf[r.name] => ~Due(q, s, n)
      BY <1>11, <1>12, <3>1, <3>2, NotTheirsBefore DEF ProfInv, Around
    <3>4. r \in Profile
      BY DEF ChangeIs
    <3>5. ~OpensIt(r.name, q) /\ ~RunsIt(SlugOf[r.name], q)
      BY <3>2, <3>3, <3>4, NotOwned DEF ProfInv
    <3> QED
      BY <3>5, OwnersAre
  <2>2. \A n : (OpensIt(n, q)' <=> OpensIt(n, q)) /\ (RunsIt(n, q)' <=> RunsIt(n, q))
    BY <2>1, OwnersAre, RemovedOnes
  <2>3. LocksFit /\ LaunchersDue /\ q \in Profiles \ unsure
    BY <1>4 DEF ProfInv
  <2> QED
    BY <1>3, <1>5, <1>12, <2>2, <2>3, OthersKeep
<1>13. ASSUME NEW q \in Profiles \ unsure', q = k.id PROVE BundleDue(q)' /\ WrapperDue(q)'
  <2>1. BundleDue(q) /\ WrapperDue(q) /\ "gui" \in Surfaces /\ "cli" \in Surfaces
    BY <1>4 DEF ProfInv, LaunchersDue, Surfaces
  <2>2. ASSUME NEW n PROVE Out(q, n)' <=> Out(q, n)
    BY <1>2, OutStays
  <2>3. ASSUME NEW s \in Surfaces, NEW n
        PROVE  Due(q, s, n)' <=> Due(q, s, n) /\ ~(s \in off /\ n = r.name)
    BY <1>1, <1>2, <1>13, DueLoaded DEF ProfInv, Around
  <2>4. ASSUME NEW n
        PROVE  /\ OpensIt(n, q)' <=> OpensIt(n, q) /\ ~("gui" \in off /\ n = r.name)
               /\ RunsIt(n, q)' <=> RunsIt(n, q) /\ ~("cli" \in off /\ n = SlugOf[r.name])
    BY RemovedOnes
  <2>5. BundleDue(q)'
    <3> SUFFICES ASSUME NEW n \in Names
                 PROVE  OpensIt(n, q)' <=> Due(q, "gui", n)' /\ ~(Out(q, n)')
      BY DEF BundleDue
    <3>1. OpensIt(n, q) <=> Due(q, "gui", n) /\ ~Out(q, n)
      BY <2>1 DEF BundleDue
    <3> QED
      BY <2>1, <2>2, <2>3, <2>4, <3>1
  <2>6. ASSUME "cli" \in off, NEW n, Due(q, "cli", n) PROVE n = r.name
    <3>1. ~Adds(k, "cli")
      BY <1>11, <2>6 DEF Adds
    <3>2. Due(q, "cli", n) <=> InList(q, "cli", n) \/ (Adds(k, "cli") /\ k.new.name = n)
      BY <1>1, <1>13, DueBefore DEF ProfInv, Around
    <3> QED
      BY <1>11, <1>13, <2>6, <3>1, <3>2 DEF InList
  <2>7. WrapperDue(q)'
    <3> SUFFICES ASSUME NEW z \in Slugs
                 PROVE  RunsIt(z, q)' <=> \E n \in Names : SlugOf[n] = z /\ Due(q, "cli", n)'
      BY DEF WrapperDue
    <3>1. RunsIt(z, q) <=> \E n \in Names : SlugOf[n] = z /\ Due(q, "cli", n)
      BY <2>1 DEF WrapperDue
    <3> QED
      BY <2>1, <2>3, <2>4, <2>6, <3>1
  <2> QED
    BY <2>5, <2>7
<1>14. LaunchersDue'
  BY <1>12, <1>13 DEF LaunchersDue
<1> QED
  BY <1>5, <1>6, <1>7, <1>8, <1>9, <1>10, <1>14 DEF ProfInv

LEMMA LoadKeeps == ASSUME ProfInv, NEW t \in Commands, Load(t) PROVE ProfInv'
<1>1. t \in Threads /\ cmds[t].at = "lock" /\ lock = None
        /\ UNCHANGED <<store, install, building, ops, failures>>
  BY DEF Threads, Load
<1>2. CASE Refused(t)
  <2>1. Return(t) /\ UNCHANGED <<dirs, files, unsure>>
    BY <1>2 DEF Load
  <2> QED
    BY <1>1, <1>2, <2>1, RefusedKeeps
<1>3. CASE ~Refused(t)
  <2> DEFINE r == Changed(t)
             build == ToBuild(t, r)
             off == ToRemove(t, r)
  <2>1. ChangeIs(cmds[t], r, build, off)
    BY <1>1, <1>3, Changes
  <2>2. /\ lock' = t
        /\ cmds' = [cmds EXCEPT ![t] = [@ EXCEPT !.new = r, !.all = store,
                      !.build = IF cmds[t].op = "import" THEN cmds[t].build ELSE build,
                      !.at = IF cmds[t].op = "delete" THEN "trash" ELSE First(build)]]
        /\ dirs' \subseteq dirs \cup {cmds[t].id}
        /\ RemoveLaunchers(r, off) /\ Doubt(t, Owners(r, off))
    BY <1>3 DEF Load
  <2>3. r \in Profile /\ build \in SUBSET Surfaces
    BY <2>1 DEF ChangeIs
  <2> HIDE DEF r, build, off
  <2>4. Alone(t) /\ LoadsIt(cmds[t], cmds'[t], r, build)
    BY <1>1, <2>2, <2>3, LoadGoes
  <2> QED
    BY <1>1, <2>1, <2>2, <2>4, LoadedKeeps
<1> QED
  BY <1>2, <1>3

(* The launchers there are at the start.                                   *)
LEMMA Turned ==
  ASSUME NEW f, \A p, q \in DOMAIN f : f[p] = f[q] => p = q
  PROVE  /\ DOMAIN AntiFunction(f) = Range(f) /\ Range(AntiFunction(f)) \subseteq DOMAIN f
         /\ \A n, p : n \in DOMAIN AntiFunction(f) /\ AntiFunction(f)[n] = p
                        <=> p \in DOMAIN f /\ f[p] = n
<1> DEFINE g == AntiFunction(f)
<1>1. DOMAIN g = Range(f) /\ \A n \in Range(f) : g[n] = CHOOSE p \in DOMAIN f : n \in Range(f) => f[p] = n
  BY DEF AntiFunction, Inverse
<1>2. \A n \in Range(f) : g[n] \in DOMAIN f /\ f[g[n]] = n
  <2> SUFFICES ASSUME NEW n \in Range(f) PROVE g[n] \in DOMAIN f /\ f[g[n]] = n
    OBVIOUS
  <2>1. \E p \in DOMAIN f : n \in Range(f) => f[p] = n
    BY DEF Range
  <2> QED
    BY <1>1, <2>1
<1> HIDE DEF g
<1>3. Range(g) \subseteq DOMAIN f
  BY <1>1, <1>2 DEF Range
<1>4. ASSUME NEW n, NEW p PROVE n \in DOMAIN g /\ g[n] = p <=> p \in DOMAIN f /\ f[p] = n
  <2>1. ASSUME n \in DOMAIN g, g[n] = p PROVE p \in DOMAIN f /\ f[p] = n
    BY <1>1, <1>2, <2>1
  <2>2. ASSUME p \in DOMAIN f, f[p] = n PROVE n \in DOMAIN g /\ g[n] = p
    <3>1. n \in Range(f)
      BY <2>2 DEF Range
    <3> QED
      BY <1>1, <1>2, <2>2, <3>1
  <2> QED
    BY <2>1, <2>2
<1> QED
  BY <1>1, <1>3, <1>4 DEF g

LEMMA ProfStarts == Init => ProfInv
<1> SUFFICES ASSUME Init PROVE ProfInv
  OBVIOUS
<1> USE ProfilesAssumption
<1>1. store = Originals /\ lock = None /\ building = None /\ unsure = {}
  BY DEF Init
<1>2. store \in AllLists /\ DOMAIN store \subseteq Profiles
  BY <1>1, OriginalsAssumption DEF AllLists
<1>3. /\ cmds \in [Threads -> Threaded]
      /\ \A u \in Threads : /\ StepFits(cmds[u]) /\ BuildFits(cmds[u]) /\ ChangeFits(cmds[u])
                            /\ ~Holds(cmds[u]) /\ Idles(cmds[u]) /\ cmds[u].at # "build"
                            /\ cmds[u].op \notin Asking /\ cmds[u].id = None
  BY <1>2, FreshThreads DEF Init
<1>4. \A p \in DOMAIN store : store[p].name \in Names /\ store[p].surfaces \subseteq Surfaces
  <2>1. \A p \in DOMAIN store : store[p] \in Profile
    BY <1>2, ListsAre
  <2> QED
    BY <2>1 DEF Profile
<1>5. \A p, q \in DOMAIN store : SlugOf[store[p].name] = SlugOf[store[q].name] => p = q
  BY <1>1, OriginalsAssumption
<1> DEFINE f == [p \in WithSurface("gui") |-> store[p].name]
           g == [p \in WithSurface("cli") |-> SlugOf[store[p].name]]
<1>6. /\ bundles = AntiFunction(f) /\ wrappers = AntiFunction(g) /\ outdated = Behind
      /\ dirs = DOMAIN store /\ stock = [s \in Surfaces |-> "own"]
      /\ backups = [p \in Profiles |-> [s \in Surfaces |-> "none"]] /\ ops = 0 /\ failures = 0
  BY DEF Init
<1>7. /\ DOMAIN f = {p \in DOMAIN store : "gui" \in store[p].surfaces}
      /\ \A p \in DOMAIN f : f[p] = store[p].name
      /\ DOMAIN g = {p \in DOMAIN store : "cli" \in store[p].surfaces}
      /\ \A p \in DOMAIN g : g[p] = SlugOf[store[p].name]
  BY DEF WithSurface
<1> HIDE DEF f, g
<1>8. /\ DOMAIN bundles = Range(f) /\ Range(bundles) \subseteq DOMAIN f
      /\ \A n, p : OpensIt(n, p) <=> p \in DOMAIN f /\ f[p] = n
  <2>1. \A p, q \in DOMAIN f : f[p] = f[q] => p = q
    BY <1>5, <1>7
  <2> QED
    BY <1>6, <2>1, Turned DEF OpensIt
<1>9. /\ DOMAIN wrappers = Range(g) /\ Range(wrappers) \subseteq DOMAIN g
      /\ \A z, p : RunsIt(z, p) <=> p \in DOMAIN g /\ g[p] = z
  <2>1. \A p, q \in DOMAIN g : g[p] = g[q] => p = q
    BY <1>5, <1>7
  <2> QED
    BY <1>6, <2>1, Turned DEF RunsIt
<1>10. FilesTyped
  <2>1. DOMAIN bundles \subseteq Names /\ Range(bundles) \subseteq Profiles
    BY <1>2, <1>4, <1>8, <1>7 DEF Range
  <2>2. DOMAIN wrappers \subseteq Slugs /\ Range(wrappers) \subseteq Profiles
    BY <1>2, <1>4, <1>9, <1>7 DEF Range, Slugs
  <2>3. outdated \subseteq DOMAIN bundles
    <3>1. ASSUME NEW n \in Behind PROVE n \in Range(f)
      <4>1. PICK p \in DOMAIN store : store[p].name = n /\ "gui" \in store[p].surfaces
        BY <1>1, OriginalsAssumption
      <4> QED
        BY <1>7, <4>1 DEF Range
    <3> QED
      BY <1>6, <1>8, <3>1
  <2>4. "own" \in Install /\ "none" \in Install
    BY DEF Install
  <2> QED
    BY <1>1, <1>2, <1>6, <2>1, <2>2, <2>3, <2>4 DEF FilesTyped
<1>11. ThreadsFit /\ LocksFit /\ Loaded /\ IdsApart /\ PlaceFree
  BY <1>1, <1>3 DEF ThreadsFit, LocksFit, Loaded, IdsApart, PlaceFree
<1>12. SlugsApart
  BY <1>1, <1>5 DEF SlugsApart, Marked, Clash
<1>13. LaunchersDue
  <2>1. ASSUME NEW q, NEW s \in Surfaces, NEW n
        PROVE  /\ Due(q, s, n) <=> q \in DOMAIN store /\ s \in store[q].surfaces /\ store[q].name = n
               /\ ~Out(q, n)
    BY <1>1, <1>3 DEF Due, Keeps, Before, Changing, Out, Idles
  <2>2. "gui" \in Surfaces /\ "cli" \in Surfaces
    BY DEF Surfaces
  <2>3. ASSUME NEW q \in Profiles PROVE BundleDue(q)
    <3> SUFFICES ASSUME NEW n \in Names PROVE OpensIt(n, q) <=> Due(q, "gui", n) /\ ~Out(q, n)
      BY DEF BundleDue
    <3>1. OpensIt(n, q) <=> q \in DOMAIN f /\ f[q] = n
      BY <1>8
    <3>2. /\ Due(q, "gui", n) <=> q \in DOMAIN store /\ "gui" \in store[q].surfaces /\ store[q].name = n
          /\ ~Out(q, n)
      BY <2>1, <2>2
    <3> QED
      BY <1>7, <3>1, <3>2
  <2>4. ASSUME NEW q \in Profiles PROVE WrapperDue(q)
    <3> SUFFICES ASSUME NEW z \in Slugs
                 PROVE  RunsIt(z, q) <=> \E n \in Names : SlugOf[n] = z /\ Due(q, "cli", n)
      BY DEF WrapperDue
    <3>1. RunsIt(z, q) <=> q \in DOMAIN store /\ "cli" \in store[q].surfaces /\ SlugOf[store[q].name] = z
      BY <1>9, <1>7
    <3> QED
      BY <1>4, <2>1, <2>2, <3>1
  <2> QED
    BY <2>3, <2>4 DEF LaunchersDue
<1> QED
  BY <1>10, <1>11, <1>12, <1>13 DEF ProfInv

LEMMA ProfStays == ASSUME ProfInv, UNCHANGED vars PROVE ProfInv'
<1>1. UNCHANGED <<store, dirs, bundles, outdated, wrappers, stock, backups, lock, building, cmds,
                  ops, failures, unsure>>
  BY DEF vars
<1>2. FilesTyped' /\ ThreadsFit' /\ LocksFit' /\ Loaded' /\ IdsApart'
  BY <1>1 DEF ProfInv, FilesTyped, ThreadsFit, LocksFit, Loaded, IdsApart
<1>3. SlugsApart' /\ PlaceFree'
  <2>1. SlugsApart /\ PlaceFree
    BY DEF ProfInv
  <2>2. SlugsApart'
    BY SMTT(30), <1>1, <2>1 DEF SlugsApart, Marked, Clash
  <2>3. PlaceFree'
    BY <1>1, <2>1 DEF PlaceFree
  <2> QED
    BY <2>2, <2>3
<1>4. LaunchersDue'
  <2>1. ASSUME NEW q, NEW w, NEW n
        PROVE  (Due(q, w, n)' <=> Due(q, w, n)) /\ (Out(q, n)' <=> Out(q, n))
    <3>1. Out(q, n)' <=> Out(q, n)
      BY <1>1 DEF Out
    <3>2. (Keeps(q, w) /\ Before(q)[q].name = n)' <=> Keeps(q, w) /\ Before(q)[q].name = n
      BY <1>1 DEF Keeps, Before, Changing
    <3> QED
      BY <1>1, <3>1, <3>2 DEF Due, Adds
  <2>2. \A q, n : (OpensIt(n, q)' <=> OpensIt(n, q)) /\ (RunsIt(n, q)' <=> RunsIt(n, q))
    BY <1>1 DEF OpensIt, RunsIt
  <2>3. ASSUME NEW q \in Profiles \ unsure PROVE BundleDue(q)' /\ WrapperDue(q)'
    <3>1. BundleDue(q) /\ WrapperDue(q)
      BY DEF ProfInv, LaunchersDue
    <3>2. BundleDue(q)'
      BY <2>1, <2>2, <3>1 DEF BundleDue
    <3>3. WrapperDue(q)'
      BY <2>1, <2>2, <3>1 DEF WrapperDue
    <3> QED
      BY <3>2, <3>3
  <2> QED
    BY <1>1, <2>3 DEF LaunchersDue
<1> QED
  BY <1>2, <1>3, <1>4 DEF ProfInv

LEMMA ProfGoes == ASSUME ProfInv, Next PROVE ProfInv'
<1>1. ASSUME NEW t \in Commands,
             Create(t) \/ Update(t) \/ Delete(t) \/ Toggle(t) \/ Stamp(t) \/ Regenerate(t) \/ Import(t)
      PROVE  ProfInv'
  BY <1>1, AskKeeps
<1>2. ASSUME NEW t \in Commands, Copy(t) \/ Trash(t) \/ Tidy(t) \/ Load(t) \/ Save(t)
      PROVE  ProfInv'
  BY <1>2, ImportCopyKeeps, TrashKeeps, TidyKeeps, LoadKeeps, SaveKeeps
<1>3. ASSUME NEW t \in Commands, Cli(t) \/ CliFails(t) \/ SaveFails(t) PROVE ProfInv'
  <2>1. t \in Threads
    BY DEF Threads
  <2> QED
    BY <1>3, <2>1, CliKeeps, CliFailsKeeps, SaveFailsKeeps
<1>4. ASSUME NEW t \in Commands, NEW s \in Surfaces, MoveAway(t, s) PROVE ProfInv'
  BY <1>4, AwayKeeps
<1>5. ASSUME NEW t \in Threads, Build(t) \/ BuildEnds(t) \/ BuildFails(t) PROVE ProfInv'
  BY <1>5, BuildKeeps, BuildEndsKeeps, BuildFailsKeeps
<1>6. ASSUME NEW s \in Surfaces, Recreate(s) PROVE ProfInv'
  BY <1>6, RecreateKeeps
<1> QED
  BY <1>1, <1>2, <1>3, <1>4, <1>5, <1>6, RefreshKeeps, AppQuitKeeps DEF Next

(* Every behaviour of the four parts: elsewhere the profiles stay.         *)
LEMMA ProfAlways == MacSpec => []ProfInv
<1>1. MacInit => ProfInv
  BY ProfStarts DEF MacInit
<1>2. ProfInv /\ [MacNext]_allVars => ProfInv'
  <2> SUFFICES ASSUME ProfInv, [MacNext]_allVars PROVE ProfInv'
    OBVIOUS
  <2>1. CASE Next
    BY <2>1, ProfGoes
  <2>2. CASE UNCHANGED vars
    BY <2>2, ProfStays
  <2> QED
    BY <2>1, <2>2 DEF MacNext, allVars
<1> QED
  BY <1>1, <1>2, PTL DEF MacSpec

(* The launchers on disk are those of the profiles in the list, for all    *)
(* that no command is busy with, none has failed on, and no thread without *)
(* the lock or import of a taken slug has upset.                           *)
THEOREM LaunchersAlwaysMatch == MacSpec => []LaunchersMatch
<1>1. ProfInv => LaunchersMatch
  <2> SUFFICES ASSUME ProfInv, NEW p \in Profiles, Settled(p)
               PROVE  /\ {n \in DOMAIN bundles : bundles[n] = p} =
                           {n \in Names : /\ p \in DOMAIN store /\ "gui" \in store[p].surfaces
                                          /\ store[p].name = n}
                      /\ {z \in DOMAIN wrappers : wrappers[z] = p} =
                           {SlugOf[n] : n \in {m \in Names : /\ p \in DOMAIN store
                                                             /\ "cli" \in store[p].surfaces
                                                             /\ store[p].name = m}}
    BY DEF LaunchersMatch
  <2>1. p \notin unsure /\ \A t \in Threads : cmds[t].id # p
    BY DEF Settled
  <2>2. ~Changing(p)
    BY <2>1 DEF Changing, ProfInv, LocksFit
  <2>3. ASSUME NEW s, NEW n
        PROVE  /\ Due(p, s, n) <=> p \in DOMAIN store /\ s \in store[p].surfaces /\ store[p].name = n
               /\ ~Out(p, n)
    BY <2>1, <2>2 DEF Due, Keeps, Before, Out
  <2>4. BundleDue(p) /\ WrapperDue(p)
    BY <2>1 DEF ProfInv, LaunchersDue
  <2>5. DOMAIN bundles \subseteq Names /\ DOMAIN wrappers \subseteq Slugs
    BY DEF ProfInv, FilesTyped
  <2>6. \A n \in Names : OpensIt(n, p) <=> p \in DOMAIN store /\ "gui" \in store[p].surfaces
                                                              /\ store[p].name = n
    BY <2>3, <2>4 DEF BundleDue
  <2>7. \A z \in Slugs : RunsIt(z, p) <=> \E n \in Names :
           SlugOf[n] = z /\ p \in DOMAIN store /\ "cli" \in store[p].surfaces /\ store[p].name = n
    BY <2>3, <2>4 DEF WrapperDue
  <2>8. \A n \in Names : SlugOf[n] \in Slugs
    BY DEF Slugs
  <2> QED
    BY <2>5, <2>6, <2>7, <2>8 DEF OpensIt, RunsIt
<1> QED
  BY <1>1, ProfAlways, PTL

------------------------------------------------------------------------------
(* The variables of all four parts have their types: the launchers stand   *)
(* under known names for known ids, every open, command and list is at one *)
(* of its steps with what that step goes by.                               *)
THEOREM MacTypesAlways == MacSpec => []TypesOK
<1>1. ProfInv => TypeOK
  <2> SUFFICES ASSUME ProfInv PROVE TypeOK
    OBVIOUS
  <2>1. DOMAIN store \subseteq Profiles /\ \A p \in DOMAIN store : store[p] \in Profile
    BY Listed
  <2>2. \A t \in Threads : cmds[t].id \in Profiles \cup {None}
    BY DEF ProfInv, ThreadsFit, Threaded
  <2> QED
    BY <2>1, <2>2 DEF ProfInv, FilesTyped, LocksFit, TypeOK
<1>2. OpenInv => Opening!TypeOK
  BY TypesApart DEF OpenInv
<1>3. SessionsInv => OnSessions!TypeOK
  BY DEF SessionsInv
<1>4. ProfInv /\ (Opens => OpenInv) /\ (Sessions => SessionsInv) /\ (Lists => Shown!TypeOK)
        => TypesOK
  BY <1>1, <1>2, <1>3 DEF TypesOK
<1> QED
  BY <1>4, ProfAlways, OpensAlways, SessionsAlways, ListsAlways, PTL
===============================================================================
