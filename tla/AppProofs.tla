------------------------------- MODULE AppProofs -------------------------------
(***************************************************************************)
(* The run of MCApp, proved: what each of the six parts of the Mac app     *)
(* keeps, in the behaviours of MCApp's own specification, for any profiles,*)
(* accounts, items, folders, notes and facts.  Every part has an inductive *)
(* invariant (CarryInv, FilesInv, LinkInv, MergeInv, ToolsInv, UsageInv);  *)
(* a step of the app is a step of one part and leaves the others alone.    *)
(***************************************************************************)
EXTENDS MCApp, TLAPS
------------------------------------------------------------------------------
(***************************************************************************)
(* Carrying a session's items.                                             *)
(***************************************************************************)

(* Only a host backs up first, and only it removes what its source lacks;  *)
(* no item of the source is cut in half.                                   *)
PlanInOrder ==
  /\ place = "back up" => program = "host"
  /\ program = "mac" => \A i \in Items : act[i] # "remove"
  /\ place = "delete" => after = "delete"
  /\ \A i \in Items : src[i] # "half"

SavedIn(i) == {dst[i]} \cap Carrying!Whole \subseteq backup[i]

(* What a host has yet to replace or remove is backed up, or will be; what *)
(* it copies has nothing in its place.                                     *)
BackedUpFirst ==
  /\ place = "back up" => \A i \in Items :
       /\ act[i] \in {"replace", "remove"} /\ i \notin left => SavedIn(i)
       /\ act[i] = "copy" => dst[i] = "none"
  /\ place = "apply" /\ program = "host" => \A i \in left :
       /\ act[i] \in {"replace", "remove"} => SavedIn(i)
       /\ act[i] = "copy" => dst[i] = "none"
       /\ act[i] \in {"replace", "remove", "copy"}

(* What the source has yet to give up is the destination's too.            *)
DeletesMoved ==
  place = "delete" => left \subseteq Carrying!Leaving
                      /\ \A i \in Carrying!Leaving : dst[i] = src[i]

CarryInv == Carrying!TypeOK /\ PlanInOrder /\ BackedUpFirst /\ DeletesMoved

USE DEF Carrying!Contents, Carrying!Whole, Carrying!Acts, Carrying!Phases, Carrying!planVars

LEMMA CarryStarts == ASSUME Carrying!Init PROVE CarryInv
<1>1. Carrying!TypeOK
  BY CarryingAssumption DEF Carrying!Init, Carrying!TypeOK, Carrying!KillsAssumption
<1> QED
  BY <1>1 DEF Carrying!Init, CarryInv, PlanInOrder, BackedUpFirst, DeletesMoved

LEMMA BackupTyped ==
  ASSUME NEW b \in [Items -> SUBSET Carrying!Whole], NEW i \in Items, NEW x
  PROVE  [b EXCEPT ![i] = @ \cup ({x} \cap Carrying!Whole)] \in [Items -> SUBSET Carrying!Whole]
<1> HIDE DEF Carrying!Whole
<1> QED
  OBVIOUS

LEMMA PlanKeeps ==
  ASSUME CarryInv, NEW way \in {"keep", "archive", "delete"}, Carrying!Plan(way)
  PROVE  CarryInv'
<1> USE DEF CarryInv, Carrying!Plan
<1>1. \A i \in Items : /\ Carrying!Action(i) \in Carrying!Acts
                       /\ Carrying!Action(i) = "copy" => dst[i] = "none"
                       /\ Carrying!Action(i) = "remove" => program = "host"
  BY DEF Carrying!Action, Carrying!TypeOK
<1>2. Carrying!TypeOK'
  BY <1>1 DEF Carrying!TypeOK
<1>3. PlanInOrder'
  BY <1>1 DEF PlanInOrder, Carrying!TypeOK
<1>4. BackedUpFirst'
  BY ZenonT(60), <1>1 DEF BackedUpFirst, SavedIn, Carrying!TypeOK
<1>5. DeletesMoved'
  BY DEF DeletesMoved
<1> QED
  BY <1>2, <1>3, <1>4, <1>5

LEMMA CarryStep == ASSUME CarryInv, Carrying!Next PROVE CarryInv'
<1>1. ASSUME NEW way \in {"keep", "archive", "delete"}, Carrying!Plan(way) PROVE CarryInv'
  BY <1>1, PlanKeeps
<1>2. ASSUME NEW i \in Items, Carrying!BackUp(i) PROVE CarryInv'
  <2>1. Carrying!TypeOK'
    BY <1>2, BackupTyped DEF Carrying!BackUp, CarryInv, Carrying!TypeOK
  <2>2. PlanInOrder' /\ DeletesMoved'
    BY <1>2 DEF Carrying!BackUp, CarryInv, PlanInOrder, DeletesMoved
  <2>3. \A j \in Items : backup[j] \subseteq backup'[j]
    BY <1>2 DEF Carrying!BackUp, CarryInv, Carrying!TypeOK
  <2>4. SavedIn(i)'
    BY <1>2 DEF Carrying!BackUp, CarryInv, Carrying!TypeOK, SavedIn
  <2>5. BackedUpFirst'
    BY <1>2, <2>3, <2>4 DEF Carrying!BackUp, CarryInv, BackedUpFirst, SavedIn
  <2> QED
    BY <2>1, <2>2, <2>5 DEF CarryInv
<1>3. ASSUME NEW i \in Items, Carrying!Place(i) \/ Carrying!MakeRoom(i) \/ Carrying!MoveToBackup(i)
             \/ Carrying!RemoveLeftOver(i)
      PROVE CarryInv'
  <2>a. /\ dst' \in [Items -> Carrying!Contents] /\ left' \subseteq Items
        /\ UNCHANGED <<program, src, archive, act, place, after, itemKills>>
    BY <1>3 DEF Carrying!Place, Carrying!MakeRoom, Carrying!MoveToBackup, Carrying!RemoveLeftOver,
       CarryInv, Carrying!TypeOK
  <2>b. backup' = backup \/ backup' = [backup EXCEPT ![i] = @ \cup ({dst[i]} \cap Carrying!Whole)]
    BY <1>3 DEF Carrying!Place, Carrying!MakeRoom, Carrying!MoveToBackup, Carrying!RemoveLeftOver
  <2>c. Carrying!TypeOK' /\ PlanInOrder'
    <3>1. backup' \in [Items -> SUBSET Carrying!Whole]
      <4>1. backup \in [Items -> SUBSET Carrying!Whole]
        BY DEF CarryInv, Carrying!TypeOK
      <4>2. [backup EXCEPT ![i] = @ \cup ({dst[i]} \cap Carrying!Whole)]
              \in [Items -> SUBSET Carrying!Whole]
        BY <4>1, BackupTyped
      <4> QED
        BY <2>b, <4>1, <4>2
    <3>2. Carrying!TypeOK'
      BY <2>a, <3>1 DEF CarryInv, Carrying!TypeOK
    <3> QED
      BY <2>a, <3>2 DEF CarryInv, PlanInOrder
  <2>2. place = "apply" /\ place' = "apply" /\ program' = program /\ act' = act
    BY <1>3 DEF Carrying!Place, Carrying!MakeRoom, Carrying!MoveToBackup, Carrying!RemoveLeftOver
  <2>3. \A j \in left' \ {i} : j \in left /\ dst'[j] = dst[j] /\ backup'[j] = backup[j]
    BY <1>3 DEF Carrying!Place, Carrying!MakeRoom, Carrying!MoveToBackup, Carrying!RemoveLeftOver,
       CarryInv, Carrying!TypeOK
  <2>4. program = "host" /\ i \in left' =>
          /\ dst[i] # "none" /\ dst'[i] \in {"none", "half"} /\ act[i] \in {"copy", "replace"}
          /\ i \in left
    BY <1>3 DEF Carrying!Place, Carrying!MakeRoom, Carrying!MoveToBackup, Carrying!RemoveLeftOver,
       CarryInv, Carrying!TypeOK
  <2>5. BackedUpFirst'
    BY <2>2, <2>3, <2>4 DEF CarryInv, BackedUpFirst, SavedIn
  <2>6. DeletesMoved'
    BY <2>2 DEF DeletesMoved
  <2> QED
    BY <2>c, <2>5, <2>6 DEF CarryInv
<1>4. ASSUME NEW i \in Items, Carrying!DeleteSource(i) PROVE CarryInv'
  BY <1>4 DEF Carrying!DeleteSource, CarryInv, Carrying!TypeOK, PlanInOrder, BackedUpFirst, SavedIn,
              DeletesMoved, Carrying!Leaving, Carrying!Own
<1>5. ASSUME NEW i \in Items, Carrying!GoOn(i) PROVE CarryInv'
  BY <1>5 DEF Carrying!GoOn, CarryInv, Carrying!TypeOK, PlanInOrder, BackedUpFirst, SavedIn,
              DeletesMoved
<1>6. CASE Carrying!BackedUp
  BY <1>6 DEF Carrying!BackedUp, CarryInv, Carrying!TypeOK, PlanInOrder, BackedUpFirst, SavedIn,
              DeletesMoved
<1>a. CASE Carrying!Applied
  BY <1>a DEF Carrying!Applied, CarryInv, Carrying!TypeOK, PlanInOrder, BackedUpFirst, SavedIn,
              DeletesMoved
<1>b. CASE Carrying!Archive
  <2>1. Transcript \in Items
    BY CarryingAssumption DEF Carrying!ItemsAssumption
  <2>2. src[Transcript] \in Carrying!Whole
    BY <1>b, <2>1 DEF Carrying!Archive, CarryInv, Carrying!TypeOK, PlanInOrder
  <2>3. Carrying!TypeOK' /\ PlanInOrder'
    BY <1>b, <2>1, <2>2 DEF Carrying!Archive, CarryInv, Carrying!TypeOK, PlanInOrder
  <2> QED
    BY <1>b, <2>3 DEF Carrying!Archive, CarryInv, BackedUpFirst, DeletesMoved
<1>7. CASE Carrying!CheckMoved
  <2>1. Carrying!Leaving \subseteq Items
    BY DEF Carrying!Leaving, Carrying!Own
  <2>2. Carrying!Leaving' = Carrying!Leaving
    BY <1>7 DEF Carrying!CheckMoved, Carrying!Leaving, Carrying!Own
  <2> QED
    BY <1>7, <2>1, <2>2 DEF Carrying!CheckMoved, CarryInv, Carrying!TypeOK, PlanInOrder,
      BackedUpFirst, DeletesMoved
<1>8. CASE Carrying!Stops
  <2>1. itemKills' \in 0..MaxStops
    <3>1. MaxStops \in Nat
      BY CarryingAssumption DEF Carrying!KillsAssumption
    <3>2. itemKills \in 0..MaxStops
      BY DEF CarryInv, Carrying!TypeOK
    <3>3. itemKills < MaxStops /\ itemKills' = itemKills + 1
      BY <1>8 DEF Carrying!Stops
    <3> QED
      BY <3>1, <3>2, <3>3
  <2>2. Carrying!TypeOK'
    BY <1>8, <2>1 DEF Carrying!Stops, CarryInv, Carrying!TypeOK
  <2> QED
    BY <1>8, <2>2 DEF Carrying!Stops, CarryInv, PlanInOrder, BackedUpFirst, DeletesMoved
<1> QED
  BY <1>1, <1>2, <1>3, <1>4, <1>5, <1>6, <1>7, <1>8, <1>a, <1>b DEF Carrying!Next
------------------------------------------------------------------------------
(* What an item holds stays kept.                                          *)
LEMMA KeptMembers ==
  ASSUME NEW i \in Items, NEW c \in Carrying!Whole
  PROVE  /\ <<i, c>> \in Carrying!Kept <=> Carrying!IsKept(i, c)
         /\ <<i, c>> \in Carrying!Mine <=> src[i] = c
BY DEF Carrying!Kept, Carrying!Mine

(* All but Claude's going on keeps what is kept, and gives the source      *)
(* nothing.                                                                *)
LEMMA StepsKeep ==
  ASSUME CarryInv, Carrying!Next, \A i \in Items : ~Carrying!GoOn(i)
  PROVE  \A i \in Items, c \in Carrying!Whole :
           /\ Carrying!IsKept(i, c) => Carrying!IsKept(i, c)'
           /\ src'[i] = c => src[i] = c
<1> SUFFICES ASSUME NEW j \in Items, NEW c \in Carrying!Whole
             PROVE  /\ Carrying!IsKept(j, c) => Carrying!IsKept(j, c)'
                    /\ src'[j] = c => src[j] = c
  OBVIOUS
<1> USE DEF Carrying!IsKept
<1>1. CASE UNCHANGED <<src, dst, backup, archive>>
  BY <1>1
<1>2. ASSUME NEW i \in Items, Carrying!BackUp(i) \/ Carrying!MoveToBackup(i)
      PROVE  Carrying!IsKept(j, c) => Carrying!IsKept(j, c)'
  <2>1. UNCHANGED <<src, archive>>
    BY <1>2 DEF Carrying!BackUp, Carrying!MoveToBackup
  <2>2. backup' = [backup EXCEPT ![i] = @ \cup ({dst[i]} \cap Carrying!Whole)]
    BY <1>2 DEF Carrying!BackUp, Carrying!MoveToBackup
  <2>3. backup[j] \subseteq backup'[j] /\ (dst[i] = c => c \in backup'[i])
    BY <2>2 DEF CarryInv, Carrying!TypeOK
  <2>4. i # j => dst'[j] = dst[j]
    BY <1>2 DEF Carrying!BackUp, Carrying!MoveToBackup, CarryInv, Carrying!TypeOK
  <2> QED
    BY <2>1, <2>3, <2>4
<1>3. ASSUME NEW i \in Items, Carrying!Place(i) \/ Carrying!MakeRoom(i) \/ Carrying!RemoveLeftOver(i)
      PROVE  Carrying!IsKept(j, c) => Carrying!IsKept(j, c)'
  <2>1. i \in left /\ place = "apply" /\ UNCHANGED <<src, backup, archive>>
    BY <1>3 DEF Carrying!Place, Carrying!MakeRoom, Carrying!RemoveLeftOver, Carrying!Next1
  <2>2. i # j => dst'[j] = dst[j]
    BY <1>3 DEF Carrying!Place, Carrying!MakeRoom, Carrying!RemoveLeftOver, CarryInv,
                Carrying!TypeOK
  <2>3. dst[i] = "none" \/ SavedIn(i)
    BY <1>3, <2>1 DEF Carrying!Place, Carrying!MakeRoom, Carrying!RemoveLeftOver, CarryInv,
                Carrying!TypeOK, BackedUpFirst, PlanInOrder
  <2> QED
    BY <2>1, <2>2, <2>3 DEF SavedIn
<1>4. ASSUME NEW i \in Items, Carrying!DeleteSource(i)
      PROVE  Carrying!IsKept(j, c) => Carrying!IsKept(j, c)'
  BY <1>4 DEF Carrying!DeleteSource, Carrying!Next1, CarryInv, Carrying!TypeOK, DeletesMoved
<1>5. CASE Carrying!Archive
  BY <1>5 DEF Carrying!Archive, CarryInv, Carrying!TypeOK
<1>6. src'[j] = c => src[j] = c
  BY DEF Carrying!Next, Carrying!Plan, Carrying!BackUp, Carrying!Place, Carrying!MakeRoom,
         Carrying!MoveToBackup, Carrying!RemoveLeftOver, Carrying!DeleteSource, Carrying!BackedUp,
         Carrying!Applied, Carrying!Archive, Carrying!CheckMoved, Carrying!Stops, CarryInv,
         Carrying!TypeOK
<1>7. (\E way \in {"keep", "archive", "delete"} : Carrying!Plan(way)) \/ Carrying!BackedUp
        \/ Carrying!Applied \/ Carrying!CheckMoved \/ Carrying!Stops
      => UNCHANGED <<src, dst, backup, archive>>
  BY DEF Carrying!Plan, Carrying!BackedUp, Carrying!Applied, Carrying!CheckMoved, Carrying!Stops
<1> QED
  BY <1>1, <1>2, <1>3, <1>4, <1>5, <1>6, <1>7 DEF Carrying!Next

LEMMA GoOnKeeps ==
  ASSUME CarryInv, NEW i \in Items, Carrying!GoOn(i)
  PROVE  Carrying!Promise!Continue
<1> DEFINE a == <<i, "now">>
           b == <<i, "later">>
           things == Items \X Carrying!Whole
<1>1. a \in Carrying!Mine /\ b \in things \ Carrying!Mine
  BY DEF Carrying!GoOn, Carrying!Mine
<1>2. \A j \in Items, c \in Carrying!Whole : <<j, c>> # a /\ <<j, c>> # b =>
        /\ src'[j] = c <=> src[j] = c
        /\ Carrying!IsKept(j, c)' <=> Carrying!IsKept(j, c)
  BY DEF Carrying!GoOn, Carrying!IsKept, CarryInv, Carrying!TypeOK
<1>3. a \notin Carrying!Mine' /\ b \in Carrying!Mine' /\ b \in Carrying!Kept'
  BY DEF Carrying!GoOn, Carrying!Mine, Carrying!Kept, Carrying!IsKept, CarryInv, Carrying!TypeOK
<1>4. Carrying!Mine' = (Carrying!Mine \ {a}) \cup {b}
  BY <1>1, <1>2, <1>3 DEF Carrying!Mine
<1>5. Carrying!Kept' \in {Carrying!Kept \cup {b}, (Carrying!Kept \ {a}) \cup {b}}
  <2>1. \A t \in things : t # a /\ t # b => (t \in Carrying!Kept' <=> t \in Carrying!Kept)
    BY <1>2 DEF Carrying!Kept
  <2>2. Carrying!Kept' \subseteq things /\ Carrying!Kept \subseteq things
    BY DEF Carrying!Kept
  <2>3. a \in Carrying!Kept
    BY <1>1 DEF Carrying!Mine, Carrying!Kept, Carrying!IsKept
  <2>4. CASE a \in Carrying!Kept'
    <3>1. Carrying!Kept' = Carrying!Kept \cup {b}
      BY <1>3, <2>1, <2>2, <2>3, <2>4
    <3> QED
      BY <3>1
  <2>5. CASE a \notin Carrying!Kept'
    <3>1. Carrying!Kept' = (Carrying!Kept \ {a}) \cup {b}
      BY <1>1, <1>3, <2>1, <2>2, <2>3, <2>5
    <3> QED
      BY <3>1
  <2> QED
    BY <2>4, <2>5
<1>6. Carrying!Here' = Carrying!Here
  BY CarryingAssumption DEF Carrying!ItemsAssumption, Carrying!GoOn, Carrying!Here, CarryInv, Carrying!TypeOK
<1>7. Carrying!There' \in BOOLEAN
  BY DEF Carrying!There
<1> QED
  BY <1>1, <1>4, <1>5, <1>6, <1>7 DEF Carrying!Promise!Continue

(* One step of a move is one MovePromise allows.                           *)
LEMMA MoveKeepsPromise ==
  ASSUME CarryInv, Carrying!Next
  PROVE  Carrying!Promise!Next
<1>1. CASE \E i \in Items : Carrying!GoOn(i)
  BY <1>1, GoOnKeeps DEF Carrying!Promise!Next
<1>2. CASE \A i \in Items : ~Carrying!GoOn(i)
  <2>1. Carrying!Kept \subseteq Carrying!Kept' /\ Carrying!Kept' \subseteq Items \X Carrying!Whole
    BY <1>2, StepsKeep DEF Carrying!Kept
  <2>2. Carrying!Mine' \subseteq Carrying!Mine
    BY <1>2, StepsKeep DEF Carrying!Mine
  <2>3. Carrying!Here /\ ~Carrying!Here' => Carrying!There
    <3>1. CASE \E i \in Items : Carrying!DeleteSource(i)
      BY <3>1 DEF Carrying!DeleteSource, CarryInv, DeletesMoved, Carrying!There
    <3>2. CASE Carrying!Archive
      BY <3>2 DEF Carrying!Archive, Carrying!There
    <3>3. CASE UNCHANGED src
      BY <3>3 DEF Carrying!Here
    <3> QED
      BY <1>2, <3>1, <3>2, <3>3 DEF Carrying!Next, Carrying!Plan, Carrying!BackUp, Carrying!Place,
         Carrying!MakeRoom, Carrying!MoveToBackup, Carrying!RemoveLeftOver, Carrying!BackedUp,
         Carrying!Applied, Carrying!CheckMoved, Carrying!Stops
  <2>4. Carrying!Here' \in BOOLEAN /\ Carrying!There' \in BOOLEAN
    BY DEF Carrying!Here, Carrying!There
  <2> QED
    BY <2>1, <2>2, <2>3, <2>4 DEF Carrying!Promise!Next, Carrying!Promise!Work
<1> QED
  BY <1>1, <1>2

LEMMA CarryAlways == AppSpec => [](Carries => CarryInv)
<1>1. AppInit => (Carries => CarryInv)
  BY CarryStarts DEF AppInit, AtUsage, AtTools, AtLinks, AtFiles, Carries, Merges
<1>2. (Carries => CarryInv) /\ [AppNext]_allVars => (Carries => CarryInv)'
  <2> SUFFICES ASSUME Carries => CarryInv, [AppNext]_allVars, Carries' PROVE CarryInv'
    OBVIOUS
  <2>1. CarryInv
    BY DEF AppNext, allVars, Carries
  <2>2. CASE UNCHANGED itemVars
    BY <2>1, <2>2 DEF itemVars, CarryInv, Carrying!TypeOK, PlanInOrder, BackedUpFirst, SavedIn,
       DeletesMoved, Carrying!Leaving, Carrying!Own
  <2> QED
    BY <2>1, <2>2, CarryStep DEF AppNext, allVars, AtUsage, AtTools, AtLinks, AtFiles, Carries,
       Merges
<1> QED
  BY <1>1, <1>2, PTL DEF AppSpec

(* A move on either program, through failures, kills and further moves,    *)
(* keeps what MovePromise promises: nothing either account had is lost, and *)
(* the source's transcript goes only once the destination or an archive    *)
(* has everything.                                                         *)
THEOREM MovesKeepPromise == AppSpec => KeepsPromise
<1>1. AppInit => (Carries => Carrying!Promise!Init)
  <2>1. Carrying!Init => Carrying!Promise!Init
    <3> SUFFICES ASSUME Carrying!Init PROVE Carrying!Promise!Init
      OBVIOUS
    <3>1. Carrying!Kept \subseteq Items \X Carrying!Whole
      BY DEF Carrying!Kept
    <3>2. Carrying!Mine \subseteq Carrying!Kept
      BY DEF Carrying!Kept, Carrying!Mine, Carrying!IsKept
    <3>3. Carrying!Here = TRUE /\ Carrying!There \in BOOLEAN
      BY DEF Carrying!Init, Carrying!Here, Carrying!There
    <3> QED
      BY <3>1, <3>2, <3>3 DEF Carrying!Promise!Init
  <2> QED
    BY <2>1 DEF AppInit, AtUsage, AtTools, AtLinks, AtFiles, Carries, Merges
<1>2. (Carries => CarryInv) /\ [AppNext]_allVars => [Carries => Carrying!Keeps]_itemVars
  BY MoveKeepsPromise DEF AppNext, allVars, Carrying!Keeps, AtUsage, AtTools, AtLinks, AtFiles,
     Carries, Merges
<1> QED
  BY <1>1, <1>2, CarryAlways, PTL DEF AppSpec, KeepsPromise
------------------------------------------------------------------------------
(***************************************************************************)
(* Files of others.  While the app is at a file, what was written of it    *)
(* before is in what it read, or in a backup, until that is in the file.   *)
(* What an install that nobody raced has looked at is still so, since      *)
(* nobody else has changed it.                                             *)
(***************************************************************************)

BackedUp(v) == v = 0 \/ \E b \in saved : b >= v

RcSafe ==
  /\ Files!TextKept
  /\ hooking.step = "read" =>
       BackedUp(settled.rc) \/ (hooking.whole /\ hooking.version >= settled.rc)
  /\ hooking.step \in {"backedUp", "cut"} => BackedUp(settled.rc)

(* What is newest was numbered last.                                       *)
Numbered == settled.rc <= writes + 1 /\ settled.desktop <= writes + 1

(* An install alone at the desktop app's config holds what is newest of it.*)
Holds(i) ==
  LET m == install[i] IN
  /\ m.seen.version >= settled.desktop /\ "other" \in m.seen.servers
  /\ m.step = "writing" => m.opened = "temp"
  /\ m.step = "staged" => temp = Files!WithServer(m.seen)

Alone ==
  /\ \A i, j \in Pair : Files!AtDesktop(i) /\ Files!AtDesktop(j) => i = j
  /\ \A i \in Pair : Files!AtDesktop(i) => Holds(i)

DesktopSafe == Files!ConfigKept /\ (~together => Alone)

OneEntry == "other" \in code.servers /\ ~({"older", "ours"} \subseteq code.servers)

Good == {"Added", "AlreadyThere"}

(* What an install nobody raced knows and says.                            *)
Knows(i) ==
  LET m == install[i] IN
  /\ \A j \in Pair \ {i} : install[j].step = "idle"
  /\ Files!AtDesktop(i) => m.seen = desktop
  /\ m.step = "writing" => m.opened = "temp"
  /\ m.step = "staged" => temp = Files!WithServer(desktop)
  /\ ~Files!AtDesktop(i) /\ m.desktop \in Good => Files!HasServer(desktop)
  /\ m.step = "legacy" => m.seen = code
  /\ m.step \in {"older", "add"} => "legacy" \notin code.servers
  /\ m.step = "idle" /\ m.code \in Good => code.servers = {"other", "ours"}

Unraced == \A i \in Pair : install[i].raced \/ install[i] = Files!AtRest \/ Knows(i)

FilesInv == Files!TypeOK /\ RcSafe /\ Numbered /\ DesktopSafe /\ OneEntry /\ Unraced

USE DEF Files!Servers, Files!Outcomes, Files!Stages, Files!hookVars, Files!installVars,
        Files!Stands, Files!AtDesktop

LEMMA RestTyped == Files!Empty \in Files!Configs /\ Files!AtRest \in Files!Progress
BY FilesAssumption DEF Files!Empty, Files!Configs, Files!AtRest, Files!Progress, Files!Versions

LEMMA FilesStart == ASSUME Files!Init PROVE FilesInv
<1>1. desktop \in Files!Configs /\ code \in Files!Configs
  BY FilesAssumption DEF Files!Init, Files!Configs, Files!Versions
<1>2. Files!TypeOK
  <2>1. starts \in 0..MaxStarts /\ writes \in 0..MaxEdits /\ kills \in 0..FileKills
    BY FilesAssumption DEF Files!Init
  <2>2. install \in [Pair -> Files!Progress] /\ temp = Files!NoFile
    BY RestTyped DEF Files!Init
  <2>3. 0 \in Files!Versions /\ 1 \in Files!Versions
    BY FilesAssumption DEF Files!Versions
  <2>4. rc \in [version : Files!Versions, whole : BOOLEAN, hook : BOOLEAN]
    BY <2>3 DEF Files!Init
  <2>5. settled \in [rc : Files!Versions, desktop : Files!Versions]
    BY <2>3, <2>4 DEF Files!Init
  <2>6. hooking \in [step : {"idle", "read", "backedUp", "cut"},
                     version : Files!Versions, whole : BOOLEAN]
    BY <2>3 DEF Files!Init, Files!NoHook
  <2> QED
    BY <1>1, <2>1, <2>2, <2>4, <2>5, <2>6 DEF Files!Init, Files!TypeOK
<1>3. RcSafe /\ Numbered
  <2>1. /\ rc.version \in {0, 1} /\ rc.whole /\ hooking.step = "idle" /\ writes = 0
        /\ settled.rc = rc.version /\ settled.desktop = 1
    BY DEF Files!Init, Files!NoHook
  <2> QED
    BY <2>1 DEF RcSafe, Files!TextKept, Numbered
<1>4. DesktopSafe /\ OneEntry
  BY DEF Files!Init, DesktopSafe, Files!ConfigKept, Alone, OneEntry, Files!AtRest
<1>5. Unraced
  BY DEF Files!Init, Unraced
<1> QED
  BY <1>2, <1>3, <1>4, <1>5 DEF FilesInv

(* What a step of an install leaves of it.                                 *)
LEMMA SaysOnly ==
  ASSUME Files!TypeOK, NEW i \in Pair, NEW where \in {"desktop", "code"},
         NEW outcome \in Files!Outcomes, NEW step \in Files!Stages,
         Files!Says(i, where, outcome, step)
  PROVE  /\ install' \in [Pair -> Files!Progress]
         /\ \A j \in Pair \ {i} : install'[j] = install[j]
         /\ install'[i].step = step /\ install'[i].seen = install[i].seen
         /\ install'[i].raced = install[i].raced
         /\ install'[i].desktop = IF where = "desktop" THEN outcome ELSE install[i].desktop
         /\ install'[i].code = IF where = "code" THEN outcome ELSE install[i].code
<1>1. install[i] \in Files!Progress
  BY DEF Files!TypeOK
<1>2. CASE where = "desktop"
  <2>1. install' = [install EXCEPT ![i] = [@ EXCEPT !.step = step, !.desktop = outcome]]
    BY <1>1, <1>2 DEF Files!Says, Files!Progress, Files!TypeOK
  <2> QED
    BY <1>1, <1>2, <2>1 DEF Files!Progress, Files!TypeOK
<1>3. CASE where = "code"
  <2>1. install' = [install EXCEPT ![i] = [@ EXCEPT !.step = step, !.code = outcome]]
    BY <1>1, <1>3 DEF Files!Says, Files!Progress, Files!TypeOK
  <2> QED
    BY <1>1, <1>3, <2>1 DEF Files!Progress, Files!TypeOK
<1> QED
  BY <1>2, <1>3

LEMMA GoesOnly ==
  ASSUME Files!TypeOK, NEW i \in Pair, NEW step \in Files!Stages, Files!Goes(i, step)
  PROVE  /\ install' \in [Pair -> Files!Progress]
         /\ \A j \in Pair \ {i} : install'[j] = install[j]
         /\ install'[i].step = step /\ install'[i].seen = install[i].seen
         /\ install'[i].opened = install[i].opened
         /\ install'[i].raced = install[i].raced
         /\ install'[i].desktop = install[i].desktop /\ install'[i].code = install[i].code
BY DEF Files!TypeOK, Files!Goes, Files!Progress

LEMMA HooksKeep ==
  ASSUME FilesInv,
         \/ Files!ReadRc \/ Files!BackUpRc \/ Files!CutRc \/ Files!WriteRc \/ Files!HookFails
  PROVE  FilesInv'
<1> USE DEF Files!ReadRc, Files!BackUpRc, Files!CutRc, Files!WriteRc, Files!HookFails,
            Files!Emptied, Files!NoHook
<1>1. UNCHANGED <<settled, together, writes, kills, desktop, code, temp, install>>
  OBVIOUS
<1>t. /\ rc \in [version : Files!Versions, whole : BOOLEAN, hook : BOOLEAN]
      /\ hooking \in [step : {"idle", "read", "backedUp", "cut"},
                      version : Files!Versions, whole : BOOLEAN]
      /\ settled \in [rc : Files!Versions, desktop : Files!Versions]
      /\ saved \subseteq Files!Versions /\ starts \in 0..MaxStarts
      /\ Files!Versions \subseteq Nat /\ 0 \in Files!Versions
  BY FilesAssumption DEF FilesInv, Files!TypeOK, Files!Versions
<1>2. Files!TypeOK'
  <2>1. starts' \in 0..MaxStarts
    BY <1>t, FilesAssumption
  <2>2. rc' \in [version : Files!Versions, whole : BOOLEAN, hook : BOOLEAN]
    <3>1. (rc.version = 0) \in BOOLEAN
      OBVIOUS
    <3>2. CASE Files!CutRc
      BY <1>t, <3>1, <3>2
    <3>3. CASE Files!WriteRc
      BY <1>t, <3>3
    <3>4. CASE Files!ReadRc \/ Files!BackUpRc \/ Files!HookFails
      BY <1>t, <3>4
    <3> QED
      BY <3>2, <3>3, <3>4
  <2>3. hooking' \in [step : {"idle", "read", "backedUp", "cut"},
                      version : Files!Versions, whole : BOOLEAN]
    <3>1. PICK s \in {"idle", "read", "backedUp", "cut"}, v \in Files!Versions, w \in BOOLEAN :
            hooking' = [step |-> s, version |-> v, whole |-> w]
      <4>1. CASE Files!ReadRc
        BY <1>t, <4>1
      <4>2. CASE Files!BackUpRc
        <5>1. hooking' = [step |-> "backedUp", version |-> hooking.version,
                          whole |-> hooking.whole]
          BY <1>t, <4>2
        <5> QED
          BY <1>t, <5>1
      <4>3. CASE Files!CutRc
        <5>1. hooking' = [step |-> "cut", version |-> hooking.version,
                          whole |-> hooking.whole]
          BY <1>t, <4>3
        <5> QED
          BY <1>t, <5>1
      <4>4. CASE Files!WriteRc \/ Files!HookFails
        BY <1>t, <4>4
      <4> QED
        BY <4>1, <4>2, <4>3, <4>4
    <3> QED
      BY <3>1
  <2>4. saved' \subseteq Files!Versions
    <3>1. saved' = saved \/ saved' = saved \cup {hooking.version}
      OBVIOUS
    <3> QED
      BY <1>t, <3>1
  <2> QED
    BY <1>1, <2>1, <2>2, <2>3, <2>4 DEF FilesInv, Files!TypeOK
<1>3. RcSafe'
  <2>1. RcSafe /\ saved \subseteq saved'
    BY DEF FilesInv
  <2>2. BackedUp(settled.rc) => BackedUp(settled.rc)'
    BY <1>1, <2>1 DEF BackedUp
  <2>3. CASE Files!ReadRc
    BY <1>1, <1>t, <2>1, <2>2, <2>3 DEF RcSafe, Files!TextKept, BackedUp
  <2>4. CASE Files!BackUpRc
    <3>1. BackedUp(settled.rc)'
      <4>1. CASE BackedUp(settled.rc)
        BY <2>2, <4>1
      <4>2. CASE hooking.whole /\ hooking.version >= settled.rc
        BY <1>1, <1>t, <2>4, <4>2 DEF BackedUp
      <4> QED
        BY <2>1, <2>4, <4>1, <4>2 DEF RcSafe
    <3> QED
      BY <1>1, <1>t, <2>1, <2>4, <3>1 DEF RcSafe, Files!TextKept
  <2>5. CASE Files!CutRc \/ Files!WriteRc \/ Files!HookFails
    BY <1>1, <1>t, <2>1, <2>2, <2>5 DEF RcSafe, Files!TextKept, BackedUp
  <2> QED
    BY <2>3, <2>4, <2>5
<1>4. DesktopSafe'
  BY <1>1 DEF FilesInv, DesktopSafe, Files!ConfigKept, Alone, Holds
<1>5. OneEntry' /\ Numbered'
  BY <1>1 DEF FilesInv, OneEntry, Numbered
<1>6. Unraced'
  BY <1>1 DEF FilesInv, Unraced, Knows
<1> QED
  BY <1>2, <1>3, <1>4, <1>5, <1>6 DEF FilesInv

LEMMA RacedTyped ==
  ASSUME NEW m \in Files!Progress
  PROVE  /\ [m EXCEPT !.raced = TRUE] \in Files!Progress
         /\ [m EXCEPT !.raced = TRUE].raced
         /\ [m EXCEPT !.raced = TRUE].step = m.step /\ [m EXCEPT !.raced = TRUE].seen = m.seen
         /\ [m EXCEPT !.raced = TRUE].opened = m.opened
BY DEF Files!Progress

(* An install begins; the ones beside it, and it, are raced.               *)
LEMMA InstallKeeps ==
  ASSUME FilesInv, NEW i \in Pair, Files!Install(i) PROVE FilesInv'
<1> DEFINE others == {j \in Pair \ {i} : install[j].step # "idle"}
<1>0. /\ starts < MaxStarts /\ starts' = starts + 1
      /\ UNCHANGED <<rc, saved, hooking, desktop, code, temp, settled, writes, kills>>
      /\ together' = (together \/ \E j \in Pair \ {i} : Files!AtDesktop(j))
  BY DEF Files!Install
<1>t. Files!TypeOK /\ together \in BOOLEAN
  BY DEF FilesInv, Files!TypeOK
<1>x. \A j \in Pair : install[j] \in Files!Progress
  BY <1>t DEF Files!TypeOK
<1>1. /\ install'[i] = [Files!AtRest EXCEPT !.step = "staging", !.seen = desktop,
                                           !.raced = others # {}]
      /\ \A j \in others : install'[j] = [install[j] EXCEPT !.raced = TRUE]
      /\ \A j \in Pair \ ({i} \cup others) : install'[j] = Files!AtRest
      /\ install' = [j \in Pair |-> install'[j]]
  BY DEF Files!Install
<1>2. install' \in [Pair -> Files!Progress]
  <2>1. install'[i] \in Files!Progress
    <3>1. desktop \in Files!Configs /\ (others # {}) \in BOOLEAN
      BY <1>t DEF Files!TypeOK
    <3> QED
      BY <1>1, <3>1, RestTyped DEF Files!Progress
  <2>2. \A j \in others : install'[j] \in Files!Progress
    BY <1>1, <1>x, RacedTyped
  <2> QED
    BY <1>1, <2>1, <2>2, RestTyped
<1>3. starts' \in 0..MaxStarts
  BY <1>0, <1>t, FilesAssumption DEF Files!TypeOK
<1>4. Files!TypeOK'
  BY <1>0, <1>t, <1>2, <1>3 DEF Files!TypeOK
<1>b. RcSafe' /\ OneEntry' /\ Numbered'
  BY <1>0 DEF FilesInv, RcSafe, Files!TextKept, BackedUp, OneEntry, Numbered
<1>5. /\ install'[i].step = "staging" /\ install'[i].seen = desktop
      /\ install'[i].desktop = "none" /\ install'[i].raced = (others # {})
  BY <1>1 DEF Files!AtRest
<1>6. \A j \in others : install'[j].raced /\ install'[j].step = install[j].step
                        /\ install'[j].seen = install[j].seen
  BY <1>1, <1>x, RacedTyped
<1>7. DesktopSafe'
  <2>1. \A j \in Pair \ ({i} \cup others) : install'[j].step = "idle"
    BY <1>1 DEF Files!AtRest
  <2>2. CASE together'
    BY <2>2 DEF DesktopSafe, Files!ConfigKept
  <2>3. CASE ~together'
    <3>1. Files!ConfigKept' /\ desktop.version >= settled.desktop /\ "other" \in desktop.servers
      BY <1>0, <2>3 DEF FilesInv, DesktopSafe, Files!ConfigKept
    <3>2. \A j \in Pair \ {i} : install'[j].step \notin {"staging", "writing", "staged"}
      BY <1>0, <1>6, <2>1, <2>3
    <3>3. Holds(i)'
      BY <1>0, <1>5, <3>1 DEF Holds
    <3> QED
      BY <3>1, <3>2, <3>3 DEF DesktopSafe, Alone
  <2> QED
    BY <2>2, <2>3
<1>8. others = {} => Knows(i)'
  BY <1>0, <1>1, <1>5 DEF Knows, Files!AtRest
<1>9. Unraced'
  <2>1. i \notin others
    OBVIOUS
  <2> QED
    BY <1>1, <1>5, <1>6, <1>8, <2>1 DEF Unraced
<1> QED
  BY <1>4, <1>7, <1>9, <1>b DEF FilesInv

(* What a step of another install leaves as it is.                         *)
Same(j) == /\ install'[j].step = install[j].step /\ install'[j].raced = install[j].raced
           /\ install'[j].seen = install[j].seen
           /\ install'[j] = install[j] \/ install[j].step = "writing"

(* A step of install i that leaves the rest to it. *)
LEMMA InstallSteps ==
  ASSUME FilesInv, NEW i \in Pair, install' \in [Pair -> Files!Progress],
         \A j \in Pair \ {i} : Same(j), install[i].step # "idle",
         install'[i].raced = install[i].raced,
         desktop' \in Files!Configs, code' \in Files!Configs,
         temp' \in Files!Configs \cup {Files!NoFile},
         OneEntry', DesktopSafe',
         UNCHANGED <<rc, saved, hooking, settled, together, starts, writes, kills>>,
         install[i].raced \/ ((\A j \in Pair \ {i} : install[j].step = "idle") => Knows(i)')
  PROVE  FilesInv'
<1>1. Files!TypeOK'
  BY DEF FilesInv, Files!TypeOK
<1>2. RcSafe' /\ Numbered'
  BY DEF FilesInv, RcSafe, Files!TextKept, BackedUp, Numbered
<1>3. ASSUME NEW j \in Pair, j # i, ~install'[j].raced, install'[j] # Files!AtRest
      PROVE  FALSE
  <2>1. Same(j)
    BY <1>3
  <2>2. ~install[j].raced /\ install[j] # Files!AtRest
    BY <1>3, <2>1 DEF Same, Files!AtRest
  <2> QED
    BY <1>3, <2>2 DEF FilesInv, Unraced, Knows
<1>4. ~install[i].raced => \A j \in Pair \ {i} : install[j].step = "idle"
  BY DEF FilesInv, Unraced, Knows, Files!AtRest
<1>5. Unraced'
  BY <1>3, <1>4 DEF Unraced
<1> QED
  BY <1>1, <1>2, <1>5 DEF FilesInv

(* One that isn't at the desktop app's config after it.                    *)
LEMMA LeavesDesktop ==
  ASSUME FilesInv, NEW i \in Pair, \A j \in Pair \ {i} : install'[j] = install[j],
         install'[i].step \notin {"staging", "writing", "staged"},
         UNCHANGED <<desktop, temp, settled, together>>
  PROVE  DesktopSafe' /\ \A j \in Pair \ {i} : Same(j)
<1>1. \A j \in Pair \ {i} : Same(j)
  BY DEF Same
<1>2. DesktopSafe'
  BY DEF FilesInv, DesktopSafe, Files!ConfigKept, Alone, Holds
<1> QED
  BY <1>1, <1>2

LEMMA ServersTyped ==
  ASSUME NEW c \in Files!Configs
  PROVE  /\ Files!WithServer(c) \in Files!Configs
         /\ Files!WithServer(c).servers = (c.servers \ {"legacy", "older"}) \cup {"ours"}
         /\ Files!WithServer(c).version = c.version
         /\ \A s \in SUBSET Files!Servers : [c EXCEPT !.servers = s] \in Files!Configs
                                            /\ [c EXCEPT !.servers = s].servers = s
         /\ c.servers \in SUBSET Files!Servers
BY DEF Files!Configs, Files!WithServer

(* Its steps at the desktop app's config.                                  *)
LEMMA DesktopKeeps ==
  ASSUME FilesInv, NEW i \in Pair,
         \/ Files!LeaveAlone(i) \/ Files!DesktopHasIt(i) \/ Files!StageDesktop(i)
         \/ Files!WriteTemp(i) \/ Files!RenameDesktop(i) \/ Files!WriteFails(i)
  PROVE  FilesInv'
<1>0. /\ Files!TypeOK /\ desktop \in Files!Configs /\ code \in Files!Configs
      /\ temp \in Files!Configs \cup {Files!NoFile} /\ install[i] \in Files!Progress
      /\ install[i].seen \in Files!Configs /\ install \in [Pair -> Files!Progress]
  BY DEF FilesInv, Files!TypeOK, Files!Progress
<1>i. OneEntry /\ DesktopSafe
  BY DEF FilesInv
<1>k. install[i].raced \/ install[i].step = "idle" \/ Knows(i)
  BY DEF FilesInv, Unraced, Files!AtRest
<1>1. CASE Files!LeaveAlone(i) \/ Files!DesktopHasIt(i) \/ Files!WriteFails(i)
  <2>1. PICK outcome \in Files!Outcomes :
          /\ Files!Says(i, "desktop", outcome, "code")
          /\ outcome \in Good => install[i].step = "staging" /\ Files!HasServer(install[i].seen)
    BY <1>1 DEF Files!LeaveAlone, Files!DesktopHasIt, Files!WriteFails, Good
  <2>2. /\ install[i].step \in {"staging", "writing", "staged"}
        /\ UNCHANGED <<rc, saved, hooking, settled, together, writes, desktop, code, temp,
                       starts, kills>>
    BY <1>1 DEF Files!LeaveAlone, Files!DesktopHasIt, Files!WriteFails, Files!Unwritten
  <2>3. /\ install' \in [Pair -> Files!Progress]
        /\ \A j \in Pair \ {i} : install'[j] = install[j]
        /\ install'[i].step = "code" /\ install'[i].raced = install[i].raced
        /\ install'[i].desktop = outcome
    BY <1>0, <2>1, SaysOnly
  <2>4. Knows(i) => Knows(i)'
    BY <2>1, <2>2, <2>3 DEF Knows, Files!HasServer
  <2>5. OneEntry' /\ DesktopSafe' /\ \A j \in Pair \ {i} : Same(j)
    BY <1>i, <2>2, <2>3, LeavesDesktop DEF OneEntry
  <2> QED
    BY <1>0, <1>k, <2>2, <2>3, <2>4, <2>5, InstallSteps
<1>2. CASE Files!StageDesktop(i)
  <2>1. /\ install[i].step = "staging" /\ temp' = Files!Empty
        /\ install' = [install EXCEPT ![i] = [@ EXCEPT !.step = "writing", !.opened = "temp"]]
        /\ UNCHANGED <<rc, saved, hooking, settled, together, writes, desktop, code, starts,
                       kills>>
    BY <1>0, <1>2 DEF Files!StageDesktop, Files!Unwritten
  <2>2. /\ install' \in [Pair -> Files!Progress]
        /\ \A j \in Pair \ {i} : install'[j] = install[j]
        /\ install'[i].step = "writing" /\ install'[i].raced = install[i].raced
        /\ install'[i].seen = install[i].seen /\ install'[i].opened = "temp"
    BY <1>0, <2>1 DEF Files!Progress
  <2>3. \A j \in Pair \ {i} : Same(j)
    BY <2>2 DEF Same
  <2>4. Knows(i) => Knows(i)'
    BY <2>1, <2>2 DEF Knows
  <2>5. DesktopSafe'
    BY <1>i, <2>1, <2>2 DEF DesktopSafe, Files!ConfigKept, Alone, Holds
  <2>6. OneEntry'
    BY <1>i, <2>1 DEF OneEntry
  <2> QED
    BY <1>0, <1>k, <2>1, <2>2, <2>3, <2>4, <2>5, <2>6, InstallSteps, RestTyped
<1>3. CASE Files!WriteTemp(i)
  <2> DEFINE text == Files!WithServer(install[i].seen)
             file == install[i].opened
  <2>1. /\ install[i].step = "writing" /\ Files!Goes(i, "staged")
        /\ temp' = IF file = "temp" THEN text ELSE temp
        /\ desktop' = IF file = "desktop" THEN text ELSE desktop
        /\ UNCHANGED <<rc, saved, hooking, settled, together, writes, code, starts, kills>>
    BY <1>3 DEF Files!WriteTemp, Files!Unwritten
  <2>2. /\ install' \in [Pair -> Files!Progress]
        /\ \A j \in Pair \ {i} : install'[j] = install[j]
        /\ install'[i].step = "staged" /\ install'[i].raced = install[i].raced
        /\ install'[i].seen = install[i].seen
    BY <1>0, <2>1, GoesOnly
  <2>3. text \in Files!Configs
    BY <1>0, ServersTyped
  <2>4. \A j \in Pair \ {i} : Same(j)
    BY <2>2 DEF Same
  <2>5. Knows(i) => Knows(i)'
    BY <2>1, <2>2 DEF Knows
  <2>6. DesktopSafe'
    <3>1. CASE together'
      BY <3>1 DEF DesktopSafe, Files!ConfigKept
    <3>2. CASE ~together'
      <4>1. Alone /\ Files!ConfigKept /\ ~together
        BY <1>i, <2>1, <3>2 DEF DesktopSafe
      <4>2. Holds(i)
        BY <2>1, <4>1 DEF Alone
      <4>3. desktop' = desktop /\ temp' = text
        BY <2>1, <4>2 DEF Holds
      <4>4. Files!ConfigKept'
        BY <2>1, <4>1, <4>3 DEF Files!ConfigKept
      <4>5. Holds(i)'
        BY <2>1, <2>2, <4>2, <4>3 DEF Holds
      <4>6. \A j \in Pair \ {i} : ~Files!AtDesktop(j)'
        BY <2>1, <2>2, <4>1 DEF Alone
      <4> QED
        BY <4>4, <4>5, <4>6 DEF DesktopSafe, Alone
    <3> QED
      BY <3>1, <3>2
  <2>7. OneEntry'
    BY <1>i, <2>1 DEF OneEntry
  <2>8. desktop' \in Files!Configs /\ temp' \in Files!Configs \cup {Files!NoFile}
    BY <1>0, <2>1, <2>3
  <2> QED
    BY <1>0, <1>k, <2>1, <2>2, <2>4, <2>5, <2>6, <2>7, <2>8, InstallSteps
<1>4. CASE Files!RenameDesktop(i)
  <2>1. /\ install[i].step = "staged" /\ temp # Files!NoFile /\ desktop' = temp
        /\ temp' = Files!NoFile
        /\ install' = [j \in Pair |->
             IF j = i THEN [install[i] EXCEPT !.step = "code", !.desktop = "Added"]
             ELSE Files!Renamed(install[j])]
        /\ UNCHANGED <<rc, saved, hooking, settled, together, writes, code, starts, kills>>
    BY <1>4 DEF Files!RenameDesktop, Files!Unwritten
  <2>2. /\ install'[i] \in Files!Progress
        /\ install'[i].step = "code" /\ install'[i].raced = install[i].raced
    BY <1>0, <2>1 DEF Files!Progress
  <2>3. ASSUME NEW j \in Pair \ {i}
        PROVE  install'[j] \in Files!Progress /\ Same(j)
    <3>1. install'[j] = Files!Renamed(install[j]) /\ install[j] \in Files!Progress
      BY <1>0, <2>1
    <3>2. CASE install[j].step = "writing"
      <4>1. PICK o \in {"temp", "desktop", "gone"} :
              install'[j] = [install[j] EXCEPT !.opened = o]
        BY <3>1, <3>2 DEF Files!Renamed
      <4> QED
        BY <3>1, <3>2, <4>1 DEF Files!Progress, Same
    <3>3. CASE install[j].step # "writing"
      BY <3>1, <3>3 DEF Files!Renamed, Same
    <3> QED
      BY <3>2, <3>3
  <2>4. install' \in [Pair -> Files!Progress]
    BY <2>1, <2>2, <2>3
  <2>5. Knows(i) => Knows(i)'
    <3> SUFFICES ASSUME Knows(i) PROVE Knows(i)'
      OBVIOUS
    <3>1. temp = Files!WithServer(desktop) /\ \A j \in Pair \ {i} : install[j].step = "idle"
      BY <2>1 DEF Knows
    <3>2. Files!HasServer(desktop)'
      BY <1>0, <2>1, <3>1, ServersTyped DEF Files!HasServer
    <3>3. \A j \in Pair \ {i} : install'[j].step = "idle"
      BY <2>3, <3>1 DEF Same
    <3> QED
      BY <2>2, <3>2, <3>3 DEF Knows
  <2>6. DesktopSafe'
    <3>1. CASE together'
      BY <3>1 DEF DesktopSafe, Files!ConfigKept
    <3>2. CASE ~together'
      <4>1. Alone /\ Files!ConfigKept /\ ~together
        BY <1>i, <2>1, <3>2 DEF DesktopSafe
      <4>2. Holds(i)
        BY <2>1, <4>1 DEF Alone
      <4>3. desktop' = Files!WithServer(install[i].seen)
        BY <2>1, <4>2 DEF Holds
      <4>4. Files!ConfigKept'
        BY <1>0, <2>1, <4>2, <4>3, ServersTyped DEF Files!ConfigKept, Holds
      <4>5. \A j \in Pair : ~Files!AtDesktop(j)'
        BY <2>1, <2>2, <2>3, <4>1 DEF Alone, Same
      <4> QED
        BY <4>4, <4>5 DEF DesktopSafe, Alone
    <3> QED
      BY <3>1, <3>2
  <2>7. OneEntry'
    BY <1>i, <2>1 DEF OneEntry
  <2> QED
    BY <1>0, <1>k, <2>1, <2>2, <2>3, <2>4, <2>5, <2>6, <2>7, InstallSteps
<1> QED
  BY <1>1, <1>2, <1>3, <1>4

(* Its steps at Claude Code's.                                             *)
LEMMA CodeKeeps ==
  ASSUME FilesInv, NEW i \in Pair,
         \/ Files!LookAtCode(i) \/ Files!RemoveLegacy(i) \/ Files!RemoveOlder(i)
         \/ Files!Add(i) \/ Files!ClaudeFails(i)
  PROVE  FilesInv'
<1>0. /\ Files!TypeOK /\ desktop \in Files!Configs /\ code \in Files!Configs
      /\ temp \in Files!Configs \cup {Files!NoFile} /\ install[i] \in Files!Progress
      /\ install[i].seen \in Files!Configs /\ install \in [Pair -> Files!Progress]
  BY DEF FilesInv, Files!TypeOK, Files!Progress
<1>i. OneEntry
  BY DEF FilesInv
<1>k. install[i].raced \/ install[i].step = "idle" \/ Knows(i)
  BY DEF FilesInv, Unraced, Files!AtRest
<1>u. UNCHANGED <<rc, saved, hooking, settled, together, writes, desktop, temp, starts, kills>>
  BY DEF Files!LookAtCode, Files!RemoveLegacy, Files!RemoveOlder, Files!Add, Files!ClaudeFails,
     Files!Unwritten
(* What is left to show of each.                                           *)
<1>s. ASSUME install' \in [Pair -> Files!Progress],
             \A j \in Pair \ {i} : install'[j] = install[j],
             install[i].step \notin {"idle", "staging", "writing", "staged"},
             install'[i].step \notin {"staging", "writing", "staged"},
             install'[i].raced = install[i].raced, code' \in Files!Configs, OneEntry',
             Knows(i) => Knows(i)'
      PROVE  FilesInv'
  <2>1. DesktopSafe' /\ \A j \in Pair \ {i} : Same(j)
    BY <1>s, <1>u, LeavesDesktop
  <2> QED
    BY <1>0, <1>k, <1>u, <1>s, <2>1, InstallSteps
<1>1. CASE Files!LookAtCode(i)
  <2>1. install[i].step = "code" /\ code' = code
    BY <1>1 DEF Files!LookAtCode
  <2>2. PICK step \in {"idle", "legacy", "older"}, outcome \in Files!Outcomes :
          /\ install' = [install EXCEPT ![i] = [@ EXCEPT !.seen = code, !.step = step,
                                                        !.code = outcome]]
          /\ step = "idle" => Files!HasServer(code)
          /\ step = "older" => "legacy" \notin code.servers
    BY <1>0, <1>1 DEF Files!LookAtCode, Files!Current, Files!HasServer, Files!TypeOK, Files!Progress
  <2>3. /\ install' \in [Pair -> Files!Progress]
        /\ \A j \in Pair \ {i} : install'[j] = install[j]
        /\ install'[i].step = step /\ install'[i].raced = install[i].raced
        /\ install'[i].seen = code /\ install'[i].desktop = install[i].desktop
    BY <1>0, <2>2 DEF Files!TypeOK, Files!Progress
  <2>4. step = "idle" => code.servers = {"other", "ours"}
    BY <1>0, <1>i, <2>2, ServersTyped DEF Files!HasServer, OneEntry
  <2>5. Knows(i) => Knows(i)'
    BY <1>u, <2>1, <2>2, <2>3, <2>4 DEF Knows, Files!HasServer
  <2>6. OneEntry'
    BY <1>i, <2>1 DEF OneEntry
  <2> QED
    BY <1>0, <1>s, <2>1, <2>3, <2>5, <2>6
<1>2. CASE Files!RemoveLegacy(i)
  <2>1. install[i].step = "legacy" /\ code' = [code EXCEPT !.servers = @ \ {"legacy"}]
    BY <1>2 DEF Files!RemoveLegacy
  <2>2. /\ code' \in Files!Configs /\ code'.servers = code.servers \ {"legacy"}
        /\ code.servers \subseteq Files!Servers
    BY <1>0, <2>1, ServersTyped
  <2>3. \/ Files!Says(i, "code", "Added", "idle") /\ "ours" \in install[i].seen.servers
        \/ Files!Goes(i, "older")
    BY <1>2 DEF Files!RemoveLegacy, Files!Current
  <2>4. /\ install' \in [Pair -> Files!Progress]
        /\ \A j \in Pair \ {i} : install'[j] = install[j]
        /\ install'[i].step \in {"idle", "older"} /\ install'[i].raced = install[i].raced
        /\ install'[i].step = "idle" => "ours" \in install[i].seen.servers
        /\ install'[i].desktop = install[i].desktop
    BY <1>0, <2>3, SaysOnly, GoesOnly
  <2>5. Knows(i) /\ install'[i].step = "idle" => code'.servers = {"other", "ours"}
    BY <1>i, <2>1, <2>2, <2>4 DEF Knows, OneEntry
  <2>6. Knows(i) => Knows(i)'
    BY <1>u, <2>1, <2>2, <2>4, <2>5 DEF Knows, Files!HasServer
  <2>7. OneEntry'
    BY <1>i, <2>2 DEF OneEntry
  <2> QED
    BY <1>s, <2>1, <2>2, <2>4, <2>6, <2>7
<1>3. CASE Files!RemoveOlder(i)
  <2>1. /\ install[i].step = "older" /\ Files!Goes(i, "add")
        /\ code' \in {code, [code EXCEPT !.servers = @ \ {"older", "ours"}]}
    BY <1>3 DEF Files!RemoveOlder
  <2>2. /\ code' \in Files!Configs
        /\ code'.servers \in {code.servers, code.servers \ {"older", "ours"}}
    <3>1. code.servers \ {"older", "ours"} \in SUBSET Files!Servers
      BY <1>0, ServersTyped
    <3>2. [code EXCEPT !.servers = @ \ {"older", "ours"}]
            = [code EXCEPT !.servers = code.servers \ {"older", "ours"}]
      BY <1>0 DEF Files!Configs
    <3>3. /\ [code EXCEPT !.servers = code.servers \ {"older", "ours"}] \in Files!Configs
          /\ [code EXCEPT !.servers = code.servers \ {"older", "ours"}].servers
               = code.servers \ {"older", "ours"}
      BY <1>0, <3>1, ServersTyped
    <3> QED
      BY <1>0, <2>1, <3>2, <3>3
  <2>3. /\ install' \in [Pair -> Files!Progress]
        /\ \A j \in Pair \ {i} : install'[j] = install[j]
        /\ install'[i].step = "add" /\ install'[i].raced = install[i].raced
        /\ install'[i].desktop = install[i].desktop
    BY <1>0, <2>1, GoesOnly
  <2>4. Knows(i) => Knows(i)'
    BY <1>u, <2>1, <2>2, <2>3 DEF Knows, Files!HasServer
  <2>5. OneEntry'
    BY <1>i, <2>2 DEF OneEntry
  <2> QED
    BY <1>s, <2>1, <2>2, <2>3, <2>4, <2>5
<1>4. CASE Files!Add(i)
  <2>1. /\ install[i].step = "add" /\ Files!Says(i, "code", "Added", "idle")
        /\ code.servers \cap {"older", "ours"} = {}
        /\ code' = [code EXCEPT !.servers = @ \cup {"ours"}]
    BY <1>4 DEF Files!Add
  <2>2. /\ code' \in Files!Configs /\ code'.servers = code.servers \cup {"ours"}
        /\ code.servers \subseteq Files!Servers
    BY <1>0, <2>1, ServersTyped
  <2>3. /\ install' \in [Pair -> Files!Progress]
        /\ \A j \in Pair \ {i} : install'[j] = install[j]
        /\ install'[i].step = "idle" /\ install'[i].raced = install[i].raced
        /\ install'[i].desktop = install[i].desktop
    BY <1>0, <2>1, SaysOnly
  <2>4. Knows(i) => code'.servers = {"other", "ours"}
    BY <1>i, <2>1, <2>2 DEF Knows, OneEntry
  <2>5. Knows(i) => Knows(i)'
    BY <1>u, <2>1, <2>2, <2>3, <2>4 DEF Knows, Files!HasServer
  <2>6. OneEntry'
    BY <1>i, <2>1, <2>2 DEF OneEntry
  <2> QED
    BY <1>s, <2>1, <2>2, <2>3, <2>5, <2>6
<1>5. CASE Files!ClaudeFails(i)
  <2>1. /\ install[i].step \in {"legacy", "older", "add"} /\ code' = code
        /\ Files!Says(i, "code", "Failed", "idle")
    BY <1>5 DEF Files!ClaudeFails
  <2>2. /\ install' \in [Pair -> Files!Progress]
        /\ \A j \in Pair \ {i} : install'[j] = install[j]
        /\ install'[i].step = "idle" /\ install'[i].raced = install[i].raced
        /\ install'[i].desktop = install[i].desktop /\ install'[i].code = "Failed"
    BY <1>0, <2>1, SaysOnly
  <2>3. Knows(i) => Knows(i)'
    BY <1>u, <2>1, <2>2 DEF Knows, Files!HasServer, Good
  <2>4. OneEntry'
    BY <1>i, <2>1 DEF OneEntry
  <2> QED
    BY <1>0, <1>s, <2>1, <2>2, <2>3, <2>4
<1> QED
  BY <1>1, <1>2, <1>3, <1>4, <1>5

(* Others write the files, or the app is killed.                           *)
LEMMA VersionsGrow ==
  ASSUME FilesInv, writes < MaxEdits
  PROVE  /\ writes + 1 \in 0..MaxEdits /\ writes + 2 \in Files!Versions /\ writes \in Nat
         /\ settled.rc \in Nat /\ settled.desktop \in Nat
         /\ settled.rc < writes + 2 /\ settled.desktop < writes + 2
<1>1. writes \in 0..MaxEdits /\ settled \in [rc : Files!Versions, desktop : Files!Versions]
  BY DEF FilesInv, Files!TypeOK
<1>2. settled.rc \in Nat /\ settled.desktop \in Nat
  BY <1>1 DEF Files!Versions
<1> QED
  BY <1>1, <1>2, FilesAssumption DEF FilesInv, Numbered, Files!Versions

LEMMA EditRcKeeps == ASSUME FilesInv, Files!EditRc PROVE FilesInv'
<1>1. /\ writes < MaxEdits /\ writes' = writes + 1
      /\ rc' = [rc EXCEPT !.version = writes + 2, !.whole = TRUE]
      /\ settled' = IF hooking.step = "idle" THEN [settled EXCEPT !.rc = writes + 2] ELSE settled
      /\ UNCHANGED <<saved, hooking, together, starts, kills, desktop, code, temp, install>>
  BY DEF Files!EditRc, Files!NewVersion
<1>2. /\ writes + 1 \in 0..MaxEdits /\ writes + 2 \in Files!Versions /\ writes \in Nat
      /\ settled.rc \in Nat /\ settled.desktop \in Nat
      /\ settled.rc < writes + 2 /\ settled.desktop < writes + 2
  BY <1>1, VersionsGrow
<1>t. /\ rc \in [version : Files!Versions, whole : BOOLEAN, hook : BOOLEAN]
      /\ settled \in [rc : Files!Versions, desktop : Files!Versions]
  BY DEF FilesInv, Files!TypeOK
<1>3. /\ rc' \in [version : Files!Versions, whole : BOOLEAN, hook : BOOLEAN]
      /\ settled' \in [rc : Files!Versions, desktop : Files!Versions]
      /\ rc'.version = writes + 2 /\ rc'.whole
      /\ settled'.desktop = settled.desktop /\ settled'.rc \in {settled.rc, writes + 2}
      /\ hooking.step # "idle" => settled' = settled
  BY <1>1, <1>2, <1>t
<1>4. Files!TypeOK'
  BY <1>1, <1>2, <1>3 DEF FilesInv, Files!TypeOK
<1>5. Numbered'
  BY <1>1, <1>2, <1>3 DEF FilesInv, Numbered
<1>6. RcSafe'
  <2>1. Files!TextKept'
    BY <1>2, <1>3 DEF Files!TextKept
  <2> QED
    BY <1>1, <1>3, <2>1 DEF FilesInv, RcSafe, BackedUp
<1>7. DesktopSafe'
  BY <1>1, <1>3 DEF FilesInv, DesktopSafe, Files!ConfigKept, Alone, Holds
<1>8. OneEntry' /\ Unraced'
  BY <1>1 DEF FilesInv, OneEntry, Unraced, Knows
<1> QED
  BY <1>4, <1>5, <1>6, <1>7, <1>8 DEF FilesInv

(* What a write of a config leaves of the installs.                        *)
LEMMA RacedLeaves ==
  ASSUME FilesInv, Files!Raced
  PROVE  /\ install' \in [Pair -> Files!Progress] /\ Unraced'
         /\ \A j \in Pair :
              /\ Files!AtDesktop(j)' <=> Files!AtDesktop(j)
              /\ Files!AtDesktop(j) =>
                   /\ install'[j].step = install[j].step /\ install'[j].seen = install[j].seen
                   /\ install'[j].opened = install[j].opened
<1>1. \A j \in Pair : install[j] \in Files!Progress
  BY DEF FilesInv, Files!TypeOK
<1>2. ASSUME NEW j \in Pair
      PROVE  /\ install'[j] \in Files!Progress
             /\ \/ install'[j] = Files!AtRest /\ install[j].step = "idle"
                \/ /\ install'[j].raced /\ install'[j].step = install[j].step
                   /\ install'[j].seen = install[j].seen
                   /\ install'[j].opened = install[j].opened
  <2>1. install[j] \in Files!Progress
    BY <1>1
  <2>2. install'[j] = IF install[j].step = "idle" THEN Files!AtRest
                      ELSE [install[j] EXCEPT !.raced = TRUE]
    BY DEF Files!Raced
  <2> QED
    BY <2>1, <2>2, RestTyped, RacedTyped
<1>3. install' \in [Pair -> Files!Progress]
  BY <1>2 DEF Files!Raced
<1>4. Unraced'
  BY <1>2 DEF Unraced
<1> QED
  BY <1>2, <1>3, <1>4 DEF Files!AtRest

LEMMA EditsKeep ==
  ASSUME FilesInv, Files!EditDesktop \/ Files!EditCode
  PROVE  FilesInv'
<1>1. /\ Files!Raced /\ writes < MaxEdits /\ writes' = writes + 1
      /\ UNCHANGED <<rc, saved, hooking, temp, together, starts, kills>>
  BY DEF Files!EditDesktop, Files!EditCode, Files!hookVars
<1>2. /\ writes + 1 \in 0..MaxEdits /\ writes + 2 \in Files!Versions /\ writes \in Nat
      /\ settled.rc \in Nat /\ settled.desktop \in Nat
      /\ settled.rc < writes + 2 /\ settled.desktop < writes + 2
  BY <1>1, VersionsGrow
<1>t. /\ desktop \in Files!Configs /\ code \in Files!Configs
      /\ settled \in [rc : Files!Versions, desktop : Files!Versions]
  BY DEF FilesInv, Files!TypeOK
<1>r. /\ install' \in [Pair -> Files!Progress] /\ Unraced'
      /\ \A j \in Pair :
           /\ Files!AtDesktop(j)' <=> Files!AtDesktop(j)
           /\ Files!AtDesktop(j) =>
                /\ install'[j].step = install[j].step /\ install'[j].seen = install[j].seen
                /\ install'[j].opened = install[j].opened
  BY <1>1, RacedLeaves
<1>3. CASE Files!EditDesktop
  <2>1. /\ desktop' = [desktop EXCEPT !.version = writes + 2] /\ code' = code
        /\ settled' = IF \E i \in Pair : Files!AtDesktop(i) THEN settled
                      ELSE [settled EXCEPT !.desktop = writes + 2]
    BY <1>3 DEF Files!EditDesktop, Files!NewVersion
  <2>2. /\ desktop' \in Files!Configs /\ desktop'.servers = desktop.servers
        /\ desktop'.version = writes + 2
    BY <1>2, <1>t, <2>1 DEF Files!Configs
  <2>3. /\ settled' \in [rc : Files!Versions, desktop : Files!Versions]
        /\ settled'.rc = settled.rc /\ settled'.desktop \in {settled.desktop, writes + 2}
        /\ (\E i \in Pair : Files!AtDesktop(i)) => settled' = settled
    BY <1>2, <1>t, <2>1
  <2>4. Files!TypeOK'
    BY <1>1, <1>2, <1>r, <2>1, <2>2, <2>3 DEF FilesInv, Files!TypeOK
  <2>5. Numbered'
    BY <1>1, <1>2, <2>3 DEF FilesInv, Numbered
  <2>6. RcSafe'
    BY <1>1, <2>3 DEF FilesInv, RcSafe, Files!TextKept, BackedUp
  <2>7. DesktopSafe'
    <3>1. Files!ConfigKept'
      BY <1>1, <1>2, <2>2, <2>3 DEF FilesInv, DesktopSafe, Files!ConfigKept
    <3>2. ~together' => Alone'
      BY <1>1, <1>r, <2>3 DEF FilesInv, DesktopSafe, Alone, Holds
    <3> QED
      BY <3>1, <3>2 DEF DesktopSafe
  <2>8. OneEntry'
    BY <2>1 DEF FilesInv, OneEntry
  <2> QED
    BY <1>r, <2>4, <2>5, <2>6, <2>7, <2>8 DEF FilesInv
<1>4. CASE Files!EditCode
  <2>1. PICK s \in {{}, {"older"}, {"ours"}} :
          code' = [code EXCEPT !.version = writes + 2, !.servers = (@ \ {"older", "ours"}) \cup s]
    BY <1>4 DEF Files!EditCode, Files!NewVersion
  <2>2. UNCHANGED <<desktop, settled>>
    BY <1>4 DEF Files!EditCode
  <2>3. code'.servers = (code.servers \ {"older", "ours"}) \cup s /\ code' \in Files!Configs
    <3>1. code.servers \in SUBSET Files!Servers /\ s \in SUBSET Files!Servers
      BY <1>t DEF Files!Configs
    <3> QED
      BY <1>2, <1>t, <2>1, <3>1 DEF Files!Configs
  <2>4. Files!TypeOK'
    BY <1>1, <1>2, <1>r, <2>2, <2>3 DEF FilesInv, Files!TypeOK
  <2>5. Numbered' /\ OneEntry'
    BY <1>1, <1>2, <2>2, <2>3 DEF FilesInv, Numbered, OneEntry
  <2>6. RcSafe'
    BY <1>1, <2>2 DEF FilesInv, RcSafe, Files!TextKept, BackedUp
  <2>7. DesktopSafe'
    BY <1>1, <1>r, <2>2 DEF FilesInv, DesktopSafe, Files!ConfigKept, Alone, Holds
  <2> QED
    BY <1>r, <2>4, <2>5, <2>6, <2>7 DEF FilesInv
<1> QED
  BY <1>3, <1>4

LEMMA FileKillKeeps == ASSUME FilesInv, Files!Kill PROVE FilesInv'
<1>1. /\ kills < FileKills /\ kills' = kills + 1 /\ hooking' = Files!NoHook
      /\ install' = [i \in Pair |-> Files!AtRest]
      /\ UNCHANGED <<rc, saved, desktop, code, temp, settled, together, starts, writes>>
  BY DEF Files!Kill
<1>2. kills' \in 0..FileKills
  BY <1>1, FilesAssumption DEF FilesInv, Files!TypeOK
<1>3. hooking' \in [step : {"idle", "read", "backedUp", "cut"}, version : Files!Versions,
                    whole : BOOLEAN]
  BY <1>1, FilesAssumption DEF Files!NoHook, Files!Versions
<1>4. Files!TypeOK'
  BY <1>1, <1>2, <1>3, RestTyped DEF FilesInv, Files!TypeOK
<1>5. RcSafe' /\ Numbered' /\ OneEntry'
  BY <1>1 DEF FilesInv, Files!NoHook, RcSafe, Files!TextKept, Numbered, OneEntry
<1>6. DesktopSafe' /\ Unraced'
  BY <1>1 DEF FilesInv, DesktopSafe, Files!ConfigKept, Alone, Unraced, Files!AtRest
<1> QED
  BY <1>4, <1>5, <1>6 DEF FilesInv

LEMMA FilesAlways == AppSpec => [](AtFiles => FilesInv)
<1>1. AppInit => (AtFiles => FilesInv)
  BY FilesStart DEF AppInit, AtUsage, AtTools, AtLinks, AtFiles, Carries, Merges
<1>2. (AtFiles => FilesInv) /\ [AppNext]_allVars => (AtFiles => FilesInv)'
  <2> SUFFICES ASSUME AtFiles => FilesInv, [AppNext]_allVars, AtFiles' PROVE FilesInv'
    OBVIOUS
  <2>1. FilesInv
    BY DEF AppNext, allVars, AtFiles
  <2>2. CASE UNCHANGED fileVars
    <3>1. Files!TypeOK' /\ RcSafe' /\ Numbered' /\ OneEntry'
      BY <2>1, <2>2 DEF fileVars, FilesInv, Files!TypeOK, RcSafe, Files!TextKept, BackedUp,
         Numbered, OneEntry
    <3>2. DesktopSafe' /\ Unraced'
      BY <2>1, <2>2 DEF fileVars, FilesInv, DesktopSafe, Files!ConfigKept, Alone, Holds,
         Unraced, Knows
    <3> QED
      BY <3>1, <3>2 DEF FilesInv
  <2>3. CASE Files!Next
    BY <2>1, <2>3, HooksKeep, InstallKeeps, DesktopKeeps, CodeKeeps, EditRcKeeps, EditsKeep,
       FileKillKeeps DEF Files!Next
  <2> QED
    BY <2>2, <2>3 DEF AppNext, allVars, AtUsage, AtTools, AtLinks, AtFiles, Carries, Merges
<1> QED
  BY <1>1, <1>2, PTL DEF AppSpec

(* Whatever the app is killed or fails at: the user's text, as it was      *)
(* whenever no hook was being added, is in the rc file or in a backup; the *)
(* desktop app's config keeps what was written while no install was at it, *)
(* unless two installs were at once; and what an install says it added is  *)
(* there, unless someone wrote the config while it ran.                    *)
THEOREM FilesAlwaysKept == AppSpec => []FilesKept
<1>1. FilesInv => Files!TextKept /\ Files!ConfigKept /\ Files!AddedIsThere
  <2> SUFFICES ASSUME FilesInv, NEW i \in Pair, install[i].step = "idle", ~install[i].raced
      PROVE /\ install[i].desktop \in Good => Files!HasServer(desktop)
            /\ install[i].code \in Good => code.servers = {"other", "ours"}
    BY DEF FilesInv, RcSafe, DesktopSafe, Files!AddedIsThere, Good
  <2>1. Knows(i) \/ install[i] = Files!AtRest
    BY DEF FilesInv, Unraced
  <2> QED
    BY <2>1 DEF Knows, Files!AtRest, Good
<1>2. (AtFiles => FilesInv) => FilesKept
  BY <1>1 DEF FilesKept
<1> QED
  BY <1>2, FilesAlways, PTL
------------------------------------------------------------------------------
(***************************************************************************)
(* Links.  An open that nothing crossed has seen the processes as they     *)
(* are, so the app it has found is the only one in its bundle.             *)
(***************************************************************************)

(* An app runs from its own bundle or the stock one.                       *)
InBundle == \A a \in Opening!Apps : process[a] \in {None, a, Default}

Found == /\ link.app \in Opening!Apps /\ link.email \in Twin
         /\ Opening!Account(link.app) = link.email

OpensRight ==
  /\ link.step \in {"look", "start", "share"} => link.app \in Opening!Apps
  /\ ~link.crossed =>
       /\ link.step \in {"look", "start", "share"} => Found
       /\ link.step = "share" =>
            link.seen = process /\ (link.app = Default \/ process[link.app] # None)
       /\ link.step = "idle" /\ link # Opening!Idle => Found /\ got = link.app

LinkInv == Opening!TypeOK /\ InBundle /\ OpensRight

USE DEF Opening!Steps, Opening!Stock, Opening!OnTheWeb

LEMMA IdleOpen == Opening!Idle \in Opening!Opens /\ Opening!Idle.step = "idle"
BY DEF Opening!Idle, Opening!Opens, Opening!Nowhere

LEMMA LinksStart == ASSUME Opening!Init PROVE LinkInv
<1>1. turns \in 0..MaxTurns
  BY TurnsAssumption DEF Opening!Init
<1>2. Opening!TypeOK
  BY <1>1, IdleOpen DEF Opening!Init, Opening!TypeOK, Opening!Nowhere
<1>3. InBundle /\ OpensRight
  BY IdleOpen DEF Opening!Init, InBundle, OpensRight, Opening!Nowhere
<1> QED
  BY <1>2, <1>3 DEF LinkInv

LEMMA CrossedTyped ==
  ASSUME NEW l \in Opening!Opens
  PROVE  /\ [l EXCEPT !.crossed = TRUE] \in Opening!Opens
         /\ [l EXCEPT !.crossed = TRUE].crossed
         /\ [l EXCEPT !.crossed = TRUE].step = l.step
         /\ [l EXCEPT !.crossed = TRUE].app = l.app
BY DEF Opening!Opens

(* Apps and sign-ins change beside an open.                                *)
LEMMA DisturbsKeep ==
  ASSUME LinkInv, Opening!Disturbs
  PROVE  link' \in Opening!Opens /\ OpensRight'
<1>1. link \in Opening!Opens
  BY DEF LinkInv, Opening!TypeOK
<1>2. CASE link.step = "idle"
  BY <1>2, IdleOpen DEF Opening!Disturbs, OpensRight
<1>3. CASE link.step # "idle"
  <2>1. link' = [link EXCEPT !.crossed = TRUE]
    BY <1>3 DEF Opening!Disturbs
  <2> QED
    BY <1>1, <2>1, CrossedTyped DEF LinkInv, OpensRight
<1> QED
  BY <1>2, <1>3

LEMMA AppsKeep ==
  ASSUME LinkInv, NEW a \in Opening!Apps,
         \/ Opening!SignInCli(a) \/ Opening!SignInApp(a) \/ Opening!Starts(a) \/ Opening!Quits(a)
  PROVE  LinkInv'
<1>1. Opening!Disturbs /\ got' = got /\ icon' = icon
  BY DEF Opening!SignInCli, Opening!SignInApp, Opening!Starts, Opening!Quits
<1>2. turns' \in 0..MaxTurns
  BY TurnsAssumption DEF Opening!SignInCli, Opening!SignInApp, Opening!Starts, Opening!Quits,
     LinkInv, Opening!TypeOK
<1>3. cli' \in [Opening!Apps -> Twin \cup {None}]
  BY DEF Opening!SignInCli, Opening!SignInApp, Opening!Starts, Opening!Quits, LinkInv,
     Opening!TypeOK
<1>4. app' \in [Opening!Apps -> Twin \cup {"absent", "unsure", "out"}]
  BY DEF Opening!SignInCli, Opening!SignInApp, Opening!Starts, Opening!Quits, LinkInv,
     Opening!TypeOK
<1>5. /\ process' \in [Opening!Apps -> Opening!Apps \cup {None}]
      /\ \A b \in Opening!Apps : process'[b] \in {None, b, Default}
  BY DEF Opening!SignInCli, Opening!SignInApp, Opening!Starts, Opening!Quits, LinkInv,
     Opening!TypeOK, InBundle, Opening!Bundle, Opening!Apps
<1> QED
  BY <1>1, <1>2, <1>3, <1>4, <1>5, DisturbsKeep DEF LinkInv, Opening!TypeOK, InBundle

LEMMA IconKeeps ==
  ASSUME LinkInv, NEW p \in Pair, Opening!TurnIcon(p)
  PROVE  LinkInv'
<1>1. turns' \in 0..MaxTurns
  BY TurnsAssumption DEF Opening!TurnIcon, LinkInv, Opening!TypeOK
<1>2. Opening!TypeOK'
  BY <1>1 DEF Opening!TurnIcon, LinkInv, Opening!TypeOK
<1> QED
  BY <1>2 DEF Opening!TurnIcon, LinkInv, InBundle, OpensRight, Found, Opening!Account,
     Opening!StockAccount

(* Which app has the email.                                                *)
LEMMA CandidatesMatch ==
  ASSUME NEW e, NEW p, NEW a \in Opening!Candidates(e, p)
  PROVE  a \in Opening!Apps /\ Opening!Account(a) = e
BY DEF Opening!Candidates

LEMMA OpenTyped ==
  ASSUME NEW l \in Opening!Opens, NEW s \in Opening!Steps,
         NEW f \in [Opening!Apps -> Opening!Apps \cup {None}]
  PROVE  /\ [l EXCEPT !.seen = f, !.step = s] \in Opening!Opens
         /\ [l EXCEPT !.step = s, !.seen = f] \in Opening!Opens
BY DEF Opening!Opens

LEMMA FoundTyped ==
  ASSUME NEW l \in Opening!Opens, NEW a \in Opening!Apps
  PROVE  [l EXCEPT !.step = "look", !.app = a, !.prefer = None] \in Opening!Opens
BY DEF Opening!Opens

LEMMA AskedTyped ==
  ASSUME NEW l \in Opening!Opens, NEW e \in Twin \cup {None}, NEW p \in Opening!Apps \cup {None}
  PROVE  LET asked == [l EXCEPT !.step = "find", !.email = e, !.prefer = p]
         IN  asked \in Opening!Opens /\ asked.step = "find"
BY DEF Opening!Opens

(* The open has gone to the web, or failed.                                *)
LEMMA IdleKeeps ==
  ASSUME LinkInv, link' = Opening!Idle, got' \in {got, "web"},
         UNCHANGED <<cli, app, icon, process, turns>>
  PROVE  LinkInv'
BY IdleOpen DEF LinkInv, Opening!TypeOK, InBundle, OpensRight

LEMMA AsksKeep == ASSUME LinkInv, Opening!OpenInClaude PROVE LinkInv'
<1>1. link' \in Opening!Opens /\ link'.step = "find"
  <2>1. PICK e \in Twin \cup {None}, p \in Opening!Apps \cup {None} :
          link' = [Opening!Idle EXCEPT !.step = "find", !.email = e, !.prefer = p]
    BY DEF Opening!OpenInClaude
  <2> QED
    BY <2>1, IdleOpen, AskedTyped
<1> QED
  BY <1>1 DEF Opening!OpenInClaude, LinkInv, Opening!TypeOK, InBundle, OpensRight

LEMMA FindKeeps == ASSUME LinkInv, Opening!Find PROVE LinkInv'
<1>1. CASE Opening!OnTheWeb
  BY <1>1, IdleKeeps DEF Opening!Find
<1>2. CASE ~Opening!OnTheWeb
  <2>1. PICK a : /\ a \in IF link.email = None THEN {} ELSE Opening!Candidates(link.email, link.prefer)
                 /\ link' = [link EXCEPT !.step = "look", !.app = a, !.prefer = None]
    BY <1>2 DEF Opening!Find
  <2>2. /\ link \in Opening!Opens /\ link.email \in Twin /\ a \in Opening!Apps
        /\ Opening!Account(a) = link.email
    BY <2>1, CandidatesMatch DEF LinkInv, Opening!TypeOK, Opening!Opens
  <2>3. link' \in Opening!Opens
    BY <2>1, <2>2, FoundTyped
  <2>4. /\ link'.app = a /\ link'.email = link.email /\ link'.step = "look"
    BY <2>1, <2>2 DEF Opening!Opens
  <2>5. UNCHANGED <<cli, app, icon, process, got, turns>>
    BY <1>2 DEF Opening!Find
  <2>6. Found'
    BY <2>2, <2>4, <2>5 DEF Found, Opening!Account, Opening!StockAccount
  <2> QED
    BY <2>2, <2>3, <2>4, <2>5, <2>6 DEF LinkInv, Opening!TypeOK, InBundle, OpensRight
<1> QED
  BY <1>1, <1>2

LEMMA LookKeeps == ASSUME LinkInv, Opening!Look PROVE LinkInv'
<1> DEFINE next == IF link.app = Default \/ process[link.app] # None THEN "share" ELSE "start"
<1>1. link \in Opening!Opens /\ process \in [Opening!Apps -> Opening!Apps \cup {None}]
  BY DEF LinkInv, Opening!TypeOK
<1>2. link' = [link EXCEPT !.seen = process, !.step = next]
  BY DEF Opening!Look
<1>3. next \in Opening!Steps
  OBVIOUS
<1>4. link' \in Opening!Opens
  BY <1>1, <1>2, <1>3, OpenTyped
<1>5. /\ link'.app = link.app /\ link'.email = link.email /\ link'.step = next
      /\ link'.seen = process /\ link'.crossed = link.crossed
  BY <1>1, <1>2 DEF Opening!Opens
<1>6. UNCHANGED <<cli, app, icon, process, got, turns>>
  BY DEF Opening!Look
<1>7. link.app \in Opening!Apps /\ (link.crossed \/ Found)
  BY DEF Opening!Look, LinkInv, OpensRight
<1>8. link'.crossed \/ Found'
  BY <1>5, <1>6, <1>7 DEF Found, Opening!Account, Opening!StockAccount
<1> QED
  BY <1>1, <1>4, <1>5, <1>6, <1>7, <1>8 DEF LinkInv, Opening!TypeOK, InBundle, OpensRight

LEMMA StartsKeep == ASSUME LinkInv, Opening!StartProfile PROVE LinkInv'
<1>1. link \in Opening!Opens /\ Opening!Nowhere \in [Opening!Apps -> Opening!Apps \cup {None}]
  BY DEF LinkInv, Opening!TypeOK, Opening!Nowhere
<1>2. link' = [link EXCEPT !.step = "look", !.seen = Opening!Nowhere]
  BY DEF Opening!StartProfile
<1>3. link' \in Opening!Opens
  BY <1>1, <1>2, OpenTyped
<1>4. /\ link'.app = link.app /\ link'.email = link.email /\ link'.step = "look"
      /\ link'.crossed = link.crossed
  BY <1>1, <1>2 DEF Opening!Opens
<1>5. link.app \in Opening!Apps /\ (link.crossed \/ Found)
  BY DEF Opening!StartProfile, LinkInv, OpensRight
<1>6. UNCHANGED <<cli, app, icon, got, turns>>
  BY DEF Opening!StartProfile
<1>7. link'.crossed \/ Found'
  BY <1>4, <1>5, <1>6 DEF Found, Opening!Account, Opening!StockAccount
<1>8. /\ process' \in [Opening!Apps -> Opening!Apps \cup {None}]
      /\ \A b \in Opening!Apps : process'[b] \in {None, b, Default}
  BY <1>5 DEF Opening!StartProfile, LinkInv, Opening!TypeOK, InBundle, Opening!Bundle, Opening!Apps
<1> QED
  BY <1>3, <1>4, <1>5, <1>6, <1>7, <1>8 DEF LinkInv, Opening!TypeOK, InBundle, OpensRight

(* macOS gives the link to an app of the bundle: there is none but the one *)
(* that was found.                                                         *)
LEMMA HandsOverRight ==
  ASSUME LinkInv, Opening!HandOver, ~link.crossed
  PROVE  got' = link.app
<1> DEFINE bundle == IF link.app = Default THEN Default ELSE link.seen[link.app]
           there  == Opening!From(process, bundle)
<1>1. got' \in IF there = {} THEN {bundle} ELSE there
  BY DEF Opening!HandOver
<1>2. /\ link.app \in Opening!Apps /\ link.seen = process
      /\ link.app = Default \/ process[link.app] # None
      /\ ~Opening!Shared(link.app, process)
  BY DEF Opening!HandOver, LinkInv, OpensRight
<1>3. there \subseteq {link.app}
  <2>1. CASE link.app = Default
    BY <1>2, <2>1 DEF Opening!Shared
  <2>2. CASE link.app # Default
    <3>1. link.app \in there /\ bundle = process[link.app]
      BY <1>2, <2>2 DEF Opening!From
    <3> QED
      BY <1>2, <2>2, <3>1 DEF Opening!Shared, Opening!Several, Opening!From
  <2> QED
    BY <2>1, <2>2
<1>4. there = {} => link.app = Default
  BY <1>2 DEF Opening!From
<1> QED
  BY <1>1, <1>3, <1>4

LEMMA HandOverKeeps == ASSUME LinkInv, Opening!HandOver PROVE LinkInv'
<1> DEFINE bundle == IF link.app = Default THEN Default ELSE link.seen[link.app]
           there  == Opening!From(process, bundle)
<1>1. /\ link \in Opening!Opens /\ Opening!Nowhere \in [Opening!Apps -> Opening!Apps \cup {None}]
      /\ link.app \in Opening!Apps /\ (link.crossed \/ Found)
  BY DEF Opening!HandOver, LinkInv, Opening!TypeOK, Opening!Nowhere, OpensRight
<1>2. link' = [link EXCEPT !.step = "idle", !.seen = Opening!Nowhere]
  BY DEF Opening!HandOver
<1>3. link' \in Opening!Opens
  BY <1>1, <1>2, OpenTyped
<1>4. /\ link'.app = link.app /\ link'.email = link.email /\ link'.step = "idle"
      /\ link'.crossed = link.crossed
  BY <1>1, <1>2 DEF Opening!Opens
<1>5. UNCHANGED <<cli, app, icon, turns>>
  BY DEF Opening!HandOver
<1>6. link'.crossed \/ (Found' /\ got' = link'.app)
  BY <1>1, <1>4, <1>5, HandsOverRight DEF Found, Opening!Account, Opening!StockAccount
<1>7. bundle \in Opening!Apps \cup {None}
  BY <1>1 DEF Opening!Opens, Opening!Apps
<1>8. PICK a : /\ a \in IF there = {} THEN {bundle} ELSE there
               /\ got' = a
               /\ process' = [process EXCEPT ![a] = IF @ = None THEN bundle ELSE @]
  BY DEF Opening!HandOver
<1>9. got' \in Opening!Apps \cup {None}
  BY <1>7, <1>8 DEF Opening!From
<1>10. process' \in [Opening!Apps -> Opening!Apps \cup {None}]
  BY <1>7, <1>8 DEF LinkInv, Opening!TypeOK
<1>11. \A b \in Opening!Apps : process'[b] \in {None, b, Default}
  BY <1>8 DEF LinkInv, Opening!TypeOK, InBundle, Opening!From
<1> QED
  BY <1>3, <1>4, <1>5, <1>6, <1>9, <1>10, <1>11 DEF LinkInv, Opening!TypeOK, InBundle, OpensRight

LEMMA LinksAlways == AppSpec => [](AtLinks => LinkInv)
<1>1. AppInit => (AtLinks => LinkInv)
  BY LinksStart DEF AppInit, AtUsage, AtTools, AtLinks, AtFiles, Carries, Merges
<1>2. (AtLinks => LinkInv) /\ [AppNext]_allVars => (AtLinks => LinkInv)'
  <2> SUFFICES ASSUME AtLinks => LinkInv, [AppNext]_allVars, AtLinks' PROVE LinkInv'
    OBVIOUS
  <2>1. LinkInv
    BY DEF AppNext, allVars, AtLinks
  <2>2. CASE UNCHANGED linkVars
    BY <2>1, <2>2 DEF linkVars, LinkInv, Opening!TypeOK, InBundle, OpensRight, Found,
       Opening!Account, Opening!StockAccount
  <2>3. CASE Opening!Next
    <3>1. CASE Opening!DidntStart \/ Opening!NotAlone \/ Opening!OpenFails
      BY <2>1, <3>1, IdleKeeps DEF Opening!DidntStart, Opening!NotAlone, Opening!OpenFails
    <3> QED
      BY <2>1, <2>3, <3>1, AppsKeep, IconKeeps, AsksKeep, FindKeeps, LookKeeps, StartsKeep,
         HandOverKeeps DEF Opening!Next
  <2> QED
    BY <2>2, <2>3 DEF AppNext, allVars, AtUsage, AtTools, AtLinks, AtFiles, Carries, Merges
<1> QED
  BY <1>1, <1>2, PTL DEF AppSpec

(* A link that went to an app went to the one it was meant for, whose      *)
(* sign-in has the session's email, whichever bundle the apps run from;    *)
(* unless an app started, quit or changed its sign-in meanwhile.           *)
THEOREM LinksAlwaysGoRight == AppSpec => []LinkGoesRight
<1>1. LinkInv => Opening!LinkGoesRight
  BY DEF LinkInv, OpensRight, Found, Opening!LinkGoesRight, Opening!Went
<1>2. (AtLinks => LinkInv) => LinkGoesRight
  BY <1>1 DEF LinkGoesRight
<1> QED
  BY <1>2, LinksAlways, PTL
------------------------------------------------------------------------------
(***************************************************************************)
(* Memory.  What the common version of a note says, both accounts' notes   *)
(* say, or it was taken out of one, or missed: so a merge may take it from *)
(* the other.                                                              *)
(***************************************************************************)

Excused(n, f) == <<n, f>> \in forgotten \/ <<n, f>> \in missed

(* What `text` says, `other` says, of note n; for all that is not excused. *)
Covers(other, n, text) == \A f \in text \cap Twin : f \in other \/ Excused(n, f)

CommonToAll ==
  \A n \in One : base[n] # Merging!NoNote =>
    \A f \in base[n], a \in Pair : f \in note[a][n] \/ Excused(n, f)

(* What its plan says of a note, while it has it to do.                    *)
PlanHolds ==
  \A n \in toMerge \ {Merging!Index} : (mergeStep \in {"write", "common"} => n # at) =>
    /\ plan[n] # "none"
    /\ plan[n] = "add" => \A f \in note[to][n] \cap Twin : Excused(n, f)
    /\ plan[n] = "same" => Covers(note[to][n], n, note[from][n])
    /\ plan[n] = "merge" => base[n] # Merging!NoNote
    /\ plan[n] = "conflict" => \A f \in Twin : Excused(n, f)

(* What the note at hand is to become says what both said.                 *)
ResultHolds ==
  mergeStep = "write" =>
    IF result = Merging!NoNote THEN Covers(note[to][at], at, note[from][at])
    ELSE Covers(result, at, note[from][at]) /\ Covers(result, at, note[to][at])

(* What the note at hand said at the source, it says at the destination.   *)
NoteIsOver == mergeStep = "common" => Covers(note[to][at], at, note[from][at])

MergeInv ==
  /\ Merging!TypeOK
  /\ IF mergeStep = "idle" THEN toMerge = {} ELSE from # to
  /\ mergeStep \in {"write", "common"} => at \in toMerge
  /\ Merging!Index \in toMerge => Merging!HasIndex(from)
  /\ CommonToAll /\ PlanHolds /\ ResultHolds /\ NoteIsOver

USE FactsAssumption
USE DEF Merging!File, Merging!Text, Merging!NoNote, Merging!Files, Merging!Plans,
        Merging!Decisions, Merging!Steps, Merging!Has, Merging!HasIndex, Merging!moveVars

LEMMA MergeStarts == ASSUME Merging!Init PROVE MergeInv
<1>1. edits \in 0..MaxFacts /\ cuts \in 0..MaxCuts
  BY DEF Merging!Init
<1>2. Merging!TypeOK
  BY <1>1 DEF Merging!Init, Merging!TypeOK
<1>3. CommonToAll /\ PlanHolds /\ ResultHolds /\ NoteIsOver /\ mergeStep = "idle" /\ toMerge = {}
  BY DEF Merging!Init, CommonToAll, PlanHolds, ResultHolds, NoteIsOver
<1> QED
  BY <1>2, <1>3 DEF MergeInv

(* Facts are no mark of absence.                                           *)
LEMMA FactsOnly ==
  ASSUME MergeInv, NEW n \in One
  PROVE  /\ \A a \in Pair : note[a][n] # {"absent"} => note[a][n] \subseteq Twin
         /\ \A a \in Pair : Merging!TextOf(a, n) = note[a][n] \cap Twin
         /\ base[n] # {"absent"} => base[n] \subseteq Twin
         /\ result # {"absent"} => result \subseteq Twin
<1>1. /\ \A a \in Pair : note[a][n] # {"absent"} => note[a][n] \subseteq Twin
      /\ base[n] # {"absent"} => base[n] \subseteq Twin
      /\ result # {"absent"} => result \subseteq Twin
  BY DEF MergeInv, Merging!TypeOK
<1>2. {"absent"} \cap Twin = {}
  BY MergingAssumption
<1>3. \A a \in Pair : Merging!TextOf(a, n) = note[a][n] \cap Twin
  BY <1>1, <1>2 DEF Merging!TextOf
<1> QED
  BY <1>1, <1>3

(* Claude writes a note: what it takes out is forgotten, and what it puts  *)
(* in while a merge has the note to do is missed.                          *)
LEMMA TouchKeeps ==
  ASSUME MergeInv, NEW a \in Pair, NEW n \in One,
         NEW new \in (SUBSET Twin) \cup {{"absent"}},
         note' = [note EXCEPT ![a] = [@ EXCEPT ![n] = new]],
         index' \in [Pair -> (SUBSET One) \cup {{"absent"}}],
         \A b \in Pair : Merging!HasIndex(b) => Merging!HasIndex(b)',
         forgotten \subseteq forgotten', forgotten' \subseteq One \X Twin,
         missed \subseteq missed', missed' \subseteq One \X Twin,
         \A f \in note[a][n] \cap Twin : f \in new \/ <<n, f>> \in forgotten',
         Merging!ToMerge(a, n) =>
           \A f \in new \cap Twin : f \in note[a][n] \/ <<n, f>> \in missed',
         Merging!Touches(a, n)
  PROVE  MergeInv' /\ Merging!KeepsFacts
<1>1. /\ note \in [Pair -> [One -> (SUBSET Twin) \cup {{"absent"}}]] /\ to \in Pair
      /\ from \in Pair /\ at \in One /\ toMerge \subseteq One \cup {Merging!Index}
  BY DEF MergeInv, Merging!TypeOK
<1>2. /\ UNCHANGED <<base, from, to, toMerge, mergeStep, plan, at, result, chosen, cuts>>
      /\ edits < MaxFacts /\ edits' = edits + 1
      /\ touched' = touched \cup (IF Merging!ToMerge(a, n) THEN {n} ELSE {})
  BY DEF Merging!Touches
<1>3. \A b \in Pair, m \in One : note'[b][m] = IF b = a /\ m = n THEN new ELSE note[b][m]
  BY <1>1
<1>4. note' \in [Pair -> [One -> (SUBSET Twin) \cup {{"absent"}}]]
  BY <1>1
<1>5. edits' \in 0..MaxFacts /\ touched' \subseteq One
  BY <1>2 DEF MergeInv, Merging!TypeOK
<1>6. Merging!TypeOK'
  BY <1>2, <1>4, <1>5 DEF MergeInv, Merging!TypeOK
<1>e. \A m, f : Excused(m, f) => Excused(m, f)'
  BY DEF Excused
(* What was said is still said, or excused.                                *)
<1>k. \A b \in Pair, m \in One, f \in Twin :
        f \in note[b][m] => f \in note'[b][m] \/ Excused(m, f)'
  BY <1>3 DEF Excused
(* What is said newly in a note to be merged is excused.                   *)
<1>n. \A b \in {from, to}, m \in toMerge \cap One, f \in Twin :
        f \in note'[b][m] => f \in note[b][m] \/ Excused(m, f)'
  <2> SUFFICES ASSUME NEW b \in {from, to}, NEW m \in toMerge \cap One, NEW f \in Twin,
                      f \in note'[b][m], f \notin note[b][m]
               PROVE  Excused(m, f)'
    OBVIOUS
  <2>1. b \in Pair
    BY <1>1
  <2>2. b = a /\ m = n /\ f \in new
    BY <1>3, <2>1
  <2>3. Merging!ToMerge(a, n)
    BY <2>2 DEF Merging!ToMerge
  <2>4. f \in new \cap Twin /\ f \notin note[a][n]
    BY <2>2
  <2> QED
    BY <2>2, <2>3, <2>4 DEF Excused
<1>7. CommonToAll'
  <2>1. \A m \in One : base[m] # {"absent"} => base[m] \subseteq Twin
    BY FactsOnly
  <2> QED
    BY <1>2, <1>e, <1>k, <2>1 DEF MergeInv, CommonToAll
<1>8. PlanHolds'
  <2> SUFFICES ASSUME NEW m \in toMerge \ {Merging!Index},
                      mergeStep \in {"write", "common"} => m # at
               PROVE  /\ plan[m] # "none"
                      /\ plan[m] = "add" => \A f \in note'[to][m] \cap Twin : Excused(m, f)'
                      /\ plan[m] = "same" => Covers(note[to][m], m, note[from][m])'
                      /\ plan[m] = "merge" => base[m] # Merging!NoNote
                      /\ plan[m] = "conflict" => \A f \in Twin : Excused(m, f)'
    BY <1>2 DEF PlanHolds
  <2>1. m \in toMerge \cap One
    BY <1>1
  <2>2. /\ plan[m] # "none"
        /\ plan[m] = "add" => \A f \in note[to][m] \cap Twin : Excused(m, f)
        /\ plan[m] = "same" => Covers(note[to][m], m, note[from][m])
        /\ plan[m] = "merge" => base[m] # Merging!NoNote
        /\ plan[m] = "conflict" => \A f \in Twin : Excused(m, f)
    BY DEF MergeInv, PlanHolds
  <2>3. plan[m] = "add" => \A f \in note'[to][m] \cap Twin : Excused(m, f)'
    BY <1>e, <1>n, <2>1, <2>2
  <2>4. plan[m] = "same" => Covers(note[to][m], m, note[from][m])'
    BY <1>1, <1>2, <1>e, <1>k, <1>n, <2>1, <2>2 DEF Covers
  <2> QED
    BY <1>e, <2>2, <2>3, <2>4
<1>9. ResultHolds' /\ NoteIsOver'
  <2> SUFFICES ASSUME mergeStep \in {"write", "common"} PROVE ResultHolds' /\ NoteIsOver'
    BY <1>2 DEF ResultHolds, NoteIsOver
  <2>1. at \in toMerge \cap One
    BY <1>1 DEF MergeInv
  <2>2. ASSUME NEW b \in {from, to}
        PROVE  Covers(note[to][at], at, note[b][at]) => Covers(note[to][at], at, note[b][at])'
    BY <1>1, <1>2, <1>e, <1>k, <1>n, <2>1, <2>2 DEF Covers
  <2>3. ASSUME NEW b \in {from, to}
        PROVE  Covers(result, at, note[b][at]) => Covers(result, at, note[b][at])'
    BY <1>1, <1>2, <1>e, <1>n, <2>1, <2>3 DEF Covers
  <2> QED
    BY <1>2, <2>2, <2>3 DEF MergeInv, ResultHolds, NoteIsOver
<1>10. Merging!KeepsFacts
  <2> SUFFICES ASSUME NEW b \in Pair, NEW m \in One, Merging!Has(b, m), NEW f \in note[b][m]
               PROVE  <<m, f>> \in forgotten' \cup missed' \/ (Merging!Has(b, m)' /\ f \in note'[b][m])
    BY DEF Merging!KeepsFacts
  <2>1. f \in Twin
    BY FactsOnly
  <2>2. f \in note'[b][m] \/ Excused(m, f)'
    BY <1>k, <2>1
  <2>3. f \in note'[b][m] => note'[b][m] # {"absent"}
    BY <2>1, MergingAssumption
  <2> QED
    BY <2>2, <2>3 DEF Excused
<1>11. Merging!Index \in toMerge' => Merging!HasIndex(from)'
  BY <1>1, <1>2 DEF MergeInv
<1> QED
  BY <1>2, <1>6, <1>7, <1>8, <1>9, <1>10, <1>11 DEF MergeInv

LEMMA RemembersKeep ==
  ASSUME MergeInv, NEW a \in Pair, NEW n \in One, NEW f \in Twin, Merging!Remember(a, n, f)
  PROVE  MergeInv' /\ Merging!KeepsFacts
<1> DEFINE new == IF note[a][n] # {"absent"} THEN note[a][n] \cup {f} ELSE {f}
<1>1. new \in SUBSET Twin
  BY FactsOnly
<1>2. /\ note' = [note EXCEPT ![a] = [@ EXCEPT ![n] = new]]
      /\ index' = [index EXCEPT ![a] = Merging!ListedIn(a) \cup {n}]
      /\ missed' = missed \cup (IF Merging!ToMerge(a, n) THEN {<<n, f>>} ELSE {})
      /\ Merging!Touches(a, n) /\ forgotten' = forgotten
  BY DEF Merging!Remember
<1>3. index \in [Pair -> (SUBSET One) \cup {{"absent"}}]
  BY DEF MergeInv, Merging!TypeOK
<1>4. Merging!ListedIn(a) \cup {n} \in SUBSET One
  BY <1>3 DEF Merging!ListedIn
<1>5. index' \in [Pair -> (SUBSET One) \cup {{"absent"}}]
  BY <1>2, <1>3, <1>4
<1>6. \A b \in Pair : Merging!HasIndex(b) => Merging!HasIndex(b)'
  BY <1>2, <1>3, <1>4, MergingAssumption
<1>7. /\ missed \subseteq missed' /\ missed' \subseteq One \X Twin
      /\ forgotten' \subseteq One \X Twin
  BY <1>2 DEF MergeInv, Merging!TypeOK
<1>8. /\ \A g \in note[a][n] \cap Twin : g \in new
      /\ \A g \in new : g \in note[a][n] \/ g = f
  BY MergingAssumption
<1> HIDE DEF new
<1> QED
  BY <1>1, <1>2, <1>5, <1>6, <1>7, <1>8, TouchKeeps

LEMMA ForgetsKeep ==
  ASSUME MergeInv, NEW a \in Pair, NEW n \in One, NEW f \in Twin, Merging!Forget(a, n, f)
  PROVE  MergeInv' /\ Merging!KeepsFacts
<1> DEFINE new == note[a][n] \ {f}
<1>1. new \in SUBSET Twin
  BY FactsOnly DEF Merging!Forget
<1>2. /\ note' = [note EXCEPT ![a] = [@ EXCEPT ![n] = new]]
      /\ Merging!Touches(a, n) /\ forgotten' = forgotten \cup {<<n, f>>}
      /\ index' = index /\ missed' = missed
  BY DEF Merging!Forget
<1>3. /\ forgotten \subseteq forgotten' /\ forgotten' \subseteq One \X Twin
      /\ missed' \subseteq One \X Twin
      /\ index' \in [Pair -> (SUBSET One) \cup {{"absent"}}]
  BY <1>2 DEF MergeInv, Merging!TypeOK
<1>4. \A g \in note[a][n] : g \in new \/ <<n, g>> \in forgotten'
  BY <1>2
<1>5. \A g \in new : g \in note[a][n]
  OBVIOUS
<1> HIDE DEF new
<1> QED
  BY <1>1, <1>2, <1>3, <1>4, <1>5, TouchKeeps

LEMMA DropsKeep ==
  ASSUME MergeInv, NEW a \in Pair, NEW n \in One, Merging!Drop(a, n)
  PROVE  MergeInv' /\ Merging!KeepsFacts
<1>1. /\ note' = [note EXCEPT ![a] = [@ EXCEPT ![n] = {"absent"}]]
      /\ Merging!Touches(a, n) /\ missed' = missed
      /\ forgotten' = forgotten \cup {<<n, f>> : f \in note[a][n]}
  BY DEF Merging!Drop
<1>2. note[a][n] \subseteq Twin
  BY FactsOnly DEF Merging!Drop
<1>3. /\ forgotten \subseteq forgotten' /\ forgotten' \subseteq One \X Twin
      /\ missed' \subseteq One \X Twin
  BY <1>1, <1>2 DEF MergeInv, Merging!TypeOK
<1>4. \A f \in note[a][n] : <<n, f>> \in forgotten'
  BY <1>1
<1>5. index' \in [Pair -> (SUBSET One) \cup {{"absent"}}]
      /\ \A b \in Pair : Merging!HasIndex(b) => Merging!HasIndex(b)'
  <2>1. index \in [Pair -> (SUBSET One) \cup {{"absent"}}]
    BY DEF MergeInv, Merging!TypeOK
  <2>2. \/ index' = index
        \/ index' = [index EXCEPT ![a] = IF Merging!HasIndex(a) THEN index[a] \ {n} ELSE index[a]]
    BY DEF Merging!Drop
  <2>3. CASE index' = index
    BY <2>1, <2>3 DEF Merging!HasIndex
  <2>4. CASE index' = [index EXCEPT ![a] = IF Merging!HasIndex(a) THEN index[a] \ {n}
                                           ELSE index[a]]
    <3>1. Merging!HasIndex(a) => index[a] \ {n} \in SUBSET One /\ index[a] \ {n} # {"absent"}
      BY <2>1, MergingAssumption DEF Merging!HasIndex
    <3> QED
      BY <2>1, <2>4, <3>1 DEF Merging!HasIndex
  <2> QED
    BY <2>2, <2>3, <2>4
<1>6. \A f \in {"absent"} \cap Twin : FALSE
  BY MergingAssumption
<1> QED
  BY <1>1, <1>3, <1>4, <1>5, <1>6, TouchKeeps

(* The plan is made of what is there, and every conflict was decided on.   *)
LEMMA BeginsKeep ==
  ASSUME MergeInv, NEW a \in Pair, NEW b \in Pair, NEW d \in Merging!Decisions, Merging!Begin(a, b, d)
  PROVE  MergeInv' /\ Merging!KeepsFacts
<1>1. /\ mergeStep = "idle" /\ a # b /\ from' = a /\ to' = b /\ chosen' = d /\ mergeStep' = "file"
      /\ touched' = {} /\ UNCHANGED <<note, index, base, at, result, missed, edits, cuts>>
  BY DEF Merging!Begin
<1>2. PICK p \in [One -> Merging!Plans] :
        /\ \A n \in One : p[n] \in Merging!Planned(a, b, n)
        /\ plan' = p
        /\ toMerge' = {n \in One : p[n] # "none"}
                        \cup (IF Merging!HasIndex(a) THEN {Merging!Index} ELSE {})
        /\ forgotten' = forgotten \cup {t \in One \X Twin : p[t[1]] = "conflict"}
  BY DEF Merging!Begin
<1>3. forgotten \subseteq forgotten' /\ forgotten' \subseteq One \X Twin
  BY <1>2 DEF MergeInv, Merging!TypeOK
<1>4. \A n \in One : p[n] = "conflict" => \A f \in Twin : <<n, f>> \in forgotten'
  BY <1>2
<1>5. Merging!TypeOK'
  BY <1>1, <1>2, <1>3 DEF MergeInv, Merging!TypeOK
<1>6. \A n \in toMerge' \ {Merging!Index} : n \in One /\ p[n] # "none" /\ p[n] \in Merging!Planned(a, b, n)
  BY <1>2
<1>7. \A n \in One :
        /\ p[n] = "add" => note[b][n] = {"absent"}
        /\ p[n] = "same" => note[a][n] = note[b][n]
        /\ p[n] = "merge" => base[n] # {"absent"}
  <2> SUFFICES ASSUME NEW n \in One
               PROVE  /\ p[n] = "add" => note[b][n] = {"absent"}
                      /\ p[n] = "same" => note[a][n] = note[b][n]
                      /\ p[n] = "merge" => base[n] # {"absent"}
    OBVIOUS
  <2>1. p[n] \in Merging!Planned(a, b, n)
    BY <1>2
  <2> QED
    BY <2>1 DEF Merging!Planned
<1>8. {"absent"} \cap Twin = {}
  BY MergingAssumption
<1>9. PlanHolds'
  BY <1>1, <1>2, <1>4, <1>6, <1>7, <1>8 DEF PlanHolds, Covers, Excused
<1>10. CommonToAll' /\ ResultHolds' /\ NoteIsOver' /\ Merging!KeepsFacts
  BY <1>1, <1>3 DEF MergeInv, CommonToAll, Excused, ResultHolds, NoteIsOver, Merging!KeepsFacts
<1>11. Merging!Index \in toMerge' => Merging!HasIndex(from)'
  BY <1>1, <1>2, MergingAssumption
<1> QED
  BY <1>1, <1>5, <1>9, <1>10, <1>11 DEF MergeInv

(* The note at hand becomes a text that says what both said.               *)
LEMMA PutInKeeps ==
  ASSUME MergeInv, NEW n \in toMerge \cap One, NEW new \in SUBSET Twin,
         from # to, note' = [note EXCEPT ![to][n] = new], mergeStep' = "common", at' = n,
         Covers(new, n, note[from][n]), Covers(new, n, note[to][n]),
         result' \in {result, {"absent"}},
         UNCHANGED <<index, base, from, to, toMerge, plan, touched, chosen, forgotten, missed,
                     edits, cuts>>,
         mergeStep = "file" \/ at = n
  PROVE  MergeInv' /\ Merging!KeepsFacts
<1>1. /\ note \in [Pair -> [One -> (SUBSET Twin) \cup {{"absent"}}]] /\ to \in Pair
      /\ from \in Pair /\ toMerge \subseteq One \cup {Merging!Index}
  BY DEF MergeInv, Merging!TypeOK
<1>2. note' = [note EXCEPT ![to] = [@ EXCEPT ![n] = new]]
  BY <1>1
<1>3. \A b \in Pair, m \in One : note'[b][m] = IF b = to /\ m = n THEN new ELSE note[b][m]
  BY <1>1, <1>2
<1>4. note' \in [Pair -> [One -> (SUBSET Twin) \cup {{"absent"}}]]
  BY <1>1, <1>2
<1>5. Merging!TypeOK'
  BY <1>4 DEF MergeInv, Merging!TypeOK
<1>e. \A m, f : Excused(m, f)' <=> Excused(m, f)
  BY DEF Excused
<1>6. \A b \in Pair, m \in One, f \in Twin :
        f \in note[b][m] => f \in note'[b][m] \/ Excused(m, f)
  BY <1>3 DEF Covers
<1>7. CommonToAll'
  <2>1. \A m \in One : base[m] # {"absent"} => base[m] \subseteq Twin
    BY FactsOnly
  <2> QED
    BY <1>e, <1>6, <2>1 DEF MergeInv, CommonToAll
<1>8. PlanHolds'
  <2> SUFFICES ASSUME NEW m \in toMerge \ {Merging!Index}, m # n
               PROVE  /\ plan[m] # "none"
                      /\ plan[m] = "add" => \A f \in note'[to][m] \cap Twin : Excused(m, f)'
                      /\ plan[m] = "same" => Covers(note[to][m], m, note[from][m])'
                      /\ plan[m] = "merge" => base[m] # Merging!NoNote
                      /\ plan[m] = "conflict" => \A f \in Twin : Excused(m, f)'
    BY DEF PlanHolds
  <2>1. m \in One /\ note'[to][m] = note[to][m] /\ note'[from][m] = note[from][m]
    BY <1>1, <1>3
  <2>2. mergeStep \in {"write", "common"} => m # at
    OBVIOUS
  <2> QED
    BY <1>e, <2>1, <2>2 DEF MergeInv, PlanHolds, Covers
<1>9. NoteIsOver' /\ ResultHolds'
  BY <1>1, <1>3, <1>e DEF NoteIsOver, ResultHolds, Covers
<1>10. Merging!KeepsFacts
  <2> SUFFICES ASSUME NEW b \in Pair, NEW m \in One, Merging!Has(b, m), NEW f \in note[b][m]
               PROVE  <<m, f>> \in forgotten' \cup missed' \/ (Merging!Has(b, m)' /\ f \in note'[b][m])
    BY DEF Merging!KeepsFacts
  <2>1. f \in Twin
    BY FactsOnly
  <2>2. f \in note'[b][m] \/ Excused(m, f)'
    BY <1>6, <1>e, <2>1
  <2>3. f \in note'[b][m] => note'[b][m] # {"absent"}
    BY <2>1, MergingAssumption
  <2> QED
    BY <2>2, <2>3 DEF Excused
<1> QED
  BY <1>5, <1>7, <1>8, <1>9, <1>10 DEF MergeInv

LEMMA AddsKeep ==
  ASSUME MergeInv, NEW n \in One, Merging!AddNote(n)
  PROVE  MergeInv' /\ Merging!KeepsFacts
<1>1. /\ mergeStep = "file" /\ n \in toMerge /\ plan[n] = "add" /\ note[from][n] # {"absent"}
      /\ note' = [note EXCEPT ![to][n] = note[from][n]] /\ at' = n /\ mergeStep' = "common"
      /\ UNCHANGED <<index, base, from, to, toMerge, plan, result, touched, chosen, forgotten,
                     missed, edits, cuts>>
  BY DEF Merging!AddNote
<1>2. n # Merging!Index
  BY MergingAssumption
<1>3. \A f \in note[to][n] \cap Twin : Excused(n, f)
  BY <1>1, <1>2 DEF MergeInv, PlanHolds
<1>4. note[from][n] \in SUBSET Twin /\ from # to
  BY <1>1, FactsOnly DEF MergeInv, Merging!TypeOK
<1>5. Covers(note[from][n], n, note[from][n]) /\ Covers(note[from][n], n, note[to][n])
  BY <1>3 DEF Covers
<1> QED
  BY <1>1, <1>4, <1>5, PutInKeeps

(* What is worked out for a note says what both said.                      *)
LEMMA ResultsHold ==
  ASSUME MergeInv, NEW n \in One, Merging!MergeNote(n)
  PROVE  /\ result' \in (SUBSET Twin) \cup {{"absent"}}
         /\ IF result' = {"absent"} THEN Covers(note[to][n], n, note[from][n])'
            ELSE Covers(result, n, note[from][n])' /\ Covers(result, n, note[to][n])'
<1>1. /\ mergeStep = "file" /\ n \in toMerge /\ plan[n] # "add" /\ result' \in Merging!Results(n)
      /\ Merging!NeedsSource(n) => note[from][n] # {"absent"}
      /\ missed' = IF plan[n] = "merge" /\ result' = {"absent"}
                   THEN missed \cup {<<n, f>> : f \in Merging!TextOf(from, n)} ELSE missed
      /\ UNCHANGED <<note, from, to, plan, forgotten, base, chosen>>
  BY DEF Merging!MergeNote
<1>2. n # Merging!Index /\ {"absent"} \cap Twin = {}
  BY MergingAssumption
<1>3. /\ plan[n] # "none"
      /\ plan[n] = "same" => Covers(note[to][n], n, note[from][n])
      /\ plan[n] = "merge" => base[n] # Merging!NoNote
      /\ plan[n] = "conflict" => \A f \in Twin : Excused(n, f)
  BY <1>1, <1>2 DEF MergeInv, PlanHolds
<1>4. from \in Pair /\ to \in Pair /\ plan[n] \in {"same", "merge", "conflict"}
  BY <1>1, <1>3 DEF MergeInv, Merging!TypeOK
<1>5. /\ Merging!TextOf(from, n) = note[from][n] \cap Twin
      /\ Merging!TextOf(to, n) = note[to][n] \cap Twin
      /\ note[from][n] # {"absent"} => note[from][n] \subseteq Twin
      /\ note[to][n] # {"absent"} => note[to][n] \subseteq Twin
      /\ base[n] # {"absent"} => base[n] \subseteq Twin
  BY <1>4, FactsOnly
<1>6. CASE plan[n] = "same"
  <2>1. result' = {"absent"} /\ missed' = missed
    BY <1>1, <1>6 DEF Merging!Results
  <2> QED
    BY <1>1, <1>3, <1>6, <2>1 DEF Covers, Excused
<1>7. CASE plan[n] = "conflict"
  <2>1. missed' = missed /\ \A f \in Twin : Excused(n, f)'
    BY <1>1, <1>3, <1>7 DEF Excused
  <2>2. result' \in {{"absent"}, note[from][n], Merging!TextOf(from, n) \cup Merging!TextOf(to, n)}
    BY <1>1, <1>7 DEF Merging!Results
  <2>3. result' = note[from][n] => result' \in (SUBSET Twin) \cup {{"absent"}}
    BY <1>5
  <2>4. result' \in (SUBSET Twin) \cup {{"absent"}}
    BY <1>5, <2>2, <2>3
  <2> QED
    BY <2>1, <2>4 DEF Covers
<1>8. CASE plan[n] = "merge"
  <2>1. result' \in Merging!Merged(n)
    BY <1>1, <1>8 DEF Merging!Results
  <2>2. CASE result' = {"absent"}
    <3>1. \A f \in note[from][n] \cap Twin : <<n, f>> \in missed'
      BY <1>1, <1>5, <1>8, <2>2
    <3> QED
      BY <1>1, <2>2, <3>1 DEF Covers, Excused
  <2>3. CASE result' # {"absent"}
    <3>1. /\ note[from][n] # {"absent"} /\ note[to][n] # {"absent"}
          /\ result' = Merging!ThreeWay(note[to][n], base[n], note[from][n])
      BY <2>1, <2>3 DEF Merging!Merged
    <3>2. \A f \in base[n] : /\ f \in note[from][n] \/ Excused(n, f)
                             /\ f \in note[to][n] \/ Excused(n, f)
      BY <1>3, <1>4, <1>8 DEF MergeInv, CommonToAll
    <3>3. missed' = missed
      BY <1>1, <2>3
    <3>4. result' \subseteq Twin
      BY <1>5, <3>1 DEF Merging!ThreeWay
    <3>5. /\ \A f \in note[from][n] : f \in result' \/ Excused(n, f)
          /\ \A f \in note[to][n] : f \in result' \/ Excused(n, f)
      BY <3>1, <3>2 DEF Merging!ThreeWay
    <3>6. Covers(result, n, note[from][n])' /\ Covers(result, n, note[to][n])'
      BY <1>1, <3>3, <3>5 DEF Covers, Excused
    <3> QED
      BY <2>3, <3>4, <3>6
  <2> QED
    BY <2>2, <2>3
<1> QED
  BY <1>4, <1>6, <1>7, <1>8

LEMMA MergesKeep ==
  ASSUME MergeInv, NEW n \in One, Merging!MergeNote(n)
  PROVE  MergeInv' /\ Merging!KeepsFacts
<1>1. /\ mergeStep = "file" /\ n \in toMerge /\ mergeStep' = "write" /\ at' = n
      /\ missed' = IF plan[n] = "merge" /\ result' = {"absent"}
                   THEN missed \cup {<<n, f>> : f \in Merging!TextOf(from, n)} ELSE missed
      /\ UNCHANGED <<note, index, base, from, to, toMerge, plan, touched, chosen, forgotten,
                     edits, cuts>>
  BY DEF Merging!MergeNote
<1>2. from \in Pair /\ Merging!TextOf(from, n) \subseteq Twin
  BY FactsOnly DEF MergeInv, Merging!TypeOK
<1>3. missed \subseteq missed' /\ missed' \subseteq One \X Twin
  BY <1>1, <1>2 DEF MergeInv, Merging!TypeOK
<1>4. /\ result' \in (SUBSET Twin) \cup {{"absent"}}
      /\ IF result' = {"absent"} THEN Covers(note[to][n], n, note[from][n])'
         ELSE Covers(result, n, note[from][n])' /\ Covers(result, n, note[to][n])'
  BY ResultsHold
<1>5. Merging!TypeOK'
  BY <1>1, <1>3, <1>4 DEF MergeInv, Merging!TypeOK
<1>e. \A m, f : Excused(m, f) => Excused(m, f)'
  BY <1>1, <1>3 DEF Excused
<1>6. CommonToAll'
  BY <1>1, <1>e DEF MergeInv, CommonToAll
<1>7. PlanHolds'
  BY <1>1, <1>e DEF MergeInv, PlanHolds, Covers
<1>8. ResultHolds' /\ NoteIsOver'
  BY <1>1, <1>4 DEF ResultHolds, NoteIsOver
<1>9. Merging!KeepsFacts
  BY <1>1 DEF Merging!KeepsFacts
<1> QED
  BY <1>1, <1>5, <1>6, <1>7, <1>8, <1>9 DEF MergeInv

LEMMA WritesKeep ==
  ASSUME MergeInv, Merging!WriteNote
  PROVE  MergeInv' /\ Merging!KeepsFacts
<1>1. /\ mergeStep = "write" /\ mergeStep' = "common" /\ result' = {"absent"}
      /\ note' = IF result = {"absent"} THEN note ELSE [note EXCEPT ![to][at] = result]
      /\ UNCHANGED <<index, base, from, to, toMerge, plan, at, touched, chosen, forgotten, missed,
                     edits, cuts>>
  BY DEF Merging!WriteNote
<1>2. at \in toMerge /\ at \in One /\ from # to /\ result \in (SUBSET Twin) \cup {{"absent"}}
  BY <1>1 DEF MergeInv, Merging!TypeOK
<1>3. CASE result # {"absent"}
  <2>1. Covers(result, at, note[from][at]) /\ Covers(result, at, note[to][at])
    BY <1>1, <1>3 DEF MergeInv, ResultHolds
  <2> QED
    BY <1>1, <1>2, <1>3, <2>1, PutInKeeps
<1>4. CASE result = {"absent"}
  <2>1. Covers(note[to][at], at, note[from][at])
    BY <1>1, <1>4 DEF MergeInv, ResultHolds
  <2>2. Merging!TypeOK'
    BY <1>1, <1>4 DEF MergeInv, Merging!TypeOK
  <2>3. CommonToAll'
    BY <1>1, <1>4 DEF MergeInv, CommonToAll, Excused
  <2>4. PlanHolds'
    BY <1>1, <1>4 DEF MergeInv, PlanHolds, Covers, Excused
  <2>5. NoteIsOver' /\ ResultHolds'
    BY <1>1, <1>4, <2>1 DEF NoteIsOver, ResultHolds, Covers, Excused
  <2>6. Merging!KeepsFacts
    BY <1>1, <1>4 DEF Merging!KeepsFacts
  <2> QED
    BY <1>1, <1>2, <2>2, <2>3, <2>4, <2>5, <2>6 DEF MergeInv
<1> QED
  BY <1>3, <1>4

(* The source's note is the common version, whole or in part.              *)
LEMMA CommonKeeps ==
  ASSUME MergeInv, mergeStep = "common", note[from][at] # {"absent"},
         NEW part_ \in SUBSET note[from][at],
         base' = [base EXCEPT ![at] = part_], UNCHANGED <<note, forgotten, missed>>
  PROVE  /\ CommonToAll' /\ base' \in [One -> (SUBSET Twin) \cup {{"absent"}}]
         /\ \A n \in One : base[n] # {"absent"} => base'[n] # {"absent"}
<1>1. /\ base \in [One -> (SUBSET Twin) \cup {{"absent"}}] /\ at \in One
      /\ from \in Pair /\ to \in Pair /\ from # to
      /\ Covers(note[to][at], at, note[from][at])
  BY DEF MergeInv, Merging!TypeOK, NoteIsOver
<1>2. part_ \subseteq Twin /\ part_ # {"absent"}
  BY <1>1, FactsOnly, MergingAssumption
<1>3. \A a \in Pair : a = from \/ a = to
  BY <1>1, MergingAssumption
<1>4. \A f \in part_, a \in Pair : f \in note[a][at] \/ Excused(at, f)
  BY <1>1, <1>2, <1>3 DEF Covers
<1>5. CommonToAll'
  <2> SUFFICES ASSUME NEW n \in One, base'[n] # {"absent"}, NEW f \in base'[n], NEW a \in Pair
               PROVE  f \in note[a][n] \/ Excused(n, f)
    BY DEF CommonToAll, Excused
  <2> QED
    BY <1>1, <1>4 DEF MergeInv, CommonToAll
<1> QED
  BY <1>1, <1>2, <1>5

LEMMA CommonsKeep == ASSUME MergeInv, Merging!Common PROVE MergeInv' /\ Merging!KeepsFacts
<1>1. /\ mergeStep = "common" /\ mergeStep' = "file" /\ toMerge' = toMerge \ {at}
      /\ UNCHANGED <<note, index, from, to, plan, at, result, touched, chosen, forgotten, missed,
                     edits, cuts>>
      /\ base' = [base EXCEPT ![at] = note[from][at]] /\ note[from][at] # {"absent"}
  BY DEF Merging!Common
<1>2. /\ CommonToAll' /\ base' \in [One -> (SUBSET Twin) \cup {{"absent"}}]
      /\ \A n \in One : base[n] # {"absent"} => base'[n] # {"absent"}
  BY <1>1, CommonKeeps
<1>3. Merging!TypeOK'
  BY <1>1, <1>2 DEF MergeInv, Merging!TypeOK
<1>4. PlanHolds'
  <2>1. \A m \in toMerge \ {Merging!Index} : m \in One
    BY DEF MergeInv, Merging!TypeOK
  <2> QED
    BY <1>1, <1>2, <2>1 DEF MergeInv, PlanHolds, Covers, Excused
<1> QED
  BY <1>1, <1>2, <1>3, <1>4 DEF MergeInv, ResultHolds, NoteIsOver, Merging!KeepsFacts

LEMMA IndexKeeps ==
  ASSUME MergeInv, Merging!MergeIndex \/ Merging!Finish \/ Merging!Fails
  PROVE  MergeInv' /\ Merging!KeepsFacts
<1>1. /\ toMerge' = {} /\ mergeStep' \in {"file", "idle"}
      /\ result' \in {result, {"absent"}} /\ touched' \in {touched, {}}
      /\ UNCHANGED <<note, base, from, to, plan, at, chosen, forgotten, missed, edits, cuts>>
      /\ mergeStep' = "file" => mergeStep = "file"
  BY DEF Merging!MergeIndex, Merging!Finish, Merging!Fails, Merging!Ends
<1>2. index' \in [Pair -> (SUBSET One) \cup {{"absent"}}]
  <2>1. index \in [Pair -> (SUBSET One) \cup {{"absent"}}] /\ from \in Pair /\ to \in Pair
    BY DEF MergeInv, Merging!TypeOK
  <2>2. CASE Merging!Finish \/ Merging!Fails
    BY <2>1, <2>2 DEF Merging!Finish, Merging!Fails
  <2>3. CASE Merging!MergeIndex
    <3>1. PICK i \in Merging!MergedIndexes : index' = [index EXCEPT ![to] = i]
      BY <2>3 DEF Merging!MergeIndex
    <3>2. i \in (SUBSET One) \cup {{"absent"}}
      <4>1. CASE index[to] = {"absent"}
        BY <2>1, <3>1, <4>1 DEF Merging!MergedIndexes, Merging!HasIndex
      <4>2. CASE index[to] # {"absent"}
        <5>1. CASE i = index[to]
          BY <2>1, <5>1
        <5>2. CASE i # index[to]
          <6>1. i = {n \in index[from] \cup index[to] : Merging!Has(to, n)}
            BY <3>1, <4>2, <5>2 DEF Merging!MergedIndexes, Merging!HasIndex
          <6>2. index[from] # {"absent"}
            BY <2>3 DEF Merging!MergeIndex, MergeInv
          <6> QED
            BY <2>1, <4>2, <6>1, <6>2
        <5> QED
          BY <5>1, <5>2
      <4> QED
        BY <4>1, <4>2
    <3> QED
      BY <2>1, <3>1, <3>2
  <2> QED
    BY <2>2, <2>3
<1>3. Merging!TypeOK'
  BY <1>1, <1>2 DEF MergeInv, Merging!TypeOK
<1>4. CommonToAll' /\ PlanHolds' /\ ResultHolds' /\ NoteIsOver' /\ Merging!KeepsFacts
  BY <1>1 DEF MergeInv, CommonToAll, Excused, PlanHolds, ResultHolds, NoteIsOver,
     Merging!KeepsFacts
<1>5. IF mergeStep' = "idle" THEN toMerge' = {} ELSE from' # to'
  BY <1>1 DEF MergeInv
<1> QED
  BY <1>1, <1>3, <1>4, <1>5 DEF MergeInv

(* A move is killed between two steps, or within the copy of a note or of  *)
(* its common version.                                                     *)
LEMMA KilledKeeps == ASSUME MergeInv, Merging!Killed PROVE MergeInv' /\ Merging!KeepsFacts
<1>1. /\ mergeStep # "idle" /\ mergeStep' = "idle" /\ toMerge' = {} /\ result' = {"absent"}
      /\ touched' = {}
      /\ UNCHANGED <<index, from, to, plan, at, chosen, forgotten, missed, edits>>
  BY DEF Merging!Killed, Merging!Ends
<1>2. cuts' \in 0..MaxCuts
  BY DEF Merging!Killed, MergeInv, Merging!TypeOK
<1>3. /\ note \in [Pair -> [One -> (SUBSET Twin) \cup {{"absent"}}]]
      /\ base \in [One -> (SUBSET Twin) \cup {{"absent"}}] /\ to \in Pair /\ from \in Pair
      /\ from # to /\ at \in One
  BY <1>1 DEF MergeInv, Merging!TypeOK
<1>t. /\ \A n \in One : Merging!TextOf(from, n) = note[from][n] \cap Twin
      /\ \A n \in One : note[from][n] # {"absent"} => note[from][n] \subseteq Twin
  BY <1>3, FactsOnly
<1>4. /\ CommonToAll' /\ Merging!KeepsFacts
      /\ note' \in [Pair -> [One -> (SUBSET Twin) \cup {{"absent"}}]]
      /\ base' \in [One -> (SUBSET Twin) \cup {{"absent"}}]
  <2>1. CASE UNCHANGED <<note, base>>
    BY <1>1, <1>3, <2>1 DEF MergeInv, CommonToAll, Excused, Merging!KeepsFacts
  <2>2. CASE \E n \in toMerge \ {Merging!Index} : \E some \in SUBSET Merging!TextOf(from, n) :
               /\ mergeStep = "file" /\ plan[n] = "add" /\ Merging!Has(from, n)
               /\ note' = [note EXCEPT ![to][n] = some]
               /\ base' = base
    <3>0. PICK n \in toMerge \ {Merging!Index} : \E some \in SUBSET Merging!TextOf(from, n) :
               /\ mergeStep = "file" /\ plan[n] = "add" /\ Merging!Has(from, n)
               /\ note' = [note EXCEPT ![to][n] = some]
               /\ base' = base
      BY <2>2
    <3>1. PICK some \in SUBSET Merging!TextOf(from, n) :
               /\ mergeStep = "file" /\ plan[n] = "add"
               /\ note' = [note EXCEPT ![to] = [@ EXCEPT ![n] = some]]
               /\ base' = base
      BY <3>0
    <3>2. n \in One /\ \A f \in note[to][n] \cap Twin : Excused(n, f)
      BY <3>1 DEF MergeInv, Merging!TypeOK, PlanHolds
    <3>4. some \in SUBSET Twin
      BY <1>t, <3>2
    <3>5. \A b \in Pair, m \in One : note'[b][m] = IF b = to /\ m = n THEN some ELSE note[b][m]
      BY <1>3, <3>1
    <3>6. note' \in [Pair -> [One -> (SUBSET Twin) \cup {{"absent"}}]]
      BY <1>3, <3>1, <3>4
    <3>7. \A b \in Pair, m \in One, f \in Twin :
            f \in note[b][m] => f \in note'[b][m] \/ Excused(m, f)'
      BY <1>1, <3>2, <3>5 DEF Excused
    <3>8. CommonToAll'
      <4>1. \A m \in One : base[m] # {"absent"} => base[m] \subseteq Twin
        BY FactsOnly
      <4>2. \A m, f : Excused(m, f) => Excused(m, f)'
        BY <1>1 DEF Excused
      <4> QED
        BY <3>1, <3>7, <4>1, <4>2 DEF MergeInv, CommonToAll
    <3>9. Merging!KeepsFacts
      <4> SUFFICES ASSUME NEW b \in Pair, NEW m \in One, Merging!Has(b, m), NEW f \in note[b][m]
                   PROVE  <<m, f>> \in forgotten' \cup missed'
                            \/ (Merging!Has(b, m)' /\ f \in note'[b][m])
        BY DEF Merging!KeepsFacts
      <4>1. f \in Twin
        BY FactsOnly
      <4>2. f \in note'[b][m] => note'[b][m] # {"absent"}
        BY <4>1, MergingAssumption
      <4> QED
        BY <3>7, <4>1, <4>2 DEF Excused
    <3> QED
      BY <1>3, <3>1, <3>6, <3>8, <3>9
  <2>3. CASE \E some \in SUBSET Merging!TextOf(from, at) :
               /\ mergeStep = "common" /\ Merging!Has(from, at)
               /\ base' = [base EXCEPT ![at] = some] /\ note' = note
    <3>1. PICK some \in SUBSET Merging!TextOf(from, at) :
               /\ mergeStep = "common" /\ Merging!Has(from, at)
               /\ base' = [base EXCEPT ![at] = some] /\ note' = note
      BY <2>3
    <3>2. some \in SUBSET note[from][at]
      BY <1>3, <1>t
    <3>3. CommonToAll' /\ base' \in [One -> (SUBSET Twin) \cup {{"absent"}}]
      BY <1>1, <3>1, <3>2, CommonKeeps
    <3> QED
      BY <1>3, <3>1, <3>3 DEF Merging!KeepsFacts
  <2> QED
    BY <2>1, <2>2, <2>3 DEF Merging!Killed
<1>5. Merging!TypeOK'
  BY <1>1, <1>2, <1>4 DEF MergeInv, Merging!TypeOK
<1> QED
  BY <1>1, <1>4, <1>5 DEF MergeInv, PlanHolds, ResultHolds, NoteIsOver

LEMMA EveryStepMerges == ASSUME MergeInv, Merging!Next PROVE MergeInv' /\ Merging!KeepsFacts
BY RemembersKeep, ForgetsKeep, DropsKeep, BeginsKeep, AddsKeep, MergesKeep, WritesKeep, CommonsKeep,
   IndexKeeps, KilledKeeps DEF Merging!Next

LEMMA NotesStay == ASSUME MergeInv, UNCHANGED memoryVars PROVE MergeInv' /\ Merging!KeepsFacts
<1> USE DEF memoryVars
<1>1. Merging!TypeOK' /\ Merging!KeepsFacts
  BY DEF MergeInv, Merging!TypeOK, Merging!KeepsFacts
<1>2. CommonToAll' /\ PlanHolds'
  BY DEF MergeInv, CommonToAll, PlanHolds, Excused, Covers
<1>3. ResultHolds' /\ NoteIsOver'
  BY DEF MergeInv, ResultHolds, NoteIsOver, Excused, Covers
<1> QED
  BY <1>1, <1>2, <1>3 DEF MergeInv

LEMMA MergesAlways == AppSpec => [](Merges => MergeInv)
<1>1. AppInit => (Merges => MergeInv)
  BY MergeStarts DEF AppInit, AtUsage, AtTools, AtLinks, AtFiles, Carries, Merges
<1>2. (Merges => MergeInv) /\ [AppNext]_allVars => (Merges => MergeInv)'
  <2> SUFFICES ASSUME Merges => MergeInv, [AppNext]_allVars, Merges' PROVE MergeInv'
    OBVIOUS
  <2>1. MergeInv
    BY DEF AppNext, allVars, Merges
  <2> QED
    BY <2>1, NotesStay, EveryStepMerges
       DEF AppNext, allVars, AtUsage, AtTools, AtLinks, AtFiles, Carries, Merges
<1> QED
  BY <1>1, <1>2, PTL DEF AppSpec

(* Between two accounts, however many notes and facts there are and        *)
(* whichever moves were cut short or failed, a merge takes no fact from a  *)
(* note that Claude did not take out of one, or the user decide about: but *)
(* for facts that another session's Claude wrote in the note while the     *)
(* merge had it to do, or of a note found to conflict only then.           *)
THEOREM FactsAlwaysKept == AppSpec => FactsKept
<1>1. (Merges => MergeInv) /\ [AppNext]_allVars => [Merges => Merging!KeepsFacts]_memoryVars
  <2> SUFFICES ASSUME Merges => MergeInv, [AppNext]_allVars, Merges, ~UNCHANGED memoryVars
      PROVE Merging!KeepsFacts
    OBVIOUS
  <2> QED
    BY EveryStepMerges DEF AppNext, allVars, AtUsage, AtTools, AtLinks, AtFiles, Carries, Merges
<1> QED
  BY <1>1, MergesAlways, PTL DEF AppSpec, FactsKept
------------------------------------------------------------------------------
(***************************************************************************)
(* Tools.  A call that sends keys knows the window its session was in when *)
(* it looked; a move knows what its plan made of the choices.              *)
(***************************************************************************)
Told == [here : BOOLEAN, title : One \cup {None}, runs : BOOLEAN, old : BOOLEAN]
Window == [tag : Pair \cup {"user", None}, at : Pair \cup {None}, session : One \cup {None}]

USE ToolsAssumption
USE DEF Claude!world, Claude!seen

WorldOK ==
  /\ sess \in [Claude!Places -> [One -> Told]]
  /\ windows \in [Claude!Numbers -> Window]
  /\ nextWindow \in 0..MaxWindows
  /\ archives \in [Claude!Places -> SUBSET One] /\ signedIn \subseteq Pair
  /\ notes \in [One -> {"source", "destination", None}] /\ destNewer \in BOOLEAN

SeenOK ==
  /\ typed \in Window \cup {None} /\ replaced \subseteq One
  /\ used \in 0..MaxTools /\ changes \in 0..MaxMeanwhile

Given ==
  tool.step # "idle" =>
    /\ tool.kind \in Claude!Kinds /\ tool.at \in Claude!Places
    /\ tool.kind \in Claude!OnHosts => tool.at \in Pair
    /\ tool.kind = "move" => tool.to \in Claude!Places
    /\ tool.step = "plan" => tool.kind = "move"

AimsAt ==
  tool.kind = "send" /\ tool.step = "act" =>
    /\ tool.window \in Claude!Numbers
    /\ ~tool.moved => windows[tool.window].at = tool.at /\ windows[tool.window].session \in tool.ids

SettledAs(n) ==
  \/ tool.choices[n] = "source"
  \/ tool.choices[n] = "newer" /\ tool.decided[n] = "source" /\ tool.newer[n] = "source"

Settles ==
  tool.kind = "move" /\ tool.step = "act" =>
    \A n \in One : tool.decided[n] = "source" => SettledAs(n)

AboutCall ==
  /\ tool \in Claude!Calls /\ Given /\ AimsAt /\ Settles
  /\ Claude!KeysFindTheirWindow /\ Claude!MovesAsDecided

ToolsInv == WorldOK /\ SeenOK /\ AboutCall

LEMMA ToolsTyped == ToolsInv => Claude!TypeOK
<1> SUFFICES ASSUME ToolsInv PROVE Claude!TypeOK
  OBVIOUS
<1>1. nextWindow \in 0..MaxWindows
  BY DEF ToolsInv, WorldOK
<1> QED
  BY <1>1 DEF ToolsInv, WorldOK, SeenOK, AboutCall, Claude!TypeOK, Told, Window,
     Claude!Numbers, Claude!Sides

LEMMA IdleCall == Claude!Idle \in Claude!Calls /\ Claude!Idle.step = "idle" /\ Claude!Idle.kind = None
BY DEF Claude!Idle, Claude!Calls, Claude!NoChoices

LEMMA CallEnds == ASSUME tool' = Claude!Idle PROVE AboutCall'
BY IdleCall, KindsAssumption DEF Claude!Kinds, Claude!OnHosts, AboutCall, Given, AimsAt, Settles, Claude!KeysFindTheirWindow,
   Claude!MovesAsDecided

LEMMA ToolsStart == ASSUME Claude!Init PROVE ToolsInv
<1>1. nextWindow \in 0..MaxWindows /\ used \in 0..MaxTools /\ changes \in 0..MaxMeanwhile
  BY DEF Claude!Init
<1>2. tool = Claude!Idle /\ typed = None /\ replaced = {}
  BY DEF Claude!Init
<1>3. AboutCall
  BY <1>2, IdleCall, KindsAssumption DEF Claude!Kinds, Claude!OnHosts, AboutCall, Given, AimsAt, Settles,
     Claude!KeysFindTheirWindow, Claude!MovesAsDecided
<1>4. sess \in [Claude!Places -> [One -> Told]]
  <2>1. PICK home \in Claude!Places, t \in [One -> One \cup {None}] :
           sess = [p \in Claude!Places |-> [s \in One |->
                [here |-> p = home, title |-> t[s], runs |-> FALSE, old |-> FALSE]]]
    BY DEF Claude!Init
  <2> QED
    BY <2>1 DEF Told
<1>5. windows \in [Claude!Numbers -> Window]
  BY <1>1 DEF Claude!Init, Window, Claude!Closed, Claude!Numbers
<1>6. notes \in [One -> {"source", "destination", None}] /\ destNewer \in BOOLEAN
  BY DEF Claude!Init, Claude!Sides
<1>7. archives \in [Claude!Places -> SUBSET One] /\ signedIn \subseteq Pair
  BY DEF Claude!Init
<1> QED
  BY <1>1, <1>2, <1>3, <1>4, <1>5, <1>6, <1>7 DEF ToolsInv, WorldOK, SeenOK

(* Records of sessions and of windows.                                     *)
LEMMA InPlaceTyped ==
  ASSUME sess \in [Claude!Places -> [One -> Told]], NEW p \in Claude!Places, NEW s \in One,
         NEW here \in BOOLEAN, NEW runs \in BOOLEAN
  PROVE  Claude!InPlace(p, s, here, runs) \in [Claude!Places -> [One -> Told]]
<1> DEFINE r == [sess[p][s] EXCEPT !.here = here, !.runs = runs, !.old = FALSE]
<1>1. r \in Told
  <2>1. sess[p][s] \in Told
    OBVIOUS
  <2> QED
    BY <2>1 DEF Told
<1>2. Claude!InPlace(p, s, here, runs) = [sess EXCEPT ![p] = [@ EXCEPT ![s] = r]]
  BY DEF Claude!InPlace
<1> HIDE DEF r
<1> QED
  BY <1>1, <1>2

LEMMA ShutTyped ==
  ASSUME windows \in [Claude!Numbers -> Window], NEW p, NEW s
  PROVE  Claude!Shut(p, s) \in [Claude!Numbers -> Window]
<1>1. Claude!Closed \in Window
  BY DEF Claude!Closed, Window
<1> QED
  BY <1>1 DEF Claude!Shut, Claude!Numbers

LEMMA NewWindowTyped ==
  ASSUME NEW w \in [Claude!Numbers -> Window], NEW p \in Pair, NEW s \in One, nextWindow \in 0..MaxWindows,
         Claude!InNewWindow(w, p, s)
  PROVE  windows' \in [Claude!Numbers -> Window] /\ nextWindow' \in 0..MaxWindows
<1>1. [tag |-> p, at |-> p, session |-> s] \in Window
  BY DEF Window
<1>2. nextWindow' \in 0..MaxWindows
  BY DEF Claude!InNewWindow
<1> QED
  BY <1>1, <1>2 DEF Claude!InNewWindow

(* A call begins.                                                          *)
Begun(c, step, kind, a) ==
  c \in Claude!Calls /\ c.step = step /\ c.kind = kind /\ c.at = a

LEMMA CallTyped ==
  ASSUME NEW c \in Claude!Calls, NEW step \in {"list", "act"}, NEW kind \in Claude!Kinds,
         NEW a \in Claude!Places, NEW ref \in One \cup {None}
  PROVE  Begun([c EXCEPT !.step = step, !.kind = kind, !.at = a, !.ref = ref], step, kind, a)
BY DEF Claude!Calls, Begun

MoveBegun(c, a, b) == Begun(c, "list", "move", a) /\ c.to = b

LEMMA MoveTyped ==
  ASSUME NEW c \in Claude!Calls, NEW a \in Claude!Places, NEW b \in Claude!Places,
         NEW ref \in One, NEW newer \in BOOLEAN, NEW choices \in [One -> Claude!Choices \cup {None}]
  PROVE  MoveBegun([c EXCEPT !.step = "list", !.kind = "move", !.at = a, !.to = b,
                             !.ref = ref, !.choices = choices, !.replaceNewer = newer], a, b)
<1> DEFINE begun == [c EXCEPT !.step = "list", !.kind = "move", !.at = a, !.to = b]
<1>0. "move" \in Claude!Kinds
  BY DEF Claude!Kinds
<1>1. begun \in Claude!Calls /\ Begun(begun, "list", "move", a) /\ begun.to = b
  BY <1>0 DEF Claude!Calls, Begun
<1> DEFINE next == [begun EXCEPT !.ref = ref, !.choices = choices, !.replaceNewer = newer]
<1> HIDE DEF begun
<1>2. next \in Claude!Calls
  BY <1>1 DEF Claude!Calls
<1>3. Begun(next, "list", "move", a) /\ next.to = b
  BY <1>1, <1>2 DEF Claude!Calls, Begun
<1> QED
  BY <1>3 DEF begun, MoveBegun

LEMMA CallsKeep ==
  ASSUME ToolsInv, NEW p \in Claude!Places, NEW k \in Claude!Kinds \ {"move"}, Claude!Call(k, p)
  PROVE  ToolsInv'
<1>1. PICK ref \in One \cup {None} :
        tool' = [Claude!Idle EXCEPT !.step = IF k \in {"new", "switch"} THEN "act" ELSE "list",
                                    !.kind = k, !.at = p, !.ref = ref]
  BY DEF Claude!Call
<1>2. /\ tool' \in Claude!Calls /\ tool'.kind = k /\ tool'.at = p
      /\ tool'.step = IF k \in {"new", "switch"} THEN "act" ELSE "list"
  <2> DEFINE step == IF k \in {"new", "switch"} THEN "act" ELSE "list"
  <2>1. step \in {"list", "act"}
    OBVIOUS
  <2> HIDE DEF step
  <2>2. Begun([Claude!Idle EXCEPT !.step = step, !.kind = k, !.at = p, !.ref = ref], step, k, p)
    BY <2>1, IdleCall, CallTyped
  <2> QED
    BY <1>1, <2>2 DEF step, Begun
<1>3. used' \in 0..MaxTools
  BY DEF Claude!Call, ToolsInv, SeenOK
<1>4. AboutCall'
  BY <1>2 DEF Claude!Call, AboutCall, Given, AimsAt, Settles, Claude!KeysFindTheirWindow,
     Claude!MovesAsDecided
<1> QED
  BY <1>3, <1>4 DEF Claude!Call, ToolsInv, WorldOK, SeenOK

LEMMA CallMovesKeep ==
  ASSUME ToolsInv, NEW p \in Claude!Places, NEW q \in Claude!Places, Claude!CallMove(p, q)
  PROVE  ToolsInv'
<1>1. PICK ref \in One, newer \in BOOLEAN, choices \in [One -> Claude!Choices \cup {None}] :
        tool' = [Claude!Idle EXCEPT !.step = "list", !.kind = "move", !.at = p, !.to = q,
                            !.ref = ref, !.choices = choices, !.replaceNewer = newer]
  BY DEF Claude!CallMove
<1>2. /\ tool' \in Claude!Calls /\ tool'.step = "list" /\ tool'.kind = "move"
      /\ tool'.at = p /\ tool'.to = q
  <2>1. Claude!Idle \in Claude!Calls
    BY IdleCall
  <2>2. MoveBegun(tool', p, q)
    BY <1>1, <2>1, MoveTyped
  <2> QED
    BY <2>2 DEF MoveBegun, Begun
<1>3. used' \in 0..MaxTools
  BY DEF Claude!CallMove, ToolsInv, SeenOK
<1>4. AboutCall'
  BY <1>2 DEF AboutCall, Given, AimsAt, Settles, Claude!KeysFindTheirWindow,
     Claude!MovesAsDecided, Claude!Kinds, Claude!OnHosts, Claude!OnArchives
<1> QED
  BY <1>3, <1>4 DEF Claude!CallMove, ToolsInv, WorldOK, SeenOK

LEMMA GivingUpKeeps == ASSUME ToolsInv, Claude!GiveUp PROVE ToolsInv'
BY CallEnds DEF Claude!GiveUp, ToolsInv, WorldOK, SeenOK

(* Looking sessions up.                                                    *)
Looked(c, l, step, ids) ==
  /\ l \in Claude!Calls /\ l.step = step /\ l.kind = c.kind /\ l.at = c.at /\ l.to = c.to
  /\ l.ids = ids

LookedAt(c, l, step, ids, w) == Looked(c, l, step, ids) /\ l.window = w

LEMMA LookedUp ==
  ASSUME NEW c \in Claude!Calls, NEW step \in {"plan", "act"}, NEW ids \in SUBSET One,
         NEW w \in Claude!Numbers \cup {None}
  PROVE  LookedAt(c, [c EXCEPT !.step = step, !.ids = ids, !.window = w], step, ids, w)
BY DEF Claude!Calls, Looked, LookedAt

LEMMA ListedIds ==
  ASSUME NEW c \in Claude!Calls, NEW ids \in SUBSET One
  PROVE  Looked(c, [c EXCEPT !.step = "act", !.ids = ids], "act", ids)
BY DEF Claude!Calls, Looked

LEMMA FoundIn ==
  ASSUME NEW p, NEW ref, NEW listed \in SUBSET One
  PROVE  Claude!Found(p, ref, listed) \subseteq listed
BY DEF Claude!Found

LEMMA ListedHere ==
  ASSUME NEW p, NEW ref
  PROVE  Claude!Found(p, ref, Claude!Listed(p)) \subseteq One
BY FoundIn DEF Claude!Listed

(* A call has found its sessions; one that sends keys has found a window.  *)
LEMMA ListsKeep == ASSUME ToolsInv, Claude!List PROVE ToolsInv'
<1>1. CASE Claude!GiveUp
  BY <1>1, GivingUpKeeps
<1>2. CASE ~Claude!GiveUp
  <2> DEFINE found == Claude!Found(tool.at, tool.ref, Claude!Listed(tool.at))
             sends == tool.kind \in {"read", "send"}
             step  == IF tool.kind = "move" THEN "plan" ELSE "act"
             w     == IF sends
                        THEN CHOOSE w \in Claude!WindowsOf(tool.at, CHOOSE s \in found : TRUE) : TRUE
                        ELSE None
  <2>1. /\ tool.step = "list" /\ found # {} /\ \A s \in found : ~Claude!Refused(tool.at, s)
        /\ tool' = [tool EXCEPT !.step = step, !.ids = found, !.window = w]
        /\ UNCHANGED <<Claude!world, Claude!seen>>
    BY <1>2 DEF Claude!List
  <2>2. tool \in Claude!Calls /\ found \in SUBSET One /\ step \in {"plan", "act"}
    BY ListedHere DEF ToolsInv, AboutCall
  <2>3. sends => w \in Claude!Numbers /\ windows[w].at = tool.at /\ windows[w].session \in found
    <3> SUFFICES ASSUME sends PROVE w \in Claude!Numbers /\ windows[w].at = tool.at /\ windows[w].session \in found
      OBVIOUS
    <3> DEFINE s == CHOOSE s \in found : TRUE
    <3>1. s \in found
      BY <2>1
    <3>2. Claude!WindowsOf(tool.at, s) # {}
      BY <2>1, <3>1 DEF Claude!Refused
    <3>3. w \in Claude!WindowsOf(tool.at, s)
      BY <3>2
    <3> HIDE DEF s, w
    <3> QED
      BY <3>1, <3>3 DEF Claude!WindowsOf
  <2> HIDE DEF w, found, step
  <2>4. w \in Claude!Numbers \cup {None}
    BY <2>3 DEF w
  <2>5. Looked(tool, tool', step, found) /\ tool'.window = w
    <3>1. LookedAt(tool, tool', step, found, w)
      BY <2>1, <2>2, <2>4, LookedUp
    <3> QED
      BY <3>1 DEF LookedAt
  <2>6. Given'
    BY <2>1, <2>5 DEF Given, ToolsInv, AboutCall, Looked, step
  <2>7. AimsAt'
    BY <2>1, <2>3, <2>5 DEF AimsAt, Looked
  <2>8. Settles'
    BY <2>2, <2>5 DEF Settles, Looked, step
  <2>9. AboutCall'
    BY <2>2, <2>5, <2>6, <2>7, <2>8 DEF AboutCall, Looked, Claude!KeysFindTheirWindow,
       Claude!MovesAsDecided
  <2> QED
    BY <2>1, <2>9 DEF ToolsInv, WorldOK, SeenOK
<1> QED
  BY <1>1, <1>2

(* The other lists: the call goes on to act.                               *)
LEMMA ActsNext ==
  ASSUME ToolsInv, NEW ids \in SUBSET One, tool.step = "list", tool.kind \notin {"send", "move"},
         tool' = [tool EXCEPT !.step = "act", !.ids = ids],
         UNCHANGED <<Claude!world, Claude!seen>>
  PROVE  ToolsInv'
<1>1. Looked(tool, tool', "act", ids)
  BY ListedIds DEF ToolsInv, AboutCall
<1>2. AboutCall'
  BY <1>1 DEF Looked, ToolsInv, AboutCall, Given, AimsAt, Settles, Claude!KeysFindTheirWindow,
     Claude!MovesAsDecided
<1> QED
  BY <1>2 DEF ToolsInv, WorldOK, SeenOK

LEMMA OtherListsKeep ==
  ASSUME ToolsInv, Claude!ListOutdated \/ Claude!ListArchived
  PROVE  ToolsInv'
<1>1. CASE Claude!ListOutdated
  <2>1. {s \in Claude!Listed(tool.at) : sess[tool.at][s].runs /\ sess[tool.at][s].old} \subseteq One
    BY DEF Claude!Listed
  <2> QED
    BY <1>1, <2>1, ActsNext DEF Claude!ListOutdated
<1>2. CASE Claude!ListArchived
  <2>1. CASE Claude!GiveUp
    BY <2>1, GivingUpKeeps
  <2>2. CASE ~Claude!GiveUp
    <3> DEFINE found == Claude!Found(tool.at, tool.ref, archives[tool.at])
    <3>1. /\ tool.step = "list" /\ tool.kind \in Claude!OnArchives
          /\ tool' = [tool EXCEPT !.step = "act", !.ids = found]
          /\ UNCHANGED <<Claude!world, Claude!seen>>
      BY <1>2, <2>2 DEF Claude!ListArchived
    <3>2. found \subseteq One
      BY <3>1, FoundIn DEF ToolsInv, AboutCall, WorldOK, Given
    <3> HIDE DEF found
    <3> QED
      BY <3>1, <3>2, ActsNext DEF Claude!OnArchives
  <2> QED
    BY <2>1, <2>2
<1> QED
  BY <1>1, <1>2

(* The plan settles what the newer of two notes is.                        *)
LEMMA PlansKeep == ASSUME ToolsInv, Claude!Plan PROVE ToolsInv'
<1>1. CASE Claude!GiveUp
  BY <1>1, GivingUpKeeps
<1>2. CASE ~Claude!GiveUp
  <2> DEFINE decided == Claude!Decided(tool.choices)
  <2>1. /\ tool.step = "plan" /\ UNCHANGED <<Claude!world, Claude!seen>>
        /\ tool' = [tool EXCEPT !.step = "act", !.decided = decided, !.newer = notes, !.edited = {}]
    BY <1>2 DEF Claude!Plan
  <2>2. /\ tool \in Claude!Calls /\ notes \in [One -> Claude!Sides \cup {None}]
        /\ tool.choices \in [One -> Claude!Choices \cup {None}]
    BY DEF ToolsInv, AboutCall, WorldOK, Claude!Sides, Claude!Calls
  <2>3. decided \in [One -> Claude!Sides \cup {"merged", None}]
    BY <2>2 DEF Claude!Decided, Claude!NewerSide, Claude!Choices
  <2>4. \A n \in One : decided[n] = "source" =>
           \/ tool.choices[n] = "source"
           \/ tool.choices[n] = "newer" /\ notes[n] = "source"
    BY DEF Claude!Decided, Claude!NewerSide
  <2> HIDE DEF decided
  <2>5. tool' \in Claude!Calls
    BY <2>1, <2>2, <2>3 DEF Claude!Calls
  <2>6. /\ tool'.step = "act" /\ tool'.decided = decided /\ tool'.newer = notes
        /\ tool'.kind = tool.kind /\ tool'.at = tool.at /\ tool'.to = tool.to
        /\ tool'.choices = tool.choices /\ tool'.window = tool.window /\ tool'.moved = tool.moved
        /\ tool'.ids = tool.ids
    BY <2>1, <2>2 DEF Claude!Calls
  <2>7. Settles'
    BY <2>4, <2>6 DEF Settles, SettledAs
  <2>8. tool.kind = "move"
    BY <2>1 DEF ToolsInv, AboutCall, Given
  <2>9. AboutCall'
    BY <2>1, <2>5, <2>6, <2>7, <2>8 DEF ToolsInv, AboutCall, Given, AimsAt,
       Claude!KeysFindTheirWindow, Claude!MovesAsDecided
  <2> QED
    BY <2>1, <2>9 DEF ToolsInv, WorldOK, SeenOK
<1> QED
  BY <1>1, <1>2

(* A session of the call is done.                                          *)
LEMMA OneDone ==
  ASSUME ToolsInv, tool.step = "act", tool.kind \notin {"send", "move"}, NEW s, Claude!DidOne(s),
         UNCHANGED Claude!seen
  PROVE  AboutCall' /\ SeenOK'
<1>1. SeenOK'
  BY DEF ToolsInv, SeenOK
<1>2. CASE tool' = Claude!Idle
  BY <1>1, <1>2, CallEnds
<1>3. CASE tool' # Claude!Idle
  <2>1. tool' = [tool EXCEPT !.ids = tool.ids \ {s}] /\ tool \in Claude!Calls
    BY <1>3 DEF Claude!DidOne, ToolsInv, AboutCall
  <2>2. /\ tool' \in Claude!Calls /\ tool'.step = "act" /\ tool'.kind = tool.kind
        /\ tool'.at = tool.at /\ tool'.to = tool.to
    BY <2>1 DEF Claude!Calls
  <2>3. AboutCall'
    BY <2>2 DEF ToolsInv, AboutCall, Given, AimsAt, Settles, Claude!KeysFindTheirWindow,
       Claude!MovesAsDecided
  <2> QED
    BY <1>1, <2>3
<1> QED
  BY <1>2, <1>3

LEMMA Acts ==
  ASSUME ToolsInv, tool.step = "act"
  PROVE  /\ tool.at \in Claude!Places /\ tool.ids \in SUBSET One /\ tool.kind # None
         /\ tool.kind \in Claude!OnHosts => tool.at \in Pair
BY KindsAssumption DEF ToolsInv, AboutCall, Given, Claude!Calls

LEMMA WorldTyped ==
  ASSUME ToolsInv
  PROVE  /\ sess \in [Claude!Places -> [One -> Told]] /\ windows \in [Claude!Numbers -> Window]
         /\ nextWindow \in 0..MaxWindows /\ archives \in [Claude!Places -> SUBSET One]
BY DEF ToolsInv, WorldOK

LEMMA ResumesKeep == ASSUME ToolsInv, Claude!Resume PROVE ToolsInv'
<1>1. PICK s \in tool.ids : /\ Claude!DidOne(s)
        /\ IF sess[tool.at][s].runs THEN UNCHANGED <<sess, windows, nextWindow>>
           ELSE /\ sess' = Claude!InPlace(tool.at, s, TRUE, TRUE)
                /\ Claude!InNewWindow(windows, tool.at, s)
  BY DEF Claude!Resume
<1>2. tool.step = "act" /\ tool.kind = "resume"
  BY DEF Claude!Resume, Claude!Act
<1>3. tool.at \in Claude!Places /\ tool.at \in Pair /\ s \in One
  BY <1>2, Acts DEF Claude!OnHosts
<1>4. AboutCall' /\ SeenOK'
  BY <1>1, <1>2, OneDone DEF Claude!Resume
<1>5. /\ sess' \in [Claude!Places -> [One -> Told]]
      /\ windows' \in [Claude!Numbers -> Window] /\ nextWindow' \in 0..MaxWindows
  <2>1. CASE sess[tool.at][s].runs
    BY <1>1, <2>1, WorldTyped
  <2>2. CASE ~sess[tool.at][s].runs
    <3>1. /\ sess' = Claude!InPlace(tool.at, s, TRUE, TRUE)
          /\ Claude!InNewWindow(windows, tool.at, s)
      BY <1>1, <2>2
    <3>2. Claude!InPlace(tool.at, s, TRUE, TRUE) \in [Claude!Places -> [One -> Told]]
      BY <1>3, WorldTyped, InPlaceTyped
    <3> QED
      BY <1>3, <3>1, <3>2, WorldTyped, NewWindowTyped
  <2> QED
    BY <2>1, <2>2
<1> QED
  BY <1>4, <1>5 DEF Claude!Resume, ToolsInv, WorldOK

LEMMA RestartsKeep == ASSUME ToolsInv, Claude!Restart PROVE ToolsInv'
<1>1. PICK s \in tool.ids : /\ Claude!DidOne(s)
        /\ sess' = Claude!InPlace(tool.at, s, TRUE, TRUE)
        /\ Claude!InNewWindow(Claude!Shut(tool.at, s), tool.at, s)
  BY DEF Claude!Restart
<1>2. tool.step = "act" /\ tool.kind \in {"restart", "outdated"}
  BY DEF Claude!Restart, Claude!Act
<1>3. tool.at \in Claude!Places /\ tool.at \in Pair /\ s \in One
  BY <1>2, Acts DEF Claude!OnHosts
<1>4. AboutCall' /\ SeenOK'
  BY <1>1, <1>2, OneDone DEF Claude!Restart
<1>5. Claude!Shut(tool.at, s) \in [Claude!Numbers -> Window]
  BY WorldTyped, ShutTyped
<1>6. /\ sess' \in [Claude!Places -> [One -> Told]]
      /\ windows' \in [Claude!Numbers -> Window] /\ nextWindow' \in 0..MaxWindows
  BY <1>1, <1>3, <1>5, WorldTyped, InPlaceTyped, NewWindowTyped
<1> QED
  BY <1>4, <1>6 DEF Claude!Restart, ToolsInv, WorldOK

LEMMA StopsKeep == ASSUME ToolsInv, Claude!Stop PROVE ToolsInv'
<1>1. PICK s \in tool.ids : /\ Claude!DidOne(s)
        /\ sess' = Claude!InPlace(tool.at, s, sess[tool.at][s].here, FALSE)
        /\ windows' = Claude!Shut(tool.at, s)
  BY DEF Claude!Stop
<1>2. tool.step = "act" /\ tool.kind = "stop"
  BY DEF Claude!Stop, Claude!Act
<1>3. tool.at \in Claude!Places /\ s \in One /\ sess[tool.at][s].here \in BOOLEAN
  <2>1. tool.at \in Claude!Places /\ s \in One
    BY <1>2, Acts
  <2>2. sess[tool.at][s] \in Told
    BY <2>1, WorldTyped
  <2> QED
    BY <2>1, <2>2 DEF Told
<1>4. AboutCall' /\ SeenOK'
  BY <1>1, <1>2, OneDone DEF Claude!Stop
<1>5. sess' \in [Claude!Places -> [One -> Told]] /\ windows' \in [Claude!Numbers -> Window]
  BY <1>1, <1>3, WorldTyped, InPlaceTyped, ShutTyped
<1> QED
  BY <1>4, <1>5 DEF Claude!Stop, ToolsInv, WorldOK

(* One session's record is another.                                        *)
LEMMA SessTyped ==
  ASSUME NEW f \in [Claude!Places -> [One -> Told]], NEW p \in Claude!Places, NEW s \in One,
         NEW r \in Told
  PROVE  [f EXCEPT ![p][s] = r] \in [Claude!Places -> [One -> Told]]
OBVIOUS

LEMMA ToldTyped ==
  ASSUME NEW r \in Told, NEW here \in BOOLEAN, NEW runs \in BOOLEAN, NEW old \in BOOLEAN,
         NEW t \in One
  PROVE  /\ [r EXCEPT !.here = here, !.runs = runs, !.old = FALSE] \in Told
         /\ [r EXCEPT !.runs = runs, !.old = FALSE] \in Told
         /\ [r EXCEPT !.old = old] \in Told
         /\ [r EXCEPT !.title = t] \in Told
BY DEF Told

LEMMA RetitledTyped ==
  ASSUME ToolsInv, NEW p \in Claude!Places, NEW s \in One, NEW t \in One,
         sess' = [sess EXCEPT ![p][s].title = t]
  PROVE  sess' \in [Claude!Places -> [One -> Told]]
<1> DEFINE r == [sess[p][s] EXCEPT !.title = t]
<1>1. sess \in [Claude!Places -> [One -> Told]]
  BY WorldTyped
<1>2. sess[p][s] \in Told
  BY <1>1
<1>3. r \in Told
  BY <1>2 DEF Told
<1>4. sess' = [sess EXCEPT ![p][s] = r]
  OBVIOUS
<1> HIDE DEF r
<1> QED
  BY <1>1, <1>3, <1>4

LEMMA RenamesKeep == ASSUME ToolsInv, Claude!Rename PROVE ToolsInv'
<1>1. PICK s \in tool.ids, t \in One :
        sess' = [sess EXCEPT ![tool.at][s].title = t] /\ Claude!DidOne(s)
  BY DEF Claude!Rename
<1>2. tool.step = "act" /\ tool.kind = "rename"
  BY DEF Claude!Rename, Claude!Act
<1>3. tool.at \in Claude!Places /\ s \in One
  BY <1>2, Acts
<1>4. AboutCall' /\ SeenOK'
  BY <1>1, <1>2, OneDone DEF Claude!Rename
<1>5. sess' \in [Claude!Places -> [One -> Told]]
  BY <1>1, <1>3, RetitledTyped
<1> QED
  BY <1>4, <1>5 DEF Claude!Rename, ToolsInv, WorldOK

LEMMA NewKeeps == ASSUME ToolsInv, Claude!New PROVE ToolsInv'
<1>1. PICK s \in One, t \in One :
        /\ sess' = [sess EXCEPT ![tool.at][s] =
                      [here |-> TRUE, title |-> t, runs |-> TRUE, old |-> FALSE]]
        /\ Claude!InNewWindow(windows, tool.at, s)
  BY DEF Claude!New
<1>2. tool.step = "act" /\ tool.kind = "new"
  BY DEF Claude!New, Claude!Act
<1>3. tool.at \in Claude!Places /\ tool.at \in Pair
  BY <1>2, Acts DEF Claude!OnHosts
<1>4. AboutCall' /\ SeenOK'
  BY CallEnds DEF Claude!New, ToolsInv, SeenOK
<1>5. [here |-> TRUE, title |-> t, runs |-> TRUE, old |-> FALSE] \in Told
  BY DEF Told
<1>6. /\ sess' \in [Claude!Places -> [One -> Told]]
      /\ windows' \in [Claude!Numbers -> Window] /\ nextWindow' \in 0..MaxWindows
  BY <1>1, <1>3, <1>5, WorldTyped, SessTyped, NewWindowTyped
<1> QED
  BY <1>4, <1>6 DEF Claude!New, ToolsInv, WorldOK

LEMMA ReadsKeep == ASSUME ToolsInv, Claude!Read \/ Claude!Fail \/ Claude!AllRestarted PROVE ToolsInv'
BY GivingUpKeeps DEF Claude!Read, Claude!Fail, Claude!AllRestarted

LEMMA Ended ==
  ASSUME NEW c \in Claude!Calls
  PROVE  /\ [c EXCEPT !.step = "idle"] \in Claude!Calls /\ [c EXCEPT !.step = "idle"].step = "idle"
         /\ [c EXCEPT !.step = "idle"].kind = c.kind /\ [c EXCEPT !.step = "idle"].at = c.at
         /\ [c EXCEPT !.step = "idle"].moved = c.moved /\ [c EXCEPT !.step = "idle"].ids = c.ids
         /\ [c EXCEPT !.step = "idle"].choices = c.choices
         /\ [c EXCEPT !.step = "idle"].decided = c.decided
         /\ [c EXCEPT !.step = "idle"].newer = c.newer
BY DEF Claude!Calls

(* Keys go to the pane of a window the server opened for the account.      *)
LEMMA SendsKeep == ASSUME ToolsInv, Claude!Send PROVE ToolsInv'
<1>1. /\ tool.kind = "send" /\ tool.step = "act" /\ windows[tool.window].tag = tool.at
      /\ typed' = windows[tool.window] /\ tool' = [tool EXCEPT !.step = "idle"]
      /\ tool \in Claude!Calls
      /\ UNCHANGED <<Claude!world, replaced, used, changes>>
  BY DEF Claude!Send, Claude!Act, Claude!OurWindow, Claude!WindowKeys, ToolsInv, AboutCall
<1>2. /\ tool.window \in Claude!Numbers
      /\ ~tool.moved => typed'.at = tool.at /\ typed'.session \in tool.ids
  BY <1>1 DEF ToolsInv, AboutCall, AimsAt
<1>3. typed' \in Window
  BY <1>1, <1>2 DEF ToolsInv, WorldOK
<1>4. AboutCall'
  BY <1>1, <1>2, Ended DEF AboutCall, Given, AimsAt, Settles, Claude!KeysFindTheirWindow,
     Claude!MovesAsDecided
<1> QED
  BY <1>1, <1>3, <1>4 DEF ToolsInv, WorldOK, SeenOK

LEMMA ArchivesKeep ==
  ASSUME ToolsInv, Claude!ArchiveSession \/ Claude!Restore \/ Claude!DeleteArchive
  PROVE  ToolsInv'
<1>1. tool.step = "act" /\ tool.kind \in {"archive", "restore", "delete"}
  BY DEF Claude!ArchiveSession, Claude!Restore, Claude!DeleteArchive, Claude!Act
<1>2. PICK s \in tool.ids : /\ Claude!DidOne(s)
        /\ \/ sess' = sess
           \/ sess' = Claude!InPlace(tool.at, s, FALSE, FALSE)
           \/ sess' = Claude!InPlace(tool.at, s, TRUE, FALSE)
        /\ \/ archives' = [archives EXCEPT ![tool.at] = @ \cup {s}]
           \/ archives' = [archives EXCEPT ![tool.at] = @ \ {s}]
  BY DEF Claude!ArchiveSession, Claude!Restore, Claude!DeleteArchive
<1>3. tool.at \in Claude!Places /\ s \in One
  BY <1>1, Acts
<1>4. UNCHANGED <<windows, nextWindow, signedIn, notes, destNewer, Claude!seen>>
  BY DEF Claude!ArchiveSession, Claude!Restore, Claude!DeleteArchive
<1>5. AboutCall' /\ SeenOK'
  BY <1>1, <1>2, <1>4, OneDone
<1>6. sess' \in [Claude!Places -> [One -> Told]]
  <2>1. Claude!InPlace(tool.at, s, FALSE, FALSE) \in [Claude!Places -> [One -> Told]]
    BY <1>3, WorldTyped, InPlaceTyped
  <2>2. Claude!InPlace(tool.at, s, TRUE, FALSE) \in [Claude!Places -> [One -> Told]]
    BY <1>3, WorldTyped, InPlaceTyped
  <2> QED
    BY <1>2, <2>1, <2>2, WorldTyped
<1>7. archives' \in [Claude!Places -> SUBSET One]
  BY <1>2, <1>3, WorldTyped
<1> QED
  BY <1>4, <1>5, <1>6, <1>7 DEF ToolsInv, WorldOK

LEMMA AllStopped ==
  ASSUME ToolsInv, NEW t \in [One -> Told], NEW old \in [One -> BOOLEAN]
  PROVE  /\ [s \in One |-> [t[s] EXCEPT !.runs = FALSE, !.old = FALSE]] \in [One -> Told]
         /\ [s \in One |-> [t[s] EXCEPT !.old = old[s]]] \in [One -> Told]
<1>1. \A s \in One : /\ [t[s] EXCEPT !.runs = FALSE, !.old = FALSE] \in Told
                     /\ [t[s] EXCEPT !.old = old[s]] \in Told
  <2> TAKE s \in One
  <2>1. t[s] \in Told /\ old[s] \in BOOLEAN
    OBVIOUS
  <2> QED
    BY <2>1 DEF Told
<1> QED
  BY <1>1

LEMMA SwitchesKeep == ASSUME ToolsInv, Claude!SwitchAccount PROVE ToolsInv'
<1>1. /\ sess' = [sess EXCEPT ![tool.at] =
                   [s \in One |-> [@[s] EXCEPT !.runs = FALSE, !.old = FALSE]]]
      /\ windows' = [w \in Claude!Numbers |-> IF windows[w].at = tool.at THEN Claude!Closed ELSE windows[w]]
      /\ signedIn' = signedIn \ {tool.at} /\ tool' = Claude!Idle
      /\ UNCHANGED <<nextWindow, archives, notes, destNewer, Claude!seen>>
  BY DEF Claude!SwitchAccount
<1>2. tool.at \in Claude!Places
  BY Acts DEF Claude!SwitchAccount, Claude!Act
<1>3. sess' \in [Claude!Places -> [One -> Told]]
  <2> DEFINE t == sess[tool.at]
             stopped == [s \in One |-> [t[s] EXCEPT !.runs = FALSE, !.old = FALSE]]
  <2>1. t \in [One -> Told] /\ [s \in One |-> FALSE] \in [One -> BOOLEAN]
    BY <1>2, WorldTyped
  <2>2. stopped \in [One -> Told]
    BY <2>1, AllStopped
  <2>3. sess' = [sess EXCEPT ![tool.at] = stopped]
    BY <1>1
  <2> HIDE DEF stopped
  <2> QED
    BY <1>2, <2>2, <2>3, WorldTyped
<1>4. windows' \in [Claude!Numbers -> Window]
  BY <1>1, WorldTyped DEF Claude!Closed, Window
<1>5. AboutCall'
  BY <1>1, CallEnds
<1> QED
  BY <1>1, <1>3, <1>4, <1>5 DEF ToolsInv, WorldOK, SeenOK

LEMMA FinishesKeep == ASSUME ToolsInv, Claude!FinishSignIn PROVE ToolsInv'
BY DEF Claude!FinishSignIn, ToolsInv, WorldOK, SeenOK, AboutCall, Given, AimsAt, Settles, SettledAs,
   Claude!KeysFindTheirWindow, Claude!MovesAsDecided

(* A move overwrites the notes that were decided for the source.           *)
LEMMA MovesKeep == ASSUME ToolsInv, Claude!Move PROVE ToolsInv'
<1>1. /\ tool.step = "act" /\ tool.kind = "move" /\ tool \in Claude!Calls
      /\ tool' = [tool EXCEPT !.step = "idle"]
      /\ replaced' = {n \in Claude!Conflicts : tool.decided[n] = "source"}
      /\ notes' = [n \in One |-> IF n \in replaced' THEN None ELSE notes[n]]
      /\ UNCHANGED <<signedIn, destNewer, typed, used, changes>>
  BY DEF Claude!Move, ToolsInv, AboutCall
<1>2. replaced' \subseteq One /\ notes' \in [One -> {"source", "destination", None}]
  BY <1>1 DEF Claude!Conflicts, ToolsInv, WorldOK
<1>3. \A n \in replaced' : SettledAs(n)
  BY <1>1, <1>2 DEF ToolsInv, AboutCall, Settles
<1>4. AboutCall'
  BY <1>1, <1>3, Ended DEF AboutCall, Given, AimsAt, Settles, SettledAs,
     Claude!KeysFindTheirWindow, Claude!MovesAsDecided
<1>5. tool.at \in Claude!Places /\ tool.to \in Claude!Places
  BY <1>1 DEF ToolsInv, AboutCall, Given
<1>6. PICK s \in tool.ids, kept \in BOOLEAN, archived \in BOOLEAN, resume \in BOOLEAN :
        LET gone == [sess EXCEPT ![tool.at][s] = [@ EXCEPT !.here = kept, !.runs = FALSE,
                                                           !.old = FALSE]]
            comes == resume /\ tool.to \in Pair
        IN  /\ sess[tool.at][s].here
            /\ ~sess[tool.to][s].runs
            /\ sess' = [gone EXCEPT ![tool.to][s] =
                          [sess[tool.at][s] EXCEPT !.runs = comes, !.old = FALSE]]
            /\ archives' = IF archived /\ ~kept
                             THEN [archives EXCEPT ![tool.at] = @ \cup {s}] ELSE archives
            /\ IF comes THEN Claude!InNewWindow(Claude!Shut(tool.at, s), tool.to, s)
                        ELSE windows' = Claude!Shut(tool.at, s) /\ UNCHANGED nextWindow
  BY DEF Claude!Move
<1> DEFINE comes == resume /\ tool.to \in Pair
<1>7. s \in One
  BY <1>1, Acts
<1>8. sess' \in [Claude!Places -> [One -> Told]]
  <2> DEFINE r1 == [sess[tool.at][s] EXCEPT !.here = kept, !.runs = FALSE, !.old = FALSE]
             r2 == [sess[tool.at][s] EXCEPT !.runs = comes, !.old = FALSE]
             gone == [sess EXCEPT ![tool.at][s] = r1]
  <2>1. sess[tool.at][s] \in Told
    BY <1>5, <1>7, WorldTyped
  <2>2. r1 \in Told /\ r2 \in Told
    BY <2>1 DEF Told
  <2>3. sess' = [gone EXCEPT ![tool.to][s] = r2]
    BY <1>6
  <2> HIDE DEF r1, r2
  <2>4. gone \in [Claude!Places -> [One -> Told]]
    BY <1>5, <1>7, <2>2, WorldTyped, SessTyped
  <2> HIDE DEF gone
  <2> QED
    BY <1>5, <1>7, <2>2, <2>3, <2>4, SessTyped
<1>9. windows' \in [Claude!Numbers -> Window] /\ nextWindow' \in 0..MaxWindows
  <2>1. Claude!Shut(tool.at, s) \in [Claude!Numbers -> Window]
    BY WorldTyped, ShutTyped
  <2>2. CASE comes
    BY <1>6, <1>7, <2>1, <2>2, WorldTyped, NewWindowTyped
  <2>3. CASE ~comes
    BY <1>6, <2>1, <2>3, WorldTyped
  <2> QED
    BY <2>2, <2>3
<1>10. archives' \in [Claude!Places -> SUBSET One]
  BY <1>5, <1>6, <1>7, WorldTyped
<1> QED
  BY <1>1, <1>2, <1>4, <1>8, <1>9, <1>10 DEF ToolsInv, WorldOK, SeenOK

(* Something happens while a call is under way.                            *)
LEMMA ChangesKeep ==
  ASSUME ToolsInv, NEW m \in BOOLEAN, NEW n \in SUBSET One, Claude!Change(m, n),
         m \/ UNCHANGED windows
  PROVE  AboutCall' /\ SeenOK' /\ UNCHANGED <<archives, signedIn, destNewer>>
<1>1. /\ tool \in Claude!Calls /\ tool.step # "idle"
      /\ tool' = [tool EXCEPT !.moved = @ \/ m, !.edited = @ \cup n]
      /\ UNCHANGED <<archives, signedIn, destNewer, typed, replaced, used>>
  BY DEF Claude!Change, ToolsInv, AboutCall
<1>2. changes' \in 0..MaxMeanwhile
  BY DEF Claude!Change, ToolsInv, SeenOK
<1>3. tool' \in Claude!Calls
  <2> DEFINE a == tool.moved \/ m
             b == tool.edited \cup n
  <2>1. a \in BOOLEAN /\ b \in SUBSET One
    BY <1>1 DEF Claude!Calls
  <2>2. tool' = [tool EXCEPT !.moved = a, !.edited = b]
    BY <1>1
  <2> HIDE DEF a, b
  <2> QED
    BY <1>1, <2>1, <2>2 DEF Claude!Calls
<1>4. /\ tool'.step = tool.step /\ tool'.kind = tool.kind /\ tool'.at = tool.at
      /\ tool'.to = tool.to /\ tool'.ids = tool.ids /\ tool'.window = tool.window
      /\ tool'.choices = tool.choices /\ tool'.decided = tool.decided
      /\ tool'.newer = tool.newer /\ tool'.moved = (tool.moved \/ m)
  BY <1>1 DEF Claude!Calls
<1>5. AboutCall'
  BY <1>1, <1>3, <1>4 DEF ToolsInv, AboutCall, Given, AimsAt, Settles, SettledAs,
     Claude!KeysFindTheirWindow, Claude!MovesAsDecided
<1> QED
  BY <1>1, <1>2, <1>5 DEF ToolsInv, SeenOK

LEMMA RenamedKeep ==
  ASSUME ToolsInv, NEW p \in Claude!Places, NEW s \in One, Claude!Renamed(p, s)
  PROVE  ToolsInv'
<1>1. AboutCall' /\ SeenOK' /\ UNCHANGED <<archives, signedIn, destNewer>>
  BY ChangesKeep DEF Claude!Renamed
<1>2. sess' \in [Claude!Places -> [One -> Told]]
  BY RetitledTyped DEF Claude!Renamed
<1> QED
  BY <1>1, <1>2 DEF Claude!Renamed, ToolsInv, WorldOK

LEMMA EndedKeep ==
  ASSUME ToolsInv, NEW p \in Claude!Places, NEW s \in One, Claude!Ended(p, s)
  PROVE  ToolsInv'
<1>1. AboutCall' /\ SeenOK' /\ UNCHANGED <<archives, signedIn, destNewer>>
  BY ChangesKeep DEF Claude!Ended
<1>2. /\ sess' = Claude!InPlace(p, s, TRUE, FALSE) /\ windows' = Claude!Shut(p, s)
      /\ UNCHANGED <<nextWindow, notes>>
  BY DEF Claude!Ended
<1>3. Claude!InPlace(p, s, TRUE, FALSE) \in [Claude!Places -> [One -> Told]]
  BY WorldTyped, InPlaceTyped
<1>4. Claude!Shut(p, s) \in [Claude!Numbers -> Window]
  BY WorldTyped, ShutTyped
<1> QED
  BY <1>1, <1>2, <1>3, <1>4 DEF ToolsInv, WorldOK

LEMMA ResumedKeep ==
  ASSUME ToolsInv, NEW p \in Claude!Places, NEW s \in One, Claude!Resumed(p, s)
  PROVE  ToolsInv'
<1>1. AboutCall' /\ SeenOK' /\ UNCHANGED <<archives, signedIn, destNewer>>
  BY ChangesKeep DEF Claude!Resumed
<1>2. /\ sess' = Claude!InPlace(p, s, TRUE, TRUE) /\ Claude!InNewWindow(windows, p, s)
      /\ p \in Pair /\ UNCHANGED notes
  BY DEF Claude!Resumed
<1>3. Claude!InPlace(p, s, TRUE, TRUE) \in [Claude!Places -> [One -> Told]]
  BY WorldTyped, InPlaceTyped
<1>4. windows' \in [Claude!Numbers -> Window] /\ nextWindow' \in 0..MaxWindows
  BY <1>2, WorldTyped, NewWindowTyped
<1> QED
  BY <1>1, <1>2, <1>3, <1>4 DEF ToolsInv, WorldOK

LEMMA UserWindowKeeps == ASSUME ToolsInv, Claude!UserWindow PROVE ToolsInv'
<1>1. AboutCall' /\ SeenOK' /\ UNCHANGED <<archives, signedIn, destNewer>>
  BY ChangesKeep DEF Claude!UserWindow
<1>2. [Claude!Closed EXCEPT !.tag = "user"] \in Window
  BY DEF Claude!Closed, Window
<1>3. windows' \in [Claude!Numbers -> Window]
  BY <1>2, WorldTyped DEF Claude!UserWindow
<1>4. nextWindow' \in 0..MaxWindows
  BY WorldTyped DEF Claude!UserWindow
<1> QED
  BY <1>1, <1>3, <1>4 DEF Claude!UserWindow, ToolsInv, WorldOK

LEMMA TmuxEndsKeeps == ASSUME ToolsInv, Claude!TmuxEnds PROVE ToolsInv'
<1>1. AboutCall' /\ SeenOK' /\ UNCHANGED <<archives, signedIn, destNewer>>
  BY ChangesKeep DEF Claude!TmuxEnds
<1>2. nextWindow' = 0 /\ windows' = [w \in Claude!Numbers |-> Claude!Closed] /\ UNCHANGED notes
  BY DEF Claude!TmuxEnds
<1>3. windows' \in [Claude!Numbers -> Window]
  <2>1. Claude!Closed \in Window
    BY DEF Claude!Closed, Window
  <2> QED
    BY <1>2, <2>1
<1>4. sess' \in [Claude!Places -> [One -> Told]]
  <2>1. \A p \in Claude!Places, s \in One :
           [sess[p][s] EXCEPT !.runs = FALSE, !.old = FALSE] \in Told /\ sess[p][s] \in Told
    <3> TAKE p \in Claude!Places, s \in One
    <3>1. sess[p][s] \in Told
      BY WorldTyped
    <3> QED
      BY <3>1 DEF Told
  <2> QED
    BY <2>1 DEF Claude!TmuxEnds
<1> QED
  BY <1>1, <1>2, <1>3, <1>4 DEF ToolsInv, WorldOK

LEMMA UpdatedKeeps == ASSUME ToolsInv, Claude!Updated PROVE ToolsInv'
<1>1. AboutCall' /\ SeenOK' /\ UNCHANGED <<archives, signedIn, destNewer>>
  BY ChangesKeep DEF Claude!Updated
<1>2. sess' \in [Claude!Places -> [One -> Told]]
  <2>1. \A p \in Claude!Places, s \in One : [sess[p][s] EXCEPT !.old = sess[p][s].runs] \in Told
    <3> TAKE p \in Claude!Places, s \in One
    <3>1. sess[p][s] \in Told
      BY WorldTyped
    <3> QED
      BY <3>1 DEF Told
  <2> QED
    BY <2>1 DEF Claude!Updated
<1> QED
  BY <1>1, <1>2 DEF Claude!Updated, ToolsInv, WorldOK

LEMMA EditedKeep == ASSUME ToolsInv, NEW n \in One, Claude!Edited(n) PROVE ToolsInv'
<1>1. AboutCall' /\ SeenOK' /\ UNCHANGED <<archives, signedIn, destNewer>>
  BY ChangesKeep DEF Claude!Edited
<1>2. notes' \in [One -> {"source", "destination", None}]
  BY DEF Claude!Edited, Claude!Sides, ToolsInv, WorldOK
<1> QED
  BY <1>1, <1>2 DEF Claude!Edited, ToolsInv, WorldOK

LEMMA GoesOnKeeps == ASSUME ToolsInv, Claude!GoesOn PROVE ToolsInv'
<1>1. changes' \in 0..MaxMeanwhile
  BY DEF Claude!GoesOn, ToolsInv, SeenOK
<1> QED
  BY <1>1 DEF Claude!GoesOn, ToolsInv, WorldOK, SeenOK, AboutCall, Given, AimsAt, Settles, SettledAs,
     Claude!KeysFindTheirWindow, Claude!MovesAsDecided

LEMMA EveryTool == ASSUME ToolsInv, Claude!Next PROVE ToolsInv'
<1>1. CASE Claude!Tool
  BY <1>1, CallsKeep, CallMovesKeep, ListsKeep, OtherListsKeep, PlansKeep, MovesKeep, ReadsKeep,
     ResumesKeep, RestartsKeep, StopsKeep, RenamesKeep, NewKeeps, SendsKeep, ArchivesKeep,
     SwitchesKeep, FinishesKeep DEF Claude!Tool
<1>2. CASE Claude!Meanwhile
  BY <1>2, RenamedKeep, EndedKeep, ResumedKeep, EditedKeep, UserWindowKeeps, TmuxEndsKeeps,
     UpdatedKeeps, GoesOnKeeps DEF Claude!Meanwhile
<1> QED
  BY <1>1, <1>2 DEF Claude!Next

LEMMA ToolsStay == ASSUME ToolsInv, UNCHANGED toolVars PROVE ToolsInv'
BY DEF toolVars, ToolsInv, WorldOK, SeenOK, AboutCall, Given, AimsAt, Settles, SettledAs,
   Claude!KeysFindTheirWindow, Claude!MovesAsDecided

LEMMA ToolsAlways == AppSpec => [](AtTools => ToolsInv)
<1>1. AppInit => (AtTools => ToolsInv)
  BY ToolsStart DEF AppInit, AtUsage, AtTools, AtLinks, AtFiles, Carries, Merges
<1>2. (AtTools => ToolsInv) /\ [AppNext]_allVars => (AtTools => ToolsInv)'
  <2> SUFFICES ASSUME AtTools => ToolsInv, [AppNext]_allVars, AtTools' PROVE ToolsInv'
    OBVIOUS
  <2>1. ToolsInv
    BY DEF AppNext, allVars, AtTools
  <2> QED
    BY <2>1, ToolsStay, EveryTool
       DEF AppNext, allVars, AtUsage, AtTools, AtLinks, AtFiles, Carries, Merges
<1> QED
  BY <1>1, <1>2, PTL DEF AppSpec

(* Whatever happens between a list and the request, keys that Claude sends *)
(* through a tool reach only a window of the account it names, and of the  *)
(* session it names when no window changed; and a move writes over a note  *)
(* at its destination only as the call's choices say.                      *)
THEOREM AlwaysDoneAsTold == AppSpec => []DoneAsTold
<1>1. (AtTools => ToolsInv) => DoneAsTold
  BY DEF ToolsInv, AboutCall, DoneAsTold
<1> QED
  BY <1>1, ToolsAlways, PTL
------------------------------------------------------------------------------
(***************************************************************************)
(* Usage.  The calls ask once, refresh one at a time and give up no token  *)
(* without a reason, for any number of calls and tokens.                   *)
(***************************************************************************)

USE DEF Token, NoToken

(* What is true of the tokens whatever a call does. *)
LEMMA StoreTyped ==
  ASSUME TypeOK, Store
  PROVE  /\ newest' \in Token /\ stored' \in Token
         /\ accepted' \in SUBSET Token /\ overtaking' \in SUBSET Token
         /\ overtaking \subseteq overtaking'
         /\ \A c \in Caller : pc[c] \in {"slot", "fetch", "refused"} => stored' \in overtaking'
<1> USE DEF TypeOK, Store
<1>1. newest + 1 \in Token
  BY BoundsAssumption
<1>2. overtaking' \in {overtaking, overtaking \cup {newest + 1}}
  OBVIOUS
<1>3. ASSUME NEW c \in Caller, pc[c] \in {"slot", "fetch", "refused"}
      PROVE  stored' \in overtaking'
  <2>1. overtaking' = overtaking \cup {newest + 1} /\ stored' = newest + 1
    BY <1>3
  <2> QED
    BY <2>1
<1>4. newest' \in Token /\ stored' \in Token
  BY <1>1
<1>5. accepted' \in SUBSET Token /\ overtaking' \in SUBSET Token /\ overtaking \subseteq overtaking'
  BY <1>1, <1>2
<1> QED
  BY <1>3, <1>4, <1>5

LEMMA TypeInit == Init => TypeOK
<1> SUFFICES ASSUME Init PROVE TypeOK
  OBVIOUS
<1>1. 1 \in Token /\ 0 \in 0 .. MaxCalls
  BY BoundsAssumption
<1>2. recent \in BOOLEAN /\ renewable \in BOOLEAN /\ again \in [Caller -> BOOLEAN]
  BY DEF Init
<1>3. /\ pc \in [Caller -> {"idle", "read", "slot", "fetch", "refused", "refresh", "claude", "look"}]
      /\ using \in [Caller -> Token \cup {NoToken}]
      /\ before \in [Caller -> Token \cup {NoToken}]
      /\ slot \in [Token -> Caller \cup {NoCaller}]
      /\ cache \in [Token -> {"nothing", "usage", "limited"}]
      /\ lock \in Caller \cup {NoCaller}
  BY DEF Init
<1>4. /\ newest \in Token /\ stored \in Token /\ calls \in 0 .. MaxCalls /\ spawns \in Nat
      /\ dead \in SUBSET Token /\ accepted \in SUBSET Token
      /\ refused \in SUBSET Token /\ overtaking \in SUBSET Token
  BY <1>1 DEF Init
<1> QED
  BY <1>2, <1>3, <1>4 DEF TypeOK

(* The variables a call's step may change keep their types. *)
LEMMA TypeStep ==
  ASSUME TypeOK, TokensFollowed, NEW c \in Caller, Step(c)
  PROVE  TypeOK'
<1> USE DEF TypeOK, Goto, callVars, appVars, claudeVars, historyVars
<1>1. CASE ReadToken(c)
  <2>1. PICK t \in Read : using' = [using EXCEPT ![c] = t]
    BY <1>1 DEF ReadToken
  <2>2. using' \in [Caller -> Token \cup {NoToken}]
    BY <2>1 DEF Read
  <2>3. pc' \in {[pc EXCEPT ![c] = "idle"], [pc EXCEPT ![c] = "slot"]}
    BY <1>1 DEF ReadToken
  <2> QED
    BY <1>1, <2>2, <2>3 DEF ReadToken
<1>2. CASE TakeSlot(c)
  BY <1>2 DEF TakeSlot
<1>3. CASE Fetch(c)
  <2>1. using[c] \in Token
    BY <1>3 DEF Fetch, TokensFollowed
  <2>2. CASE Fetched(c)
    BY <1>3, <2>1, <2>2 DEF Fetch, Fetched
  <2>3. CASE TurnedDown(c)
    BY <1>3, <2>1, <2>3 DEF Fetch, TurnedDown
  <2> QED
    BY <1>3, <2>2, <2>3 DEF Fetch
<1>4. CASE ReadBefore(c)
  BY <1>4 DEF ReadBefore, Read
<1>5. CASE TakeRefresh(c)
  <2>1. CASE recent
    BY <1>5, <2>1 DEF TakeRefresh
  <2>2. CASE ~recent
    BY <1>5, <2>2 DEF TakeRefresh
  <2> QED
    BY <2>1, <2>2
<1>6. CASE RunClaude(c)
  <2>1. CASE Store
    BY <1>6, <2>1, StoreTyped DEF RunClaude
  <2>2. CASE UNCHANGED <<stored, newest, accepted, overtaking>>
    BY <1>6, <2>2 DEF RunClaude
  <2> QED
    BY <1>6, <2>1, <2>2 DEF RunClaude
<1>7. CASE Look(c)
  BY ZenonT(60), <1>7 DEF Look, Read
<1> QED
  BY <1>1, <1>2, <1>3, <1>4, <1>5, <1>6, <1>7 DEF Step

(* What happens beside the calls. *)
Beside ==
  \/ \E t \in Token : CacheExpires(t) \/ TokenExpires(t)
  \/ BackoffEnds \/ RenewalDies \/ SignIn \/ RenewElsewhere

LEMMA TypeBeside ==
  ASSUME TypeOK, Beside
  PROVE  TypeOK'
<1> USE DEF TypeOK, callVars, appVars, claudeVars, historyVars
<1>1. CASE SignIn \/ RenewElsewhere
  BY <1>1, StoreTyped DEF SignIn, RenewElsewhere
<1>2. CASE \E t \in Token : CacheExpires(t) \/ TokenExpires(t)
  BY <1>2 DEF CacheExpires, TokenExpires
<1>3. CASE BackoffEnds
  BY <1>3 DEF BackoffEnds
<1>4. CASE RenewalDies
  BY <1>4 DEF RenewalDies
<1> QED
  BY <1>1, <1>2, <1>3, <1>4 DEF Beside

LEMMA TypeCall ==
  ASSUME TypeOK, NEW c \in Caller, Call(c)
  PROVE  TypeOK'
BY BoundsAssumption DEF TypeOK, Call, Goto, appVars, claudeVars, historyVars
------------------------------------------------------------------------------
(* The locks *)

LEMMA AskerStep ==
  ASSUME UsageInv, NEW c \in Caller, Step(c)
  PROVE  AskerHolds'
<1> SUFFICES ASSUME NEW d \in Caller, pc'[d] = "fetch"
             PROVE  slot'[using'[d]] = d /\ cache'[using'[d]] = "nothing"
  BY DEF AskerHolds
<1> USE DEF UsageInv, TypeOK, Goto, callVars, appVars, claudeVars, historyVars
<1>1. CASE ReadToken(c)
  BY <1>1 DEF ReadToken, Read, AskerHolds
<1>2. CASE TakeSlot(c)
  <2>1. using[c] \in Token /\ (pc[d] = "fetch" => using[d] \in Token)
    BY <1>2 DEF TakeSlot, TokensFollowed
  <2>2. CASE d = c
    BY <1>2, <2>1, <2>2 DEF TakeSlot
  <2>3. CASE d # c
    BY ZenonT(60), <1>2, <2>1, <2>3, CallerAssumption DEF TakeSlot, AskerHolds
  <2> QED
    BY <2>2, <2>3
<1>3. CASE Fetch(c)
  <2>1. d # c /\ pc[d] = "fetch" /\ using' = using
    <3>1. CASE Fetched(c)
      BY <1>3, <3>1 DEF Fetch, Fetched
    <3>2. CASE TurnedDown(c)
      BY <1>3, <3>2 DEF Fetch, TurnedDown
    <3> QED
      BY <1>3, <3>1, <3>2 DEF Fetch
  <2>2. using[c] \in Token /\ using[d] \in Token /\ using[c] # using[d]
    BY <1>3, <2>1 DEF Fetch, TokensFollowed, AskerHolds
  <2>3. cache'[using[d]] = cache[using[d]]
    BY <1>3, <2>2 DEF Fetch, Fetched, TurnedDown
  <2> QED
    BY <1>3, <2>1, <2>2, <2>3 DEF Fetch, AskerHolds
<1>4. CASE ReadBefore(c)
  BY <1>4 DEF ReadBefore, AskerHolds
<1>5. CASE TakeRefresh(c)
  BY <1>5 DEF TakeRefresh, AskerHolds
<1>6. CASE RunClaude(c)
  BY <1>6 DEF RunClaude, AskerHolds
<1>7. CASE Look(c)
  BY <1>7 DEF Look, Read, AskerHolds
<1> QED
  BY <1>1, <1>2, <1>3, <1>4, <1>5, <1>6, <1>7 DEF Step

LEMMA RefresherStep ==
  ASSUME UsageInv, NEW c \in Caller, Step(c)
  PROVE  RefresherHolds'
<1> USE DEF UsageInv, TypeOK, RefresherHolds, Goto, callVars, appVars, claudeVars, historyVars
<1>1. CASE ReadToken(c)
  BY <1>1 DEF ReadToken, Read
<1>2. CASE TakeSlot(c)
  BY <1>2 DEF TakeSlot
<1>3. CASE Fetch(c)
  <2>1. CASE Fetched(c)
    BY <1>3, <2>1 DEF Fetch, Fetched
  <2>2. CASE TurnedDown(c)
    BY <1>3, <2>2 DEF Fetch, TurnedDown
  <2> QED
    BY <1>3, <2>1, <2>2 DEF Fetch
<1>4. CASE ReadBefore(c)
  BY <1>4 DEF ReadBefore
<1>5. CASE TakeRefresh(c)
  BY <1>5, CallerAssumption DEF TakeRefresh
<1>6. CASE RunClaude(c)
  BY <1>6 DEF RunClaude
<1>7. CASE Look(c)
  BY <1>7 DEF Look, Read
<1> QED
  BY <1>1, <1>2, <1>3, <1>4, <1>5, <1>6, <1>7 DEF Step
------------------------------------------------------------------------------
(* The tokens *)

LEMMA TokensStep ==
  ASSUME UsageInv, NEW c \in Caller, Step(c)
  PROVE  TokensFollowed' /\ DeadForAReason'
<1> USE DEF UsageInv, TypeOK, TokensFollowed, DeadForAReason, Goto, callVars, appVars, claudeVars,
           historyVars
<1>1. CASE ReadToken(c)
  BY <1>1 DEF ReadToken, Read
<1>2. CASE TakeSlot(c)
  BY <1>2 DEF TakeSlot
<1>3. CASE Fetch(c)
  <2>1. CASE Fetched(c)
    BY <1>3, <2>1 DEF Fetch, Fetched
  <2>2. CASE TurnedDown(c)
    BY <1>3, <2>2 DEF Fetch, TurnedDown
  <2> QED
    BY <1>3, <2>1, <2>2 DEF Fetch
<1>4. CASE ReadBefore(c)
  BY <1>4 DEF ReadBefore, Read
<1>5. CASE TakeRefresh(c)
  BY <1>5 DEF TakeRefresh
<1>6. CASE RunClaude(c)
  <2>1. CASE Store
    BY <1>6, <2>1, StoreTyped DEF RunClaude
  <2>2. CASE UNCHANGED <<stored, newest, accepted, overtaking>>
    BY <1>6, <2>2 DEF RunClaude
  <2> QED
    BY <1>6, <2>1, <2>2 DEF RunClaude
<1>7. CASE Look(c)
  <2>1. PICK t \in Read :
          IF t = before[c]
          THEN dead' = dead \cup ({t} \ {NoToken}) /\ Goto(c, "idle") /\ UNCHANGED again
          ELSE again' = [again EXCEPT ![c] = TRUE] /\ Goto(c, "read") /\ UNCHANGED dead
    BY <1>7 DEF Look
  <2>2. UNCHANGED <<using, before, stored, refused, overtaking>> /\ pc[c] = "look"
    BY <1>7 DEF Look
  <2>3. before[c] \in {NoToken} \cup refused \cup overtaking
    BY <2>2
  <2>4. \A d \in Caller : pc'[d] \in {"slot", "fetch", "refused", "refresh", "claude", "look"}
          => pc'[d] = pc[d]
    <3>1. \/ pc' = [pc EXCEPT ![c] = "idle"]
          \/ pc' = [pc EXCEPT ![c] = "read"]
      BY <2>1 DEF Goto
    <3> QED
      BY <3>1
  <2>5. DeadForAReason'
    <3>1. dead' = dead \/ dead' = dead \cup ({before[c]} \ {NoToken})
      BY <2>1
    <3> QED
      BY <2>2, <2>3, <3>1
  <2> QED
    BY <2>2, <2>4, <2>5
<1> QED
  BY <1>1, <1>2, <1>3, <1>4, <1>5, <1>6, <1>7 DEF Step

LEMMA InvBeside ==
  ASSUME UsageInv, Beside
  PROVE  UsageInv'
<1> USE DEF UsageInv, TypeOK, AskerHolds, RefresherHolds, TokensFollowed, DeadForAReason,
           callVars, appVars, claudeVars, historyVars
<1>1. TypeOK'
  BY TypeBeside
<1>2. AskerHolds'
  <2>1. ASSUME NEW t \in Token, CacheExpires(t) PROVE AskerHolds'
    BY <2>1 DEF CacheExpires
  <2>2. CASE UNCHANGED <<pc, using, slot, cache>>
    BY <2>2
  <2> QED
    BY <2>1, <2>2 DEF Beside, TokenExpires, BackoffEnds, RenewalDies, SignIn, RenewElsewhere
<1>3. RefresherHolds'
  <2>1. CASE BackoffEnds
    BY <2>1 DEF BackoffEnds
  <2>2. CASE UNCHANGED <<pc, lock, spawns, recent>>
    BY <2>2
  <2> QED
    BY <2>1, <2>2 DEF Beside, CacheExpires, TokenExpires, RenewalDies, SignIn, RenewElsewhere
<1>4. TokensFollowed' /\ DeadForAReason'
  <2>1. CASE SignIn
    BY <2>1, StoreTyped DEF SignIn
  <2>2. CASE RenewElsewhere
    BY <2>2, StoreTyped DEF RenewElsewhere
  <2>3. CASE \E t \in Token : CacheExpires(t) \/ TokenExpires(t)
    BY ZenonT(60), <2>3 DEF CacheExpires, TokenExpires
  <2>4. CASE BackoffEnds
    BY <2>4 DEF BackoffEnds
  <2>5. CASE RenewalDies
    BY <2>5 DEF RenewalDies
  <2> QED
    BY <2>1, <2>2, <2>3, <2>4, <2>5 DEF Beside
<1> QED
  BY <1>1, <1>2, <1>3, <1>4

LEMMA InvCall ==
  ASSUME UsageInv, NEW c \in Caller, Call(c)
  PROVE  UsageInv'
<1>1. TypeOK'
  BY TypeCall DEF UsageInv
<1> QED
  BY <1>1 DEF UsageInv, TypeOK, AskerHolds, RefresherHolds, TokensFollowed, DeadForAReason, Call,
              Goto, appVars, claudeVars, historyVars

LEMMA InvInit == Init => UsageInv
BY TypeInit DEF Init, UsageInv, AskerHolds, RefresherHolds, TokensFollowed, DeadForAReason

LEMMA InvNext == UsageInv /\ [Next]_vars => UsageInv'
<1> SUFFICES ASSUME UsageInv, [Next]_vars PROVE UsageInv'
  OBVIOUS
<1>1. ASSUME NEW c \in Caller, Step(c) PROVE UsageInv'
  BY <1>1, TypeStep, AskerStep, RefresherStep, TokensStep DEF UsageInv
<1>2. ASSUME NEW c \in Caller, Call(c) PROVE UsageInv'
  BY <1>2, InvCall
<1>3. CASE Beside
  BY <1>3, InvBeside
<1>4. CASE UNCHANGED vars
  BY <1>4 DEF UsageInv, TypeOK, AskerHolds, RefresherHolds, TokensFollowed, DeadForAReason,
              vars, callVars, appVars, claudeVars, historyVars
<1> QED
  BY <1>1, <1>2, <1>3, <1>4 DEF Next, Beside
------------------------------------------------------------------------------
(* Every reachable state of the usage calls satisfies the invariant that   *)
(* the three properties below rest on, by themselves and beside the app's  *)
(* other parts: locks are held where they must be, and each call's tokens  *)
(* are accounted for (quota.rs, refresh.rs).                               *)
THEOREM UsageInvAlways == Spec \/ AppSpec => []UsageInv
<1>1. Init => UsageInv
  BY InvInit
<1>2. UsageInv /\ [Next]_vars => UsageInv'
  BY InvNext
<1>3. AppInit => Init
  BY DEF AppInit
<1>4. [AppNext]_allVars => [Next]_vars
  BY DEF AppNext, allVars
<1> QED
  BY <1>1, <1>2, <1>3, <1>4, PTL DEF Spec, AppSpec

(* "Each token makes at most one upstream call per window", for any number *)
(* of calls and tokens (fetch_quota_cached).                               *)
THEOREM AskedOnceAlways == Spec \/ AppSpec => []AskedOnce
<1>1. UsageInv => AskedOnce
  BY DEF UsageInv, AskerHolds, AskedOnce
<1> QED
  BY <1>1, UsageInvAlways, PTL

(* One claude at a time renews a profile's token, and one in the minute    *)
(* (try_refresh).                                                          *)
THEOREM RefreshesAlwaysApart == Spec \/ AppSpec => []RefreshesApart
<1>1. UsageInv => RefreshesApart
  BY DEF UsageInv, RefresherHolds, RefreshesApart
<1> QED
  BY <1>1, UsageInvAlways, PTL

(* A token given up for dead was turned down, or stored while a call was   *)
(* on with the one before it (build_with_cli_refresh).                     *)
THEOREM DeadAlwaysForAReason == Spec \/ AppSpec => []DeadForAReason
<1>1. UsageInv => DeadForAReason
  BY DEF UsageInv
<1> QED
  BY <1>1, UsageInvAlways, PTL
------------------------------------------------------------------------------
(* Every part's variables have their types, in any number of profiles,     *)
(* accounts, items, notes and facts and with any bounds.                   *)
THEOREM AppTypesAlways == AppSpec => []TypesOK
<1>1. /\ UsageInv => TypeOK
      /\ LinkInv => Opening!TypeOK
      /\ FilesInv => Files!TypeOK
      /\ CarryInv => Carrying!TypeOK
      /\ MergeInv => Merging!TypeOK
  BY DEF UsageInv, LinkInv, FilesInv, CarryInv, MergeInv
<1>2. /\ UsageInv /\ (AtTools => ToolsInv) /\ (AtLinks => LinkInv) /\ (AtFiles => FilesInv)
      /\ (Carries => CarryInv) /\ (Merges => MergeInv)
      => TypesOK
  BY <1>1, ToolsTyped DEF TypesOK
<1> QED
  BY <1>2, UsageInvAlways, ToolsAlways, LinksAlways, FilesAlways, CarryAlways, MergesAlways, PTL
================================================================================
