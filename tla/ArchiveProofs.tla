----------------------------- MODULE ArchiveProofs -----------------------------
(***************************************************************************)
(* Archives, for any number of them, of requests and of kills.  A request  *)
(* works on them with the account's lock; the sweeper compresses beside    *)
(* it.  All that is kept of an archive is one version of                   *)
(* the conversation, whoever is still writing it, and when the plain file  *)
(* of the archive being compressed has gone, the latest version is kept    *)
(* elsewhere.                                                              *)
(***************************************************************************)
EXTENDS MCHost, TLAPS

AllWorkers == Requesters \cup {Sweeper}
LiveCopy == Archives!Transcript

LiveIn    == archFile[<<"live", "jsonl">>]
PlainIn(s) == archFile[<<s, "jsonl">>]
ZipIn(s)   == archFile[<<s, "gz">>]
HalfIn(s)  == archFile[<<s, "part">>]

(* The latest version is whole in another place than an archive.           *)
ListedIn(s) == IF PlainIn(s) # Archives!Absent THEN PlainIn(s) ELSE ZipIn(s)
KeptBut(s) == LiveIn = archSaid \/ \E t \in Stamps \ {s} : ListedIn(t) = archSaid

(* A version that an archive's files, or one who writes them, have.        *)
Holds(s, x) ==
  /\ x # Archives!Absent
  /\ \/ PlainIn(s) = x
     \/ ZipIn(s) = x
     \/ \E w \in AllWorkers : /\ archJob[w].at = s /\ archJob[w].text = x
                              /\ archJob[w].pc \in {"copy", "place"}

WritingSteps == {"stat", "open", "read", "copy", "place", "remove", "undo"}
StepsOf(op) ==
  IF op = "archive" THEN {"look", "move", "end"} \cup WritingSteps
  ELSE IF op = "restore" THEN {"look", "back", "end"} \cup WritingSteps
  ELSE IF op = "delete" THEN {"look", "clear", "end"}
  ELSE {"look", "end"} \cup WritingSteps

OpenedBy(j) == IF j.op = "restore" THEN {<<"live", "part">>}
               ELSE {<<j.at, "part">>, <<j.at, "gz">>}

(* What a worker does, with the lock if it is a request, and on what.      *)
JobHeld(w) ==
  LET j == archJob[w] IN
  /\ j.pc # "idle" => j.pc \in StepsOf(j.op)
  /\ j.at \in archUsed \cup {"live"}
  /\ j.pc \notin {"idle", "look", "end"} => j.at \in archUsed
  /\ j.op \in {"restore", "delete"} => j.at \in archUsed
  /\ j.out # Archives!Nowhere => j.pc \in {"read", "copy", "place"} /\ j.out \in OpenedBy(j)
  /\ j.text <= archSaid
  /\ w # Sweeper /\ j.pc # "idle" =>
       archHolder = w /\ j.op \in {"archive", "restore", "delete"}
  /\ w = Sweeper => j.op \in {"none", "sweep"} /\ (j.pc # "idle" => j.op = "sweep")

JobsHeld == (\A w \in AllWorkers : JobHeld(w)) /\ archTodo \subseteq archUsed

(* What the files hold.                                                    *)
FilesSound ==
  /\ \A n \in Archives!Names : archFile[n] <= archSaid
  /\ archFile[LiveCopy] # 0
  /\ \A s \in Stamps : archFile[Archives!Plain(s)] # 0
  /\ \A s \in Stamps \ archUsed, k \in Archives!Kinds : archFile[<<s, k>>] = Archives!Absent

(* A session moves to an archive of its own.                               *)
MovesToNew ==
  \A r \in Requesters :
    archJob[r].pc = "move" =>
      /\ \A k \in Archives!Kinds : archFile[<<archJob[r].at, k>>] = Archives!Absent
      /\ archJob[r].at \notin archTodo
      /\ archJob[Sweeper].at # archJob[r].at

(* A restore puts a whole conversation where there is none.                *)
Restoring(w) ==
  LET j == archJob[w] IN
  j.op = "restore" =>
    /\ j.pc \in {"back", "stat", "open", "read", "copy", "place"} =>
         ~Archives!There(LiveCopy)
    /\ j.pc = "remove" => Archives!There(LiveCopy)
    /\ j.pc \in WritingSteps => ~Archives!There(Archives!Plain(j.at))
    /\ j.pc \in {"read", "copy"} => j.out = <<"live", "part">> /\ ~j.holed
    /\ j.pc \in {"copy", "place"} => j.text # 0
    /\ j.pc = "place" => archFile[<<"live", "part">>] = j.text

RestoresWhole == \A r \in Requesters : Restoring(r)

ArchiveShape ==
  Archives!TypeOK /\ JobsHeld /\ FilesSound /\ MovesToNew /\ RestoresWhole

OneVersion ==
  \A s \in Stamps, x, y \in 0..MaxSaid : Holds(s, x) /\ Holds(s, y) => x = y /\ x # 0

(* One worker compresses an archive, and keeps what it read in its part.   *)
Alone(w, s) == \A v \in AllWorkers : Archives!Compressing(v, s) => v = w
WritesWell(w, s) ==
  LET j == archJob[w] IN
  /\ j.pc \in {"read", "copy"} =>
       \/ j.out = <<s, "part">> /\ ~j.holed
       \/ j.out = Archives!Nowhere /\ HalfIn(s) = Archives!Absent
  /\ j.pc = "place" => HalfIn(s) \in {Archives!Absent, j.text}
  /\ j.pc = "remove" /\ PlainIn(s) = archSaid =>
       ZipIn(s) # Archives!Absent \/ archSaid \in archDropped
GoneWell(w, s) ==
  PlainIn(s) = Archives!Absent =>
    w = Sweeper /\ (archSaid \in archDropped \/ KeptBut(s))

Compresses ==
  \A w \in AllWorkers, s \in Stamps :
    Archives!Compressing(w, s) => Alone(w, s) /\ WritesWell(w, s) /\ GoneWell(w, s)

(* The latest version, where it is left of a restored archive, is live.    *)
RestoresSame ==
  \A r \in Requesters :
    archJob[r].op = "restore" /\ archJob[r].pc = "remove" =>
      \A x \in 0..MaxSaid : Holds(archJob[r].at, x) /\ x = archSaid => x = LiveIn

(* A delete takes what it was asked to.                                    *)
DeletesAsked ==
  \A r \in Requesters :
    archJob[r].pc = "clear" =>
      archSaid \in archDropped \/ ~Holds(archJob[r].at, archSaid)

(* All of it holds until two workers compress one archive at once.         *)
NothingLost ==
  /\ OneVersion
  /\ Compresses
  /\ RestoresSame
  /\ DeletesAsked
  /\ archSaid \notin archDropped => KeptBut("live")

ArchiveKept == ~archTwice => NothingLost

ArchiveInv == ArchiveShape /\ ArchiveKept

USE DEF Archives!Here, Archives!Absent, Archives!Short, Archives!Nowhere, Archives!Nobody,
        Archives!Transcript, Archives!Plain, Archives!Zipped, Archives!There, LiveCopy

LEMMA NamesThere ==
  /\ \A p \in Stamps \cup {"live"}, k \in {"jsonl", "gz", "part"} : <<p, k>> \in Archives!Names
  /\ <<"nowhere", "part">> \notin Archives!Names
  /\ \A s \in Stamps : s # "live"
BY ArchivesAssumption DEF Archives!Names, Archives!Places, Archives!Kinds

LEMMA IdleJob == Archives!Idle \in Archives!Jobs
BY DEF Archives!Idle, Archives!Jobs, Archives!Ops, Archives!Pcs, Archives!Places

LEMMA JobsTyped ==
  ASSUME ArchiveShape
  PROVE  /\ archJob \in [AllWorkers -> Archives!Jobs]
         /\ archFile \in [Archives!Names -> {-1, 0} \cup 1..MaxSaid]
         /\ archSaid \in 1..MaxSaid /\ archUsed \subseteq Stamps /\ archTodo \subseteq Stamps
         /\ archHolder \in Requesters \cup {"nobody"}
BY DEF ArchiveShape, Archives!TypeOK, Archives!FilesOK, AllWorkers, Archives!Versions

(* A worker's step leaves what the others do.                              *)
OthersGoOn(w) ==
  \A v \in AllWorkers \ {w} :
    /\ archJob'[v].op = archJob[v].op /\ archJob'[v].at = archJob[v].at
    /\ archJob'[v].pc = archJob[v].pc /\ archJob'[v].text = archJob[v].text

LEMMA GotoJob ==
  ASSUME ArchiveShape, NEW w \in AllWorkers, NEW pc1 \in Archives!Pcs, Archives!Goto(w, pc1)
  PROVE  /\ archJob' \in [AllWorkers -> Archives!Jobs]
         /\ archJob'[w].op = archJob[w].op /\ archJob'[w].at = archJob[w].at
         /\ archJob'[w].pc = pc1 /\ archJob'[w].text = archJob[w].text
         /\ archJob'[w].out = archJob[w].out /\ archJob'[w].holed = archJob[w].holed
         /\ \A v \in AllWorkers \ {w} : archJob'[v] = archJob[v]
BY JobsTyped DEF Archives!Goto, Archives!Jobs

LEMMA CloseJob ==
  ASSUME ArchiveShape, NEW w \in AllWorkers, NEW pc1 \in Archives!Pcs, Archives!Close(w, pc1)
  PROVE  /\ archJob' \in [AllWorkers -> Archives!Jobs]
         /\ archJob'[w].op = archJob[w].op /\ archJob'[w].at = archJob[w].at
         /\ archJob'[w].pc = pc1 /\ archJob'[w].text = 0
         /\ archJob'[w].out = Archives!Nowhere /\ archJob'[w].holed = FALSE
         /\ \A v \in AllWorkers \ {w} : archJob'[v] = archJob[v]
BY JobsTyped, IdleJob DEF Archives!Close, Archives!Jobs, Archives!Idle

LEMMA UnlinkJob ==
  ASSUME ArchiveShape, NEW n \in Archives!Names, Archives!Unlink(n)
  PROVE  /\ archJob' \in [AllWorkers -> Archives!Jobs]
         /\ \A v \in AllWorkers :
              /\ archJob'[v].op = archJob[v].op /\ archJob'[v].at = archJob[v].at
              /\ archJob'[v].pc = archJob[v].pc /\ archJob'[v].text = archJob[v].text
              /\ archJob'[v].holed = archJob[v].holed
              /\ archJob'[v].out = IF archJob[v].out = n THEN Archives!Nowhere ELSE archJob[v].out
         /\ archFile' = [archFile EXCEPT ![n] = -1]
BY JobsTyped DEF Archives!Unlink, Archives!Jobs, AllWorkers

LEMMA UnlinkThenJob ==
  ASSUME ArchiveShape, NEW n \in Archives!Names, NEW w \in AllWorkers, NEW pc1 \in Archives!Pcs,
         Archives!UnlinkThen(n, w, pc1)
  PROVE  /\ archJob' \in [AllWorkers -> Archives!Jobs]
         /\ \A v \in AllWorkers :
              /\ archJob'[v].op = archJob[v].op /\ archJob'[v].at = archJob[v].at
              /\ archJob'[v].pc = (IF v = w THEN pc1 ELSE archJob[v].pc)
              /\ archJob'[v].text = archJob[v].text /\ archJob'[v].holed = archJob[v].holed
              /\ archJob'[v].out = IF archJob[v].out = n THEN Archives!Nowhere ELSE archJob[v].out
         /\ archFile' = [archFile EXCEPT ![n] = -1]
<1>1. archFile' = [archFile EXCEPT ![n] = -1]
  BY DEF Archives!UnlinkThen
<1>2. archJob' = [v \in AllWorkers |->
                    [archJob[v] EXCEPT !.out = IF @ = n THEN Archives!Nowhere ELSE @,
                                       !.pc = IF v = w THEN pc1 ELSE @]]
  BY DEF Archives!UnlinkThen, AllWorkers
<1>3. \A v \in AllWorkers : archJob[v] \in Archives!Jobs
  BY JobsTyped
<1> QED
  BY <1>1, <1>2, <1>3 DEF Archives!Jobs

(* A worker that renamed what it wrote has closed it.                      *)
OutputClosed(w, pc1) ==
  /\ archJob'[w].op = archJob[w].op /\ archJob'[w].at = archJob[w].at
  /\ archJob'[w].pc = pc1 /\ archJob'[w].text = 0
  /\ archJob'[w].out = Archives!Nowhere

LEMMA RenameThenJob ==
  ASSUME ArchiveShape, NEW a \in Archives!Names, NEW b \in Archives!Names,
         NEW w \in AllWorkers, NEW pc1 \in Archives!Pcs, Archives!RenameThen(a, b, w, pc1)
  PROVE  /\ archJob' \in [AllWorkers -> Archives!Jobs]
         /\ OutputClosed(w, pc1)
         /\ \A v \in AllWorkers \ {w} :
              /\ archJob'[v].op = archJob[v].op /\ archJob'[v].at = archJob[v].at
              /\ archJob'[v].pc = archJob[v].pc /\ archJob'[v].text = archJob[v].text
              /\ archJob'[v].holed = archJob[v].holed
              /\ archJob'[v].out = IF archJob[v].out = a THEN b
                                   ELSE IF archJob[v].out = b THEN Archives!Nowhere
                                   ELSE archJob[v].out
         /\ archFile' = [archFile EXCEPT ![b] = archFile[a], ![a] = -1]
<1>1. archFile' = [archFile EXCEPT ![b] = archFile[a], ![a] = -1]
  BY DEF Archives!RenameThen
<1>2. archJob' = [v \in AllWorkers |->
                 IF v = w THEN [Archives!Idle EXCEPT !.op = archJob[w].op, !.at = archJob[w].at,
                                            !.pc = pc1]
                 ELSE [archJob[v] EXCEPT !.out = IF @ = a THEN b
                                             ELSE IF @ = b THEN Archives!Nowhere ELSE @]]
  BY DEF Archives!RenameThen, AllWorkers
<1>3. \A v \in AllWorkers : archJob[v] \in Archives!Jobs
  BY JobsTyped
<1> QED
  BY <1>1, <1>2, <1>3, IdleJob DEF Archives!Jobs, Archives!Idle, OutputClosed

(* What others have open may be renamed or unlinked under them.            *)
OutFollows(v) ==
  \/ archJob'[v].out = archJob[v].out /\ archJob'[v].holed = archJob[v].holed
  \/ /\ archJob[v].out # Archives!Nowhere /\ archJob[v].op # "restore"
     /\ archJob'[v].out \in OpenedBy(archJob[v]) \cup {Archives!Nowhere}

LEMMA OthersHeld ==
  ASSUME ArchiveShape, NEW w \in AllWorkers, OthersGoOn(w), NEW v \in AllWorkers \ {w},
         OutFollows(v), UNCHANGED <<archHolder, archSaid, archUsed>>
  PROVE  JobHeld(v)'
<1>1. JobHeld(v)
  BY DEF ArchiveShape, JobsHeld
<1> QED
  BY <1>1 DEF JobHeld, OthersGoOn, OutFollows, OpenedBy, StepsOf

(* Only one request has the lock.                                          *)
LEMMA OthersIdle ==
  ASSUME ArchiveShape, NEW r \in Requesters, archJob[r].pc # "idle",
         NEW q \in Requesters \ {r}
  PROVE  archJob[q].pc = "idle"
BY ArchivesAssumption DEF ArchiveShape, JobsHeld, JobHeld, AllWorkers

LEMMA SweeperShape ==
  ASSUME ArchiveShape, archJob[Sweeper].pc \notin {"idle", "look", "end"},
         archJob' \in [AllWorkers -> Archives!Jobs], OthersGoOn(Sweeper),
         \A v \in AllWorkers \ {Sweeper} : OutFollows(v),
         JobHeld(Sweeper)', archJob'[Sweeper].at = archJob[Sweeper].at,
         archFile' \in [Archives!Names -> {-1, 0} \cup 1..MaxSaid],
         \A n \in Archives!Names : n[1] # archJob[Sweeper].at => archFile'[n] = archFile[n],
         \A n \in Archives!Names : archFile'[n] <= archSaid,
         archFile'[<<archJob[Sweeper].at, "jsonl">>] \in {archFile[<<archJob[Sweeper].at, "jsonl">>], -1},
         UNCHANGED <<archHolder, archTodo, archSaid, archUsed, archKills>>,
         archDropped' \subseteq Archives!Versions, archTwice' \in BOOLEAN
  PROVE  ArchiveShape'
<1> DEFINE s == archJob[Sweeper].at
<1>1. /\ Sweeper \in AllWorkers /\ Sweeper \notin Requesters /\ s \in archUsed /\ s \in Stamps
      /\ Requesters \subseteq AllWorkers /\ s # "live"
  BY JobsTyped, NamesThere, ArchivesAssumption DEF AllWorkers, ArchiveShape, JobsHeld, JobHeld
<1> HIDE DEF s
<1>2. Archives!TypeOK'
  BY DEF ArchiveShape, Archives!TypeOK, Archives!FilesOK, AllWorkers, Archives!Versions
<1>3. JobsHeld'
  BY <1>1, OthersHeld DEF JobsHeld, ArchiveShape, AllWorkers
<1>4. FilesSound'
  <2>1. \A n \in Archives!Names : n[1] # s => archFile'[n] = archFile[n]
    BY DEF s
  <2>2. archFile'[<<s, "jsonl">>] \in {archFile[<<s, "jsonl">>], -1}
    BY DEF s
  <2>3. FilesSound
    BY DEF ArchiveShape
  <2>4. archFile'[<<"live", "jsonl">>] = archFile[<<"live", "jsonl">>]
    BY <1>1, <2>1, NamesThere
  <2>5. \A t \in Stamps : archFile'[<<t, "jsonl">>] \in {archFile[<<t, "jsonl">>], -1}
    BY <2>1, <2>2, NamesThere
  <2>6. \A t \in Stamps \ archUsed, k \in Archives!Kinds : archFile'[<<t, k>>] = archFile[<<t, k>>]
    BY <1>1, <2>1, NamesThere DEF Archives!Kinds
  <2> QED
    BY <2>3, <2>4, <2>5, <2>6 DEF FilesSound
<1>5. MovesToNew'
  <2> SUFFICES ASSUME NEW r \in Requesters, archJob[r].pc = "move"
               PROVE  /\ \A k \in Archives!Kinds : archFile'[<<archJob[r].at, k>>] = -1
                      /\ archJob[r].at \notin archTodo /\ archJob[Sweeper].at # archJob[r].at
    BY <1>1 DEF MovesToNew, OthersGoOn
  <2>1. archJob[r].at \in Stamps
    BY <1>1, JobsTyped DEF ArchiveShape, JobsHeld, JobHeld
  <2> QED
    BY <1>1, <2>1, NamesThere DEF ArchiveShape, MovesToNew, Archives!Kinds
<1>6. RestoresWhole'
  <2> SUFFICES ASSUME NEW r \in Requesters, archJob[r].op = "restore" PROVE Restoring(r)'
    BY <1>1 DEF RestoresWhole, OthersGoOn, Restoring
  <2>1. Restoring(r) /\ OutFollows(r) /\ r \in AllWorkers \ {Sweeper}
    BY <1>1 DEF ArchiveShape, RestoresWhole
  <2>2. archJob[r].pc \in WritingSteps => archJob[r].at \in Stamps
    BY <1>1, JobsTyped DEF ArchiveShape, JobsHeld, JobHeld, WritingSteps
  <2>3. archFile'[<<"live", "jsonl">>] = archFile[<<"live", "jsonl">>]
        /\ archFile'[<<"live", "part">>] = archFile[<<"live", "part">>]
    BY <1>1, NamesThere DEF s
  <2>4. archJob[r].at \in Stamps /\ archFile[<<archJob[r].at, "jsonl">>] = -1
          => archFile'[<<archJob[r].at, "jsonl">>] = -1
    BY <1>1, NamesThere DEF s
  <2> QED
    BY <2>1, <2>2, <2>3, <2>4 DEF Restoring, OutFollows, OthersGoOn
<1> QED
  BY <1>2, <1>3, <1>4, <1>5, <1>6 DEF ArchiveShape

LEMMA RequestShape ==
  ASSUME ArchiveShape, NEW r \in Requesters, archJob[r].pc # "idle",
         archJob' \in [AllWorkers -> Archives!Jobs], OthersGoOn(r),
         \A v \in AllWorkers \ {r} : OutFollows(v),
         JobHeld(r)', archJob'[r].pc # "move", Restoring(r)',
         archFile' \in [Archives!Names -> {-1, 0} \cup 1..MaxSaid], FilesSound',
         UNCHANGED <<archHolder, archTodo, archSaid, archUsed, archKills>>,
         archDropped' \subseteq Archives!Versions, archTwice' \in BOOLEAN
  PROVE  ArchiveShape'
<1>1. r \in AllWorkers /\ Requesters \subseteq AllWorkers
  BY DEF AllWorkers
<1>2. Archives!TypeOK'
  BY DEF ArchiveShape, Archives!TypeOK, Archives!FilesOK, AllWorkers, Archives!Versions
<1>3. JobsHeld'
  BY <1>1, OthersHeld DEF JobsHeld, ArchiveShape
<1>4. \A q \in Requesters \ {r} : archJob'[q].pc = "idle"
  BY <1>1, OthersIdle DEF OthersGoOn
<1>5. MovesToNew'
  BY <1>4 DEF MovesToNew
<1>6. RestoresWhole'
  <2> SUFFICES ASSUME NEW q \in Requesters \ {r} PROVE Restoring(q)'
    BY DEF RestoresWhole
  <2> QED
    BY <1>4 DEF Restoring, WritingSteps
<1> QED
  BY <1>2, <1>3, <1>5, <1>6 DEF ArchiveShape

(* What a worker's job works on.                                           *)
LEMMA WorksOn ==
  ASSUME ArchiveShape, NEW w \in AllWorkers, archJob[w].pc \in WritingSteps
  PROVE  /\ archJob[w].at \in archUsed /\ archJob[w].at \in Stamps /\ archJob[w].at # "live"
         /\ Archives!Source(archJob[w]) \in Archives!Names
         /\ Archives!Target(archJob[w]) \in Archives!Names
         /\ Archives!Part(archJob[w]) \in Archives!Names
         /\ w = Sweeper => archJob[w].op = "sweep"
         /\ w # Sweeper => w \in Requesters /\ archHolder = w
                           /\ archJob[w].op \in {"archive", "restore"}
         /\ IF archJob[w].op = "restore"
            THEN /\ Archives!Source(archJob[w]) = <<archJob[w].at, "gz">>
                 /\ Archives!Target(archJob[w]) = <<"live", "jsonl">>
                 /\ Archives!Part(archJob[w]) = <<"live", "part">>
            ELSE /\ Archives!Source(archJob[w]) = <<archJob[w].at, "jsonl">>
                 /\ Archives!Target(archJob[w]) = <<archJob[w].at, "gz">>
                 /\ Archives!Part(archJob[w]) = <<archJob[w].at, "part">>
<1>1. JobHeld(w)
  BY DEF ArchiveShape, JobsHeld
<1>2. archJob[w].at \in archUsed /\ archJob[w].at \in Stamps /\ archJob[w].at # "live"
  BY <1>1, JobsTyped, NamesThere DEF JobHeld, WritingSteps
<1>3. /\ w = Sweeper => archJob[w].op = "sweep"
      /\ w # Sweeper => w \in Requesters /\ archHolder = w
                        /\ archJob[w].op \in {"archive", "restore"}
  BY <1>1 DEF JobHeld, WritingSteps, AllWorkers, StepsOf
<1>4. CASE archJob[w].op = "restore"
  BY <1>2, <1>3, <1>4, NamesThere DEF Archives!Source, Archives!Target, Archives!Part
<1>5. CASE archJob[w].op # "restore"
  BY <1>2, <1>3, <1>5, NamesThere DEF Archives!Source, Archives!Target, Archives!Part
<1> QED
  BY <1>2, <1>3, <1>4, <1>5

(* A worker's step of writing: what it does to its own job and files is    *)
(* enough.                                                                 *)
LEMMA WriterShape ==
  ASSUME ArchiveShape, NEW w \in AllWorkers, archJob[w].pc \in WritingSteps,
         archJob' \in [AllWorkers -> Archives!Jobs], OthersGoOn(w),
         \A v \in AllWorkers \ {w} : OutFollows(v),
         JobHeld(w)', archJob'[w].at = archJob[w].at, archJob'[w].op = archJob[w].op,
         archJob'[w].pc # "move",
         archFile' \in [Archives!Names -> {-1, 0} \cup 1..MaxSaid],
         \A n \in Archives!Names : archFile'[n] <= archSaid,
         \A n \in Archives!Names :
           n[1] # archJob[w].at /\ (archJob[w].op = "restore" => n[1] # "live")
             => archFile'[n] = archFile[n],
         archFile'[<<archJob[w].at, "jsonl">>] \in {archFile[<<archJob[w].at, "jsonl">>], -1},
         archJob[w].op = "restore" => Restoring(w)' /\ archFile'[<<"live", "jsonl">>] # 0,
         UNCHANGED <<archHolder, archTodo, archSaid, archUsed, archKills>>,
         archDropped' \subseteq Archives!Versions, archTwice' \in BOOLEAN
  PROVE  ArchiveShape'
<1> DEFINE s == archJob[w].at
<1>1. s \in archUsed /\ s \in Stamps /\ s # "live" /\ archJob[w].pc # "idle"
      /\ (w = Sweeper => archJob[w].op = "sweep") /\ (w # Sweeper => w \in Requesters)
  BY WorksOn DEF WritingSteps
<1>2. CASE w = Sweeper
  BY <1>1, <1>2, SweeperShape DEF WritingSteps
<1>3. CASE w # Sweeper
  <2>1. Restoring(w)'
    BY DEF Restoring
  <2> HIDE DEF s
  <2>2. FilesSound'
    <3>1. FilesSound
      BY DEF ArchiveShape
    <3>2. archFile'[<<"live", "jsonl">>] # 0
      BY <1>1, <3>1, NamesThere DEF FilesSound, s
    <3>3. \A t \in Stamps : archFile'[<<t, "jsonl">>] \in {archFile[<<t, "jsonl">>], -1}
      BY <1>1, NamesThere DEF s
    <3>4. \A t \in Stamps \ archUsed, k \in Archives!Kinds :
            archFile'[<<t, k>>] = archFile[<<t, k>>]
      BY <1>1, NamesThere DEF s, Archives!Kinds
    <3> QED
      BY <3>1, <3>2, <3>3, <3>4 DEF FilesSound
  <2> QED
    BY <1>1, <1>3, <2>1, <2>2, RequestShape
<1> QED
  BY <1>2, <1>3

(* Steps that change no file.                                              *)
LEMMA LooksShape ==
  ASSUME ArchiveShape, NEW w \in AllWorkers,
         Archives!Stat(w) \/ Archives!Read(w) \/ Archives!CopyFails(w) \/ Archives!PlaceFails(w),
         UNCHANGED <<archHolder, archTodo, archSaid, archUsed, archKills, archDropped>>,
         archTwice' \in BOOLEAN
  PROVE  ArchiveShape'
<1> DEFINE j == archJob[w]
<1>1. /\ j.pc \in WritingSteps /\ UNCHANGED archFile /\ j.pc # "remove" /\ j.pc # "undo"
      /\ j.pc # "open"
  BY DEF Archives!Stat, Archives!Read, Archives!CopyFails, Archives!PlaceFails, WritingSteps
<1>2. JobHeld(w) /\ FilesSound
  BY DEF ArchiveShape, JobsHeld
<1>3. /\ archJob' \in [AllWorkers -> Archives!Jobs]
      /\ archJob'[w].op = j.op /\ archJob'[w].at = j.at
      /\ \A v \in AllWorkers \ {w} : archJob'[v] = archJob[v]
      /\ \/ j.pc = "stat" /\ archJob'[w].pc \in {"open", "end"} /\ archJob'[w].out = j.out
            /\ archJob'[w].text = j.text
         \/ archJob'[w].pc = "undo" /\ archJob'[w].text = 0 /\ archJob'[w].out = Archives!Nowhere
         \/ /\ j.pc = "read" /\ archJob'[w].pc = "copy" /\ archJob'[w].out = j.out
            /\ archJob'[w].holed = j.holed /\ archJob'[w].text = archFile[Archives!Source(j)]
            /\ archFile[Archives!Source(j)] # -1
            /\ j.op = "restore" => archFile[Archives!Source(j)] # 0
  <2>1. {"open", "end", "undo", "copy"} \subseteq Archives!Pcs
    BY DEF Archives!Pcs
  <2>2. CASE Archives!Stat(w)
    BY <2>1, <2>2, GotoJob DEF Archives!Stat
  <2>3. CASE Archives!CopyFails(w) \/ Archives!PlaceFails(w)
    BY <2>1, <2>3, CloseJob DEF Archives!CopyFails, Archives!PlaceFails
  <2>4. CASE Archives!Read(w)
    <3> DEFINE from == archFile[Archives!Source(j)]
    <3>1. from \in {-1, 0} \cup 1..MaxSaid
      BY <1>1, WorksOn, JobsTyped
    <3>2. CASE from = -1 \/ (j.op = "restore" /\ from = 0)
      BY <2>1, <2>4, <3>2, CloseJob DEF Archives!Read
    <3>3. CASE ~(from = -1 \/ (j.op = "restore" /\ from = 0))
      <4>1. archJob' = [archJob EXCEPT ![w].pc = "copy", ![w].text = from] /\ j.pc = "read"
        BY <2>4, <3>3 DEF Archives!Read
      <4>2. j \in Archives!Jobs /\ from \in {0} \cup 1..MaxSaid
        BY <3>1, <3>3, JobsTyped
      <4> HIDE DEF from
      <4> QED
        BY <2>1, <3>3, <4>1, <4>2, JobsTyped
           DEF from, Archives!Jobs, Archives!Versions
    <3> QED
      BY <3>2, <3>3
  <2> QED
    BY <2>2, <2>3, <2>4
<1>4. OthersGoOn(w) /\ \A v \in AllWorkers \ {w} : OutFollows(v)
  BY <1>3 DEF OthersGoOn, OutFollows
<1>5. Archives!Source(j) \in Archives!Names /\ archSaid \in 1..MaxSaid
  BY <1>1, WorksOn, JobsTyped
<1>6. archFile[Archives!Source(j)] <= archSaid
  BY <1>2, <1>5 DEF FilesSound
<1>7. JobHeld(w)'
  <2>1. archJob'[w].pc \in StepsOf(j.op) /\ j.at \in archUsed
    BY <1>1, <1>2, <1>3, WorksOn DEF StepsOf, WritingSteps
  <2>2. archJob'[w].text <= archSaid
    BY <1>2, <1>3, <1>5, <1>6 DEF JobHeld
  <2>3. archJob'[w].out # Archives!Nowhere => j.pc = "read" /\ archJob'[w].pc = "copy"
                                              /\ archJob'[w].out \in OpenedBy(j)
    BY <1>2, <1>3 DEF JobHeld
  <2>4. OpenedBy(archJob'[w]) = OpenedBy(j)
    BY <1>3 DEF OpenedBy
  <2> QED
    BY <1>1, <1>2, <1>3, <2>1, <2>2, <2>3, <2>4, WorksOn DEF JobHeld
<1>8. j.op = "restore" => Restoring(w)'
  <2> SUFFICES ASSUME j.op = "restore" PROVE Restoring(w)'
    OBVIOUS
  <2>1. Restoring(w)
    BY <1>1, WorksOn, ArchivesAssumption DEF ArchiveShape, RestoresWhole
  <2> QED
    BY <1>1, <1>3, <2>1 DEF Restoring, WritingSteps
<1>9. archDropped' \subseteq Archives!Versions /\ archFile \in [Archives!Names -> {-1, 0} \cup 1..MaxSaid]
  BY JobsTyped DEF ArchiveShape, Archives!TypeOK
<1> QED
  BY <1>1, <1>2, <1>3, <1>4, <1>7, <1>8, <1>9, WriterShape DEF FilesSound

LEMMA OpenShape ==
  ASSUME ArchiveShape, NEW w \in AllWorkers, Archives!Open(w),
         UNCHANGED <<archHolder, archTodo, archSaid, archUsed, archKills, archDropped>>,
         archTwice' \in BOOLEAN
  PROVE  ArchiveShape'
<1> DEFINE j == archJob[w]
           part1 == Archives!Part(j)
<1>1. /\ j.pc = "open" /\ archFile' = [archFile EXCEPT ![part1] = 0]
      /\ archJob' = [v \in AllWorkers |->
                 IF v = w THEN [archJob[v] EXCEPT !.pc = "read", !.out = part1, !.holed = FALSE]
                 ELSE IF archJob[v].out = part1 THEN [archJob[v] EXCEPT !.holed = TRUE]
                 ELSE archJob[v]]
  BY DEF Archives!Open, AllWorkers
<1>2. JobHeld(w) /\ FilesSound /\ j.pc \in WritingSteps
  BY <1>1 DEF ArchiveShape, JobsHeld, WritingSteps
<1>3. /\ part1 \in Archives!Names /\ j.at \in archUsed /\ j.at # "live"
      /\ part1 = IF j.op = "restore" THEN <<"live", "part">> ELSE <<j.at, "part">>
  BY <1>2, WorksOn
<1> HIDE DEF part1
<1>4. \A v \in AllWorkers : archJob[v] \in Archives!Jobs
  BY JobsTyped
<1>5. /\ archJob' \in [AllWorkers -> Archives!Jobs]
      /\ archJob'[w].op = j.op /\ archJob'[w].at = j.at /\ archJob'[w].text = j.text
      /\ archJob'[w].pc = "read" /\ archJob'[w].out = part1 /\ archJob'[w].holed = FALSE
      /\ \A v \in AllWorkers \ {w} :
           /\ archJob'[v].op = archJob[v].op /\ archJob'[v].at = archJob[v].at
           /\ archJob'[v].pc = archJob[v].pc /\ archJob'[v].text = archJob[v].text
           /\ archJob'[v].out = archJob[v].out
           /\ archJob[v].out # part1 => archJob'[v].holed = archJob[v].holed
  BY ZenonT(60), <1>1, <1>3, <1>4 DEF Archives!Jobs, Archives!Pcs
<1>6. OthersGoOn(w)
  BY <1>5 DEF OthersGoOn
<1>7. \A v \in AllWorkers \ {w} : OutFollows(v)
  <2> SUFFICES ASSUME NEW v \in AllWorkers \ {w}, archJob[v].out = part1 PROVE OutFollows(v)
    BY <1>5 DEF OutFollows
  <2>1. JobHeld(v)
    BY DEF ArchiveShape, JobsHeld
  <2>2. part1 # Archives!Nowhere
    BY <1>3, NamesThere
  <2>3. archJob[v].out \in OpenedBy(archJob[v]) /\ archJob[v].pc # "idle"
    BY <2>1, <2>2 DEF JobHeld
  <2>4. archJob[v].op # "restore"
    <3> SUFFICES ASSUME archJob[v].op = "restore" PROVE FALSE
      OBVIOUS
    <3>1. part1 = <<"live", "part">> /\ j.op = "restore"
      BY <1>3, <2>3 DEF OpenedBy
    <3>2. v \in Requesters /\ archJob[w].pc # "idle" /\ w \in Requesters
      BY <1>1, <1>2, <2>1, <3>1 DEF JobHeld, AllWorkers
    <3> QED
      BY <2>3, <3>2, OthersIdle
  <2> QED
    BY <1>5, <2>2, <2>3, <2>4 DEF OutFollows
<1>8. JobHeld(w)'
  <2>1. part1 \in OpenedBy(j) /\ OpenedBy(archJob'[w]) = OpenedBy(j)
    BY <1>3, <1>5 DEF OpenedBy
  <2>2. "read" \in StepsOf(j.op)
    BY <1>1, <1>2 DEF StepsOf, WritingSteps, JobHeld
  <2> QED
    BY <1>2, <1>3, <1>5, <2>1, <2>2, WorksOn DEF JobHeld
<1>9. j.op = "restore" => Restoring(w)' /\ archFile'[<<"live", "jsonl">>] # 0
  <2> SUFFICES ASSUME j.op = "restore" PROVE Restoring(w)' /\ archFile'[<<"live", "jsonl">>] # 0
    OBVIOUS
  <2>1. Restoring(w)
    BY <1>2, WorksOn, ArchivesAssumption DEF ArchiveShape, RestoresWhole
  <2>2. \A n \in Archives!Names : n # <<"live", "part">> => archFile'[n] = archFile[n]
    BY <1>1, <1>3, JobsTyped
  <2>3. archFile'[<<"live", "jsonl">>] = archFile[<<"live", "jsonl">>]
        /\ archFile'[<<j.at, "jsonl">>] = archFile[<<j.at, "jsonl">>]
    BY <1>2, <2>2, NamesThere, WorksOn
  <2> QED
    BY <1>1, <1>2, <1>3, <1>5, <2>1, <2>3 DEF Restoring, WritingSteps, FilesSound
<1>10. /\ archFile' \in [Archives!Names -> {-1, 0} \cup 1..MaxSaid]
       /\ \A n \in Archives!Names : archFile'[n] <= archSaid
       /\ \A n \in Archives!Names : n # part1 => archFile'[n] = archFile[n]
  <2>1. archFile' = [archFile EXCEPT ![part1] = 0] /\ archSaid \in 1..MaxSaid
    BY <1>1, JobsTyped
  <2>2. \A n \in Archives!Names : archFile[n] <= archSaid
    BY <1>2 DEF FilesSound
  <2> QED
    BY <1>3, <2>1, <2>2, JobsTyped
<1>11. archFile'[<<j.at, "jsonl">>] = archFile[<<j.at, "jsonl">>]
  BY <1>2, <1>3, <1>10, NamesThere, WorksOn
<1>12. \A n \in Archives!Names :
         n[1] # j.at /\ (j.op = "restore" => n[1] # "live") => archFile'[n] = archFile[n]
  BY <1>3, <1>10
<1>13. archDropped' \subseteq Archives!Versions
  BY DEF ArchiveShape, Archives!TypeOK
<1> QED
  BY <1>1, <1>2, <1>5, <1>6, <1>7, <1>8, <1>9, <1>10, <1>11, <1>12, <1>13, WriterShape

LEMMA CopyShape ==
  ASSUME ArchiveShape, NEW w \in AllWorkers, Archives!Copy(w),
         UNCHANGED <<archHolder, archTodo, archSaid, archUsed, archKills, archDropped>>,
         archTwice' \in BOOLEAN
  PROVE  ArchiveShape'
<1> DEFINE j == archJob[w]
<1>1. /\ j.pc = "copy" /\ Archives!Goto(w, "place")
      /\ archFile' = IF j.out = Archives!Nowhere \/ j.holed THEN archFile
                     ELSE [archFile EXCEPT ![j.out] = j.text]
  BY DEF Archives!Copy
<1>2. JobHeld(w) /\ FilesSound /\ j.pc \in WritingSteps /\ "place" \in Archives!Pcs
  BY <1>1 DEF ArchiveShape, JobsHeld, WritingSteps, Archives!Pcs
<1>3. /\ archJob' \in [AllWorkers -> Archives!Jobs]
      /\ archJob'[w].op = j.op /\ archJob'[w].at = j.at /\ archJob'[w].text = j.text
      /\ archJob'[w].pc = "place" /\ archJob'[w].out = j.out
      /\ \A v \in AllWorkers \ {w} : archJob'[v] = archJob[v]
  BY <1>1, <1>2, GotoJob
<1>4. OthersGoOn(w) /\ \A v \in AllWorkers \ {w} : OutFollows(v)
  BY <1>3 DEF OthersGoOn, OutFollows
<1>5. JobHeld(w)'
  <2>1. OpenedBy(archJob'[w]) = OpenedBy(j) /\ "place" \in StepsOf(j.op)
    BY <1>1, <1>2, <1>3 DEF OpenedBy, StepsOf, WritingSteps, JobHeld
  <2> QED
    BY <1>1, <1>2, <1>3, <2>1 DEF JobHeld
<1>6. j.text \in {0} \cup 1..MaxSaid /\ j.text <= archSaid
  BY <1>2, JobsTyped DEF JobHeld, Archives!Jobs, Archives!Versions
<1>7. j.out # Archives!Nowhere =>
        IF j.op = "restore" THEN j.out = <<"live", "part">>
        ELSE j.out \in {<<j.at, "part">>, <<j.at, "gz">>}
  BY <1>2 DEF JobHeld, OpenedBy
<1>8. /\ archFile' \in [Archives!Names -> {-1, 0} \cup 1..MaxSaid]
      /\ \A n \in Archives!Names : archFile'[n] <= archSaid
      /\ \A n \in Archives!Names : n # j.out => archFile'[n] = archFile[n]
  BY <1>1, <1>2, <1>6, JobsTyped DEF FilesSound
<1>9. archFile'[<<j.at, "jsonl">>] = archFile[<<j.at, "jsonl">>]
      /\ archFile'[<<"live", "jsonl">>] = archFile[<<"live", "jsonl">>]
  <2>1. <<j.at, "jsonl">> \in Archives!Names /\ <<"live", "jsonl">> \in Archives!Names
    BY <1>2, NamesThere, WorksOn
  <2>2. j.out # <<j.at, "jsonl">> /\ j.out # <<"live", "jsonl">>
    BY <1>7
  <2> QED
    BY <1>8, <2>1, <2>2
<1>10. \A n \in Archives!Names :
         n[1] # j.at /\ (j.op = "restore" => n[1] # "live") => archFile'[n] = archFile[n]
  <2> SUFFICES ASSUME NEW n \in Archives!Names, n[1] # j.at, j.op = "restore" => n[1] # "live"
               PROVE  archFile'[n] = archFile[n]
    OBVIOUS
  <2>1. n # j.out
    BY <1>7, NamesThere
  <2> QED
    BY <1>8, <2>1
<1>11. j.op = "restore" => Restoring(w)' /\ archFile'[<<"live", "jsonl">>] # 0
  <2> SUFFICES ASSUME j.op = "restore" PROVE Restoring(w)' /\ archFile'[<<"live", "jsonl">>] # 0
    OBVIOUS
  <2>1. Restoring(w)
    BY <1>2, WorksOn, ArchivesAssumption DEF ArchiveShape, RestoresWhole
  <2>2. archFile'[<<"live", "part">>] = j.text
    BY <1>1, <2>1, NamesThere, JobsTyped DEF Restoring
  <2> QED
    BY <1>1, <1>2, <1>3, <1>9, <2>1, <2>2 DEF Restoring, WritingSteps, FilesSound
<1>12. archDropped' \subseteq Archives!Versions
  BY DEF ArchiveShape, Archives!TypeOK
<1> QED
  BY <1>1, <1>2, <1>3, <1>4, <1>5, <1>8, <1>9, <1>10, <1>11, <1>12, WriterShape

LEMMA PlaceShape ==
  ASSUME ArchiveShape, NEW w \in AllWorkers, Archives!Place(w),
         UNCHANGED <<archHolder, archTodo, archSaid, archUsed, archKills, archDropped>>,
         archTwice' \in BOOLEAN
  PROVE  ArchiveShape'
<1> DEFINE j == archJob[w]
<1>0. j.pc = "place" /\ j.pc \in WritingSteps
  BY DEF Archives!Place, WritingSteps
<1>a. PICK a \in Archives!Names, b \in Archives!Names :
           a = Archives!Part(j) /\ b = Archives!Target(j)
  BY <1>0, WorksOn
<1>1. j.pc = "place" /\ archFile[a] # -1 /\ Archives!RenameThen(a, b, w, "remove")
  BY <1>a DEF Archives!Place
<1>2. JobHeld(w) /\ FilesSound /\ j.pc \in WritingSteps /\ "remove" \in Archives!Pcs
  BY <1>1 DEF ArchiveShape, JobsHeld, WritingSteps, Archives!Pcs
<1>3. /\ a \in Archives!Names /\ b \in Archives!Names /\ j.at \in archUsed /\ j.at # "live"
      /\ IF j.op = "restore" THEN a = <<"live", "part">> /\ b = <<"live", "jsonl">>
         ELSE a = <<j.at, "part">> /\ b = <<j.at, "gz">>
  BY <1>2, <1>a, WorksOn
<1>4. /\ archJob' \in [AllWorkers -> Archives!Jobs]
      /\ archJob'[w].op = j.op /\ archJob'[w].at = j.at
      /\ archJob'[w].pc = "remove" /\ archJob'[w].text = 0
      /\ archJob'[w].out = Archives!Nowhere
      /\ \A v \in AllWorkers \ {w} :
              /\ archJob'[v].op = archJob[v].op /\ archJob'[v].at = archJob[v].at
              /\ archJob'[v].pc = archJob[v].pc /\ archJob'[v].text = archJob[v].text
              /\ archJob'[v].holed = archJob[v].holed
              /\ archJob'[v].out = IF archJob[v].out = a THEN b
                                   ELSE IF archJob[v].out = b THEN Archives!Nowhere
                                   ELSE archJob[v].out
      /\ archFile' = [archFile EXCEPT ![b] = archFile[a], ![a] = -1]
  <2>1. /\ archFile' = [archFile EXCEPT ![b] = archFile[a], ![a] = -1]
        /\ archJob' \in [AllWorkers -> Archives!Jobs]
    BY <1>1, <1>2, <1>3, RenameThenJob
  <2>2. /\ archJob'[w].op = archJob[w].op /\ archJob'[w].at = archJob[w].at
        /\ archJob'[w].pc = "remove" /\ archJob'[w].text = 0
        /\ archJob'[w].out = Archives!Nowhere
    <3>1. OutputClosed(w, "remove")
      BY <1>1, <1>2, <1>3, RenameThenJob
    <3> QED
      BY <3>1 DEF OutputClosed
  <2> QED
    BY <2>1, <2>2, <1>1, <1>2, <1>3, RenameThenJob
<1>5. OthersGoOn(w)
  BY <1>4 DEF OthersGoOn
<1>6. \A v \in AllWorkers \ {w} : OutFollows(v)
  <2> SUFFICES ASSUME NEW v \in AllWorkers \ {w}, archJob[v].out \in {a, b} PROVE OutFollows(v)
    BY <1>4 DEF OutFollows
  <2>1. JobHeld(v)
    BY DEF ArchiveShape, JobsHeld
  <2>2. a # Archives!Nowhere /\ b # Archives!Nowhere
    BY <1>3, NamesThere
  <2>3. archJob[v].out \in OpenedBy(archJob[v]) /\ archJob[v].pc # "idle"
    BY <2>1, <2>2 DEF JobHeld
  <2>4. archJob[v].op # "restore"
    <3> SUFFICES ASSUME archJob[v].op = "restore" PROVE FALSE
      OBVIOUS
    <3>1. archJob[v].out = <<"live", "part">> /\ j.op = "restore"
      BY <1>3, <2>3 DEF OpenedBy
    <3>2. v \in Requesters /\ archJob[w].pc # "idle" /\ w \in Requesters
      BY <1>1, <1>2, <2>1, <3>1 DEF JobHeld, AllWorkers
    <3> QED
      BY <2>3, <3>2, OthersIdle
  <2>5. archJob[v].at # "live"
    BY <2>1, <2>2, JobsTyped, NamesThere DEF JobHeld
  <2>6. archJob[v].out = a => b \in OpenedBy(archJob[v])
    BY <1>3, <2>3, <2>4, <2>5 DEF OpenedBy
  <2> QED
    BY <1>4, <2>2, <2>4, <2>6 DEF OutFollows
<1>7. JobHeld(w)'
  <2>1. "remove" \in StepsOf(j.op) /\ archSaid \in 1..MaxSaid
    BY <1>1, <1>2, JobsTyped DEF StepsOf, WritingSteps, JobHeld
  <2> QED
    BY <1>1, <1>2, <1>3, <1>4, <2>1 DEF JobHeld
<1>8. /\ archFile' \in [Archives!Names -> {-1, 0} \cup 1..MaxSaid]
      /\ \A n \in Archives!Names : archFile'[n] <= archSaid
      /\ \A n \in Archives!Names \ {a, b} : archFile'[n] = archFile[n]
      /\ archFile'[b] = archFile[a]
  <2>1. archSaid \in 1..MaxSaid /\ a # b
    BY <1>3, JobsTyped
  <2> QED
    <3>1. \A n \in Archives!Names : archFile[n] <= archSaid
      BY <1>2 DEF FilesSound
    <3>2. archFile' = [archFile EXCEPT ![b] = archFile[a], ![a] = -1]
      BY <1>4
    <3> QED
      BY <1>3, <2>1, <3>1, <3>2, JobsTyped
<1>9. archFile'[<<j.at, "jsonl">>] = archFile[<<j.at, "jsonl">>]
  <2>1. <<j.at, "jsonl">> \in Archives!Names
    BY <1>2, NamesThere, WorksOn
  <2>2. a # <<j.at, "jsonl">> /\ b # <<j.at, "jsonl">>
    BY <1>3
  <2> QED
    BY <1>8, <2>1, <2>2
<1>10. \A n \in Archives!Names :
         n[1] # j.at /\ (j.op = "restore" => n[1] # "live") => archFile'[n] = archFile[n]
  BY <1>3, <1>8
<1>11. j.op = "restore" => Restoring(w)' /\ archFile'[<<"live", "jsonl">>] # 0
  <2> SUFFICES ASSUME j.op = "restore" PROVE Restoring(w)' /\ archFile'[<<"live", "jsonl">>] # 0
    OBVIOUS
  <2>1. Restoring(w)
    BY <1>2, WorksOn, ArchivesAssumption DEF ArchiveShape, RestoresWhole
  <2>2. archFile'[<<"live", "jsonl">>] = j.text /\ j.text # 0
    BY <1>1, <1>3, <1>8, <2>1 DEF Restoring
  <2>3. j.text # -1
    BY JobsTyped DEF Archives!Jobs, Archives!Versions
  <2> QED
    BY <1>1, <1>2, <1>4, <1>9, <2>1, <2>2, <2>3 DEF Restoring, WritingSteps
<1>12. archDropped' \subseteq Archives!Versions
  BY DEF ArchiveShape, Archives!TypeOK
<1> QED
  BY <1>1, <1>2, <1>4, <1>5, <1>6, <1>7, <1>8, <1>9, <1>10, <1>11, <1>12, WriterShape

(* A worker unlinks a file of its own.                                     *)
LEMMA UnlinkShape ==
  ASSUME ArchiveShape, NEW w \in AllWorkers, archJob[w].pc \in {"remove", "undo"},
         NEW n \in Archives!Names, Archives!UnlinkThen(n, w, "end"),
         n[1] = archJob[w].at \/ (archJob[w].op = "restore" /\ n = <<"live", "part">>),
         UNCHANGED <<archHolder, archTodo, archSaid, archUsed, archKills, archDropped>>,
         archTwice' \in BOOLEAN
  PROVE  ArchiveShape'
<1> DEFINE j == archJob[w]
<1>1. JobHeld(w) /\ FilesSound /\ j.pc \in WritingSteps /\ "end" \in Archives!Pcs
      /\ archSaid \in 1..MaxSaid
  BY JobsTyped DEF ArchiveShape, JobsHeld, WritingSteps, Archives!Pcs
<1>2. j.at \in archUsed /\ j.at \in Stamps /\ j.at # "live"
  BY <1>1, WorksOn
<1>3. /\ archJob' \in [AllWorkers -> Archives!Jobs]
      /\ \A v \in AllWorkers :
           /\ archJob'[v].op = archJob[v].op /\ archJob'[v].at = archJob[v].at
           /\ archJob'[v].pc = (IF v = w THEN "end" ELSE archJob[v].pc)
           /\ archJob'[v].text = archJob[v].text /\ archJob'[v].holed = archJob[v].holed
           /\ archJob'[v].out = IF archJob[v].out = n THEN Archives!Nowhere ELSE archJob[v].out
      /\ archFile' = [archFile EXCEPT ![n] = -1]
  BY <1>1, UnlinkThenJob
<1>4. OthersGoOn(w)
  BY <1>3 DEF OthersGoOn
<1>5. \A v \in AllWorkers \ {w} : OutFollows(v)
  <2> SUFFICES ASSUME NEW v \in AllWorkers \ {w}, archJob[v].out = n PROVE OutFollows(v)
    BY <1>3 DEF OutFollows
  <2>1. JobHeld(v) /\ n # Archives!Nowhere
    BY NamesThere DEF ArchiveShape, JobsHeld
  <2>2. archJob[v].op # "restore"
    <3> SUFFICES ASSUME archJob[v].op = "restore" PROVE FALSE
      OBVIOUS
    <3>1. n = <<"live", "part">> /\ j.op = "restore" /\ archJob[v].pc # "idle"
      BY <1>2, <2>1 DEF JobHeld, OpenedBy
    <3>2. v \in Requesters /\ w \in Requesters
      BY <1>1, <2>1, <3>1 DEF JobHeld, AllWorkers
    <3> QED
      BY <3>1, <3>2, OthersIdle
  <2> QED
    BY <1>3, <2>1, <2>2 DEF OutFollows
<1>6. archJob[w].out = Archives!Nowhere /\ archJob'[w].out = Archives!Nowhere
  BY <1>1, <1>3 DEF JobHeld
<1>7. JobHeld(w)'
  <2>1. "end" \in StepsOf(j.op)
    BY <1>1 DEF StepsOf, JobHeld, WritingSteps
  <2> QED
    BY <1>1, <1>3, <1>6, <2>1, WorksOn DEF JobHeld
<1>8. /\ archFile' \in [Archives!Names -> {-1, 0} \cup 1..MaxSaid]
      /\ \A m \in Archives!Names : archFile'[m] <= archSaid
      /\ \A m \in Archives!Names \ {n} : archFile'[m] = archFile[m]
      /\ \A m \in Archives!Names : archFile'[m] \in {archFile[m], -1}
  <2>1. \A m \in Archives!Names : archFile[m] <= archSaid
    BY <1>1 DEF FilesSound
  <2> QED
    BY <1>1, <1>3, <2>1, JobsTyped
<1>9. archFile'[<<j.at, "jsonl">>] \in {archFile[<<j.at, "jsonl">>], -1}
      /\ archFile'[<<"live", "jsonl">>] \in {archFile[<<"live", "jsonl">>], -1}
  BY <1>2, <1>8, NamesThere
<1>10. \A m \in Archives!Names :
         m[1] # j.at /\ (j.op = "restore" => m[1] # "live") => archFile'[m] = archFile[m]
  BY <1>8
<1>11. j.op = "restore" => Restoring(w)' /\ archFile'[<<"live", "jsonl">>] # 0
  BY <1>1, <1>3, <1>9 DEF Restoring, WritingSteps, FilesSound
<1>12. archDropped' \subseteq Archives!Versions
  BY DEF ArchiveShape, Archives!TypeOK
<1>13. archJob'[w].at = j.at /\ archJob'[w].op = j.op /\ archJob'[w].pc # "move"
  BY <1>3
<1> QED
  BY <1>1, <1>3, <1>4, <1>5, <1>7, <1>8, <1>9, <1>10, <1>11, <1>12, <1>13, WriterShape

LEMMA RemoveShape ==
  ASSUME ArchiveShape, NEW w \in AllWorkers, Archives!Remove(w) \/ Archives!Undo(w),
         UNCHANGED <<archHolder, archTodo, archSaid, archUsed, archKills, archDropped>>,
         archTwice' \in BOOLEAN
  PROVE  ArchiveShape'
<1> DEFINE j == archJob[w]
<1>1. j.pc \in {"remove", "undo"} /\ j.pc \in WritingSteps
  BY DEF Archives!Remove, Archives!Undo, WritingSteps
<1>2. PICK a \in Archives!Names, b \in Archives!Names, c \in Archives!Names :
           a = Archives!Source(j) /\ b = Archives!Target(j) /\ c = Archives!Part(j)
  BY <1>1, WorksOn
<1>3. /\ a[1] = j.at /\ (j.op # "restore" => b[1] = j.at)
      /\ c[1] = j.at \/ (j.op = "restore" /\ c = <<"live", "part">>)
  BY <1>1, <1>2, WorksOn
<1>4. CASE Archives!UnlinkThen(a, w, "end")
  BY <1>1, <1>3, <1>4, UnlinkShape
<1>5. CASE Archives!UnlinkThen(b, w, "end") /\ j.op # "restore"
  BY <1>1, <1>3, <1>5, UnlinkShape
<1>6. CASE Archives!UnlinkThen(c, w, "end")
  BY <1>1, <1>3, <1>6, UnlinkShape
<1>7. CASE Archives!Goto(w, "end") /\ UNCHANGED archFile
  <2>1. /\ archJob' \in [AllWorkers -> Archives!Jobs]
        /\ archJob'[w].op = archJob[w].op /\ archJob'[w].at = archJob[w].at
        /\ archJob'[w].pc = "end" /\ archJob'[w].text = archJob[w].text
        /\ archJob'[w].out = archJob[w].out
        /\ \A v \in AllWorkers \ {w} : archJob'[v] = archJob[v]
    BY <1>7, GotoJob DEF Archives!Pcs
  <2>2. OthersGoOn(w) /\ \A v \in AllWorkers \ {w} : OutFollows(v)
    BY <2>1 DEF OthersGoOn, OutFollows
  <2>3. JobHeld(w) /\ FilesSound /\ archSaid \in 1..MaxSaid
    BY JobsTyped DEF ArchiveShape, JobsHeld
  <2>4. JobHeld(w)'
    <3>1. "end" \in StepsOf(j.op)
      BY <1>1, <2>3 DEF StepsOf, JobHeld, WritingSteps
    <3> QED
      BY <1>1, <2>1, <2>3, <3>1, WorksOn DEF JobHeld
  <2>5. j.op = "restore" => Restoring(w)' /\ archFile'[<<"live", "jsonl">>] # 0
    BY <1>7, <2>1, <2>3 DEF Restoring, WritingSteps, FilesSound
  <2>6. archDropped' \subseteq Archives!Versions
        /\ archFile \in [Archives!Names -> {-1, 0} \cup 1..MaxSaid]
    BY JobsTyped DEF ArchiveShape, Archives!TypeOK
  <2>7. \A n \in Archives!Names : archFile[n] <= archSaid
    BY <2>3 DEF FilesSound
  <2> QED
    BY <1>1, <1>7, <2>1, <2>2, <2>4, <2>5, <2>6, <2>7, WriterShape
<1> QED
  BY <1>2, <1>4, <1>5, <1>6, <1>7 DEF Archives!Remove, Archives!Undo

LEMMA WriteShape ==
  ASSUME ArchiveShape, NEW w \in AllWorkers, Archives!Write(w)
  PROVE  ArchiveShape'
<1>1. UNCHANGED <<archHolder, archTodo, archSaid, archUsed, archKills, archDropped>>
      /\ archTwice' \in BOOLEAN
  BY DEF Archives!Write, Archives!serverVars, ArchiveShape, Archives!TypeOK
<1> QED
  BY <1>1, LooksShape, OpenShape, CopyShape, PlaceShape, RemoveShape
     DEF Archives!Write, Archives!WriteStep

(* Who moves or clears files is a request with the lock.                   *)
LEMMA MoverHolds ==
  ASSUME ArchiveShape, NEW w \in AllWorkers, archJob[w].pc \in {"move", "back", "clear"}
  PROVE  /\ w \in Requesters /\ archHolder = w /\ JobHeld(w) /\ FilesSound
         /\ archJob[w].at \in archUsed /\ archJob[w].at \in Stamps /\ archJob[w].at # "live"
         /\ archJob[w].out = Archives!Nowhere
         /\ archJob[w].op = (IF archJob[w].pc = "move" THEN "archive"
                             ELSE IF archJob[w].pc = "back" THEN "restore" ELSE "delete")
<1>1. JobHeld(w) /\ FilesSound
  BY DEF ArchiveShape, JobsHeld
<1>2. w # Sweeper
  BY <1>1 DEF JobHeld, StepsOf, WritingSteps
<1>3. archJob[w].at \in archUsed /\ archJob[w].at \in Stamps /\ archJob[w].at # "live"
  BY <1>1, JobsTyped, NamesThere DEF JobHeld
<1> QED
  BY <1>1, <1>2, <1>3 DEF JobHeld, StepsOf, WritingSteps, AllWorkers

(* It finds nothing to do.                                                 *)
LEMMA MoveEnds ==
  ASSUME ArchiveShape, NEW w \in AllWorkers, archJob[w].pc \in {"move", "back", "clear"},
         Archives!Goto(w, "end") /\ UNCHANGED archFile,
         UNCHANGED <<archHolder, archTodo, archSaid, archUsed, archKills, archDropped, archTwice>>
  PROVE  ArchiveShape'
<1>1. /\ archJob' \in [AllWorkers -> Archives!Jobs]
      /\ archJob'[w].op = archJob[w].op /\ archJob'[w].at = archJob[w].at
      /\ archJob'[w].pc = "end" /\ archJob'[w].text = archJob[w].text
      /\ archJob'[w].out = archJob[w].out
      /\ \A v \in AllWorkers \ {w} : archJob'[v] = archJob[v]
  BY GotoJob DEF Archives!Pcs
<1>2. OthersGoOn(w) /\ \A v \in AllWorkers \ {w} : OutFollows(v)
  BY <1>1 DEF OthersGoOn, OutFollows
<1>3. JobHeld(w)'
  BY <1>1, MoverHolds DEF JobHeld, StepsOf
<1>4. Restoring(w)'
  BY <1>1 DEF Restoring, WritingSteps
<1>5. FilesSound' /\ archFile' \in [Archives!Names -> {-1, 0} \cup 1..MaxSaid]
      /\ archDropped' \subseteq Archives!Versions /\ archTwice' \in BOOLEAN
  BY MoverHolds, JobsTyped DEF FilesSound, ArchiveShape, Archives!TypeOK
<1> QED
  BY <1>1, <1>2, <1>3, <1>4, <1>5, MoverHolds, RequestShape

(* A transcript is renamed, to an archive or back.                         *)
LEMMA RenamesShape ==
  ASSUME ArchiveShape, NEW w \in AllWorkers, archJob[w].pc \in {"move", "back"},
         NEW a \in Archives!Names, NEW b \in Archives!Names, NEW pc1 \in {"stat", "end"},
         Archives!RenameThen(a, b, w, pc1), archFile[a] # -1,
         IF archJob[w].pc = "move" THEN a = <<"live", "jsonl">> /\ b = <<archJob[w].at, "jsonl">>
         ELSE a = <<archJob[w].at, "jsonl">> /\ b = <<"live", "jsonl">> /\ pc1 = "end",
         UNCHANGED <<archHolder, archTodo, archSaid, archUsed, archKills, archDropped, archTwice>>
  PROVE  ArchiveShape'
<1> DEFINE j == archJob[w]
<1>0. pc1 \in Archives!Pcs /\ archSaid \in 1..MaxSaid /\ a # b
  BY JobsTyped, MoverHolds DEF Archives!Pcs
<1>1. /\ archJob' \in [AllWorkers -> Archives!Jobs]
      /\ OutputClosed(w, pc1)
      /\ \A v \in AllWorkers \ {w} :
              /\ archJob'[v].op = archJob[v].op /\ archJob'[v].at = archJob[v].at
              /\ archJob'[v].pc = archJob[v].pc /\ archJob'[v].text = archJob[v].text
              /\ archJob'[v].holed = archJob[v].holed
              /\ archJob'[v].out = IF archJob[v].out = a THEN b
                                   ELSE IF archJob[v].out = b THEN Archives!Nowhere
                                   ELSE archJob[v].out
      /\ archFile' = [archFile EXCEPT ![b] = archFile[a], ![a] = -1]
  BY <1>0, RenameThenJob
<1>2. /\ archJob'[w].op = j.op /\ archJob'[w].at = j.at /\ archJob'[w].pc = pc1
      /\ archJob'[w].text = 0 /\ archJob'[w].out = Archives!Nowhere
  BY <1>1 DEF OutputClosed
<1>3. \A v \in AllWorkers : archJob[v].out \notin {a, b}
  <2> SUFFICES ASSUME NEW v \in AllWorkers, archJob[v].out \in {a, b} PROVE FALSE
    OBVIOUS
  <2>1. JobHeld(v)
    BY DEF ArchiveShape, JobsHeld
  <2>2. archJob[v].out[2] = "jsonl" /\ archJob[v].out # Archives!Nowhere
    BY NamesThere
  <2>3. archJob[v].out \in OpenedBy(archJob[v])
    BY <2>1, <2>2 DEF JobHeld
  <2> QED
    BY <2>2, <2>3 DEF OpenedBy
<1>4. OthersGoOn(w) /\ \A v \in AllWorkers \ {w} : OutFollows(v)
  BY <1>1, <1>3 DEF OthersGoOn, OutFollows
<1>5. JobHeld(w)'
  <2>1. pc1 \in StepsOf(j.op)
    BY MoverHolds DEF StepsOf, WritingSteps
  <2> QED
    BY <1>0, <1>2, <2>1, MoverHolds DEF JobHeld
<1>6. /\ archFile' \in [Archives!Names -> {-1, 0} \cup 1..MaxSaid]
      /\ \A m \in Archives!Names \ {a, b} : archFile'[m] = archFile[m]
      /\ archFile'[a] = -1 /\ archFile'[b] = archFile[a]
  BY <1>0, <1>1, JobsTyped
<1>7. FilesSound'
  <2>1. FilesSound /\ archFile[a] # 0
    BY MoverHolds DEF FilesSound
  <2>2. \A m \in Archives!Names : archFile'[m] <= archSaid
    BY <1>0, <1>6, <2>1 DEF FilesSound
  <2>3. archFile'[<<"live", "jsonl">>] # 0
    BY <1>6, <2>1
  <2>4. ASSUME NEW t \in Stamps PROVE archFile'[<<t, "jsonl">>] # 0
    <3>1. <<t, "jsonl">> \in Archives!Names /\ archFile[<<t, "jsonl">>] # 0
      BY <2>1, NamesThere DEF FilesSound
    <3> QED
      BY <1>6, <2>1, <3>1
  <2>5. ASSUME NEW t \in Stamps \ archUsed, NEW k \in Archives!Kinds
        PROVE  archFile'[<<t, k>>] = -1
    <3>1. <<t, k>> \in Archives!Names /\ archFile[<<t, k>>] = -1
      BY <2>1, NamesThere DEF FilesSound, Archives!Kinds
    <3>2. <<t, k>> # a /\ <<t, k>> # b
      BY NamesThere, MoverHolds
    <3> QED
      BY <1>6, <3>1, <3>2
  <2> QED
    BY <2>2, <2>3, <2>4, <2>5 DEF FilesSound
<1>8. Restoring(w)'
  BY <1>2, MoverHolds DEF Restoring, WritingSteps
<1>9. archDropped' \subseteq Archives!Versions /\ archTwice' \in BOOLEAN /\ pc1 # "move"
      /\ j.pc # "idle"
  BY DEF ArchiveShape, Archives!TypeOK
<1> QED
  BY <1>1, <1>2, <1>4, <1>5, <1>6, <1>7, <1>8, <1>9, MoverHolds, RequestShape

LEMMA ClearShape ==
  ASSUME ArchiveShape, NEW w \in AllWorkers, archJob[w].pc = "clear",
         NEW n \in Archives!Names, n[1] = archJob[w].at, Archives!Unlink(n),
         UNCHANGED <<archHolder, archTodo, archSaid, archUsed, archKills, archDropped, archTwice>>
  PROVE  ArchiveShape'
<1> DEFINE j == archJob[w]
<1>1. /\ archJob' \in [AllWorkers -> Archives!Jobs]
      /\ \A v \in AllWorkers :
              /\ archJob'[v].op = archJob[v].op /\ archJob'[v].at = archJob[v].at
              /\ archJob'[v].pc = archJob[v].pc /\ archJob'[v].text = archJob[v].text
              /\ archJob'[v].holed = archJob[v].holed
              /\ archJob'[v].out = IF archJob[v].out = n THEN Archives!Nowhere ELSE archJob[v].out
      /\ archFile' = [archFile EXCEPT ![n] = -1]
  BY UnlinkJob
<1>2. OthersGoOn(w)
  BY <1>1 DEF OthersGoOn
<1>3. \A v \in AllWorkers \ {w} : OutFollows(v)
  <2> SUFFICES ASSUME NEW v \in AllWorkers \ {w}, archJob[v].out = n PROVE OutFollows(v)
    BY <1>1 DEF OutFollows
  <2>1. JobHeld(v) /\ n # Archives!Nowhere /\ n[1] # "live"
    BY NamesThere, MoverHolds DEF ArchiveShape, JobsHeld
  <2>2. archJob[v].op # "restore"
    BY <2>1 DEF JobHeld, OpenedBy
  <2> QED
    BY <1>1, <2>1, <2>2 DEF OutFollows
<1>4. JobHeld(w)'
  BY <1>1, MoverHolds DEF JobHeld, OpenedBy
<1>5. /\ archFile' \in [Archives!Names -> {-1, 0} \cup 1..MaxSaid]
      /\ \A m \in Archives!Names : archFile'[m] \in {archFile[m], -1}
  BY <1>1, JobsTyped
<1>6. FilesSound'
  <2>1. FilesSound /\ archSaid \in 1..MaxSaid
    BY MoverHolds, JobsTyped
  <2>2. \A m \in Archives!Names : archFile'[m] <= archSaid
    <3>1. \A m \in Archives!Names : archFile[m] <= archSaid
      BY <2>1 DEF FilesSound
    <3> QED
      BY <1>5, <2>1, <3>1
  <2>3. archFile'[<<"live", "jsonl">>] # 0
    <3>1. <<"live", "jsonl">> \in Archives!Names /\ archFile[<<"live", "jsonl">>] # 0
      BY <2>1, NamesThere DEF FilesSound
    <3> QED
      BY <1>5, <3>1
  <2>5. ASSUME NEW t \in Stamps PROVE archFile'[<<t, "jsonl">>] # 0
    <3>1. <<t, "jsonl">> \in Archives!Names /\ archFile[<<t, "jsonl">>] # 0
      BY <2>1, NamesThere DEF FilesSound
    <3> QED
      BY <1>5, <3>1
  <2>4. \A t \in Stamps \ archUsed, k \in Archives!Kinds : archFile'[<<t, k>>] = -1
    BY <1>5, <2>1, NamesThere DEF FilesSound, Archives!Kinds
  <2> QED
    BY <2>2, <2>3, <2>4, <2>5 DEF FilesSound
<1>7. Restoring(w)'
  BY <1>1, MoverHolds DEF Restoring, WritingSteps
<1>8. archDropped' \subseteq Archives!Versions /\ archTwice' \in BOOLEAN
      /\ archJob'[w].pc # "move" /\ j.pc # "idle"
  BY <1>1 DEF ArchiveShape, Archives!TypeOK
<1> QED
  BY <1>1, <1>2, <1>3, <1>4, <1>5, <1>6, <1>7, <1>8, MoverHolds, RequestShape

LEMMA MoveShape ==
  ASSUME ArchiveShape, NEW w \in AllWorkers, Archives!Move(w)
  PROVE  ArchiveShape'
<1>1. UNCHANGED <<archHolder, archTodo, archSaid, archUsed, archKills, archDropped, archTwice>>
  BY DEF Archives!Move, Archives!serverVars, Archives!history
<1>2. CASE Archives!MoveAway(w)
  <2>1. archJob[w].pc = "move"
    BY <1>2 DEF Archives!MoveAway
  <2>2. PICK a \in Archives!Names, b \in Archives!Names :
             a = <<"live", "jsonl">> /\ b = <<archJob[w].at, "jsonl">>
    BY <2>1, MoverHolds, NamesThere
  <2>3. CASE archFile[a] # -1 /\ Archives!RenameThen(a, b, w, "stat")
    BY <1>1, <2>1, <2>2, <2>3, RenamesShape
  <2>4. CASE Archives!Goto(w, "end") /\ UNCHANGED archFile
    BY <1>1, <2>1, <2>4, MoveEnds
  <2> QED
    BY <1>2, <2>2, <2>3, <2>4 DEF Archives!MoveAway
<1>3. CASE Archives!PutBack(w)
  <2>1. archJob[w].pc = "back"
    BY <1>3 DEF Archives!PutBack
  <2>2. PICK a \in Archives!Names, b \in Archives!Names :
             b = <<"live", "jsonl">> /\ a = <<archJob[w].at, "jsonl">>
    BY <2>1, MoverHolds, NamesThere
  <2>3. CASE archFile[a] # -1 /\ Archives!RenameThen(a, b, w, "end")
    BY <1>1, <2>1, <2>2, <2>3, RenamesShape
  <2>4. CASE Archives!Goto(w, "end") /\ UNCHANGED archFile
    BY <1>1, <2>1, <2>4, MoveEnds
  <2> QED
    BY <1>3, <2>2, <2>3, <2>4 DEF Archives!PutBack
<1>4. CASE Archives!Clear(w)
  <2>1. archJob[w].pc = "clear"
    BY <1>4 DEF Archives!Clear
  <2>2. PICK k \in {"jsonl", "gz", "part"} : Archives!Unlink(<<archJob[w].at, k>>)
    BY <1>4 DEF Archives!Clear, Archives!Kinds
  <2>3. PICK n \in Archives!Names : n = <<archJob[w].at, k>>
    BY <2>1, MoverHolds, NamesThere
  <2> QED
    BY <1>1, <2>1, <2>2, <2>3, ClearShape
<1>5. CASE Archives!ClearEnds(w)
  BY <1>1, <1>5, MoveEnds DEF Archives!ClearEnds
<1> QED
  BY <1>2, <1>3, <1>4, <1>5 DEF Archives!Move

(* Requests that take the lock, look, and let it go.                       *)
LEMMA TakeShape ==
  ASSUME ArchiveShape, NEW r \in Requesters, NEW op \in {"archive", "restore", "delete"},
         NEW s \in Archives!Places, Archives!Take(r, op, s)
  PROVE  ArchiveShape'
<1> DEFINE next == [Archives!Idle EXCEPT !.op = op, !.pc = "look", !.at = s]
<1>1. /\ archHolder = "nobody" /\ archHolder' = r /\ archJob' = [archJob EXCEPT ![r] = next]
      /\ (IF op = "archive" THEN s = "live" ELSE s \in archUsed)
      /\ UNCHANGED <<archFile, archTodo, archSaid, archUsed, archKills, archDropped, archTwice>>
  BY DEF Archives!Take, Archives!history
<1>2. /\ next \in Archives!Jobs /\ next.op = op /\ next.pc = "look" /\ next.at = s
      /\ next.out = Archives!Nowhere /\ next.text = 0
  BY IdleJob DEF Archives!Idle, Archives!Jobs, Archives!Ops, Archives!Pcs
<1> HIDE DEF next
<1>3. r \in AllWorkers /\ r # Sweeper /\ archSaid \in 1..MaxSaid /\ archUsed \subseteq Stamps
      /\ Sweeper \in AllWorkers /\ Requesters \subseteq AllWorkers
  BY ArchivesAssumption, JobsTyped DEF AllWorkers
<1>4. /\ archJob' \in [AllWorkers -> Archives!Jobs] /\ archJob'[r] = next
      /\ \A v \in AllWorkers \ {r} : archJob'[v] = archJob[v]
  BY <1>1, <1>2, <1>3, JobsTyped
<1>5. \A q \in Requesters : archJob[q].pc = "idle"
  BY <1>1, ArchivesAssumption DEF ArchiveShape, JobsHeld, JobHeld, AllWorkers
<1>6. Archives!TypeOK'
  BY <1>1, <1>4 DEF ArchiveShape, Archives!TypeOK, Archives!FilesOK, AllWorkers
<1>7. JobsHeld'
  <2>1. JobHeld(r)'
    BY <1>1, <1>2, <1>3, <1>4 DEF JobHeld, StepsOf
  <2>2. ASSUME NEW v \in AllWorkers \ {r} PROVE JobHeld(v)'
    <3>1. JobHeld(v) /\ (v # Sweeper => archJob[v].pc = "idle")
      BY <1>5 DEF ArchiveShape, JobsHeld, AllWorkers
    <3> QED
      BY <1>1, <1>4, <3>1 DEF JobHeld, OpenedBy, StepsOf
  <2>3. archTodo' \subseteq archUsed'
    BY <1>1 DEF ArchiveShape, JobsHeld
  <2> QED
    BY <2>1, <2>2, <2>3 DEF JobsHeld
<1>8. FilesSound'
  BY <1>1 DEF ArchiveShape, FilesSound
<1>9. \A q \in Requesters : archJob'[q].pc \in {"idle", "look"}
  BY <1>2, <1>3, <1>4, <1>5
<1>10. MovesToNew' /\ RestoresWhole'
  BY <1>9 DEF MovesToNew, RestoresWhole, Restoring, WritingSteps
<1> QED
  BY <1>6, <1>7, <1>8, <1>10 DEF ArchiveShape

LEMMA LookShape ==
  ASSUME ArchiveShape, NEW r \in Requesters,
         Archives!LookToRestore(r) \/ Archives!LookToDelete(r)
  PROVE  ArchiveShape'
<1> DEFINE j == archJob[r]
<1>1. /\ j.pc = "look" /\ UNCHANGED <<archFile, archHolder, archTodo, archSaid, archUsed, archKills, archTwice>>
  BY DEF Archives!LookToRestore, Archives!LookToDelete, Archives!serverVars, Archives!history
<1>2. archDropped' \subseteq Archives!Versions /\ archTwice' \in BOOLEAN
  BY DEF Archives!LookToRestore, Archives!LookToDelete, Archives!serverVars, Archives!history,
         ArchiveShape, Archives!TypeOK
<1>3. r \in AllWorkers /\ r # Sweeper
  BY ArchivesAssumption DEF AllWorkers
<1>4. JobHeld(r) /\ FilesSound
  BY <1>3 DEF ArchiveShape, JobsHeld
<1>5. PICK pc1 \in {"end", "back", "stat", "clear"} :
        /\ Archives!Goto(r, pc1)
        /\ pc1 \in {"back", "stat"} => /\ j.op = "restore" /\ archFile[<<"live", "jsonl">>] = -1
                                       /\ pc1 = "stat" => archFile[<<j.at, "jsonl">>] = -1
        /\ pc1 = "clear" => j.op = "delete"
  <2>1. CASE Archives!LookToRestore(r)
    <3> DEFINE found == IF ~Archives!There(Archives!Listed(j.at)) \/ Archives!There(Archives!Transcript)
                        THEN "end"
                        ELSE IF Archives!Listed(j.at) = Archives!Plain(j.at) THEN "back" ELSE "stat"
    <3>1. j.op = "restore" /\ Archives!Goto(r, found)
      BY <2>1 DEF Archives!LookToRestore
    <3>2. CASE found = "end"
      BY <3>1, <3>2
    <3>3. CASE found = "back"
      BY <3>1, <3>3
    <3>4. CASE found = "stat"
      BY <3>1, <3>4 DEF Archives!Listed
    <3> QED
      BY <3>2, <3>3, <3>4
  <2>2. CASE Archives!LookToDelete(r)
    BY <2>2 DEF Archives!LookToDelete
  <2> QED
    BY <2>1, <2>2
<1>6. /\ archJob' \in [AllWorkers -> Archives!Jobs]
      /\ archJob'[r].op = archJob[r].op /\ archJob'[r].at = archJob[r].at
      /\ archJob'[r].pc = pc1 /\ archJob'[r].text = archJob[r].text
      /\ archJob'[r].out = archJob[r].out
      /\ \A v \in AllWorkers \ {r} : archJob'[v] = archJob[v]
  BY <1>3, <1>5, GotoJob DEF Archives!Pcs
<1>7. OthersGoOn(r) /\ \A v \in AllWorkers \ {r} : OutFollows(v)
  BY <1>6 DEF OthersGoOn, OutFollows
<1>8. JobHeld(r)'
  <2>1. pc1 \in StepsOf(j.op)
    BY <1>1, <1>3, <1>4, <1>5 DEF JobHeld, StepsOf, WritingSteps
  <2>2. j.op \in {"restore", "delete"}
    BY DEF Archives!LookToRestore, Archives!LookToDelete
  <2> QED
    BY <1>1, <1>3, <1>4, <1>6, <2>1, <2>2 DEF JobHeld
<1>9. Restoring(r)'
  BY <1>1, <1>5, <1>6 DEF Restoring, WritingSteps
<1>10. FilesSound' /\ archFile' \in [Archives!Names -> {-1, 0} \cup 1..MaxSaid]
  BY <1>1, <1>4, JobsTyped DEF FilesSound
<1>11. j.pc # "idle" /\ archJob'[r].pc # "move"
  BY <1>1, <1>5, <1>6
<1> QED
  BY <1>1, <1>2, <1>6, <1>7, <1>8, <1>9, <1>10, <1>11, RequestShape

LEMMA ArchiveLookShape ==
  ASSUME ArchiveShape, NEW r \in Requesters, Archives!LookToArchive(r)
  PROVE  ArchiveShape'
<1> DEFINE j == archJob[r]
<1>1. /\ j.pc = "look" /\ j.op = "archive"
      /\ UNCHANGED <<archFile, archHolder, archTodo, archSaid, archKills, archDropped, archTwice>>
  BY DEF Archives!LookToArchive, Archives!history
<1>2. r \in AllWorkers /\ r # Sweeper /\ Sweeper \in AllWorkers /\ Requesters \subseteq AllWorkers
      /\ JobHeld(r) /\ FilesSound /\ archUsed \subseteq Stamps
  BY ArchivesAssumption, JobsTyped DEF AllWorkers, ArchiveShape, JobsHeld
<1>3. ASSUME NEW s \in Stamps \ archUsed, archJob' = [archJob EXCEPT ![r].pc = "move", ![r].at = s],
             archUsed' = archUsed \cup {s}
      PROVE  ArchiveShape'
  <2>1. archJob[r] \in Archives!Jobs /\ s \in Archives!Places /\ "move" \in Archives!Pcs
    BY <1>2, JobsTyped DEF Archives!Places, Archives!Pcs
  <2>2. /\ archJob' \in [AllWorkers -> Archives!Jobs]
        /\ archJob'[r].op = "archive" /\ archJob'[r].at = s /\ archJob'[r].pc = "move"
        /\ archJob'[r].text = j.text /\ archJob'[r].out = j.out
        /\ \A v \in AllWorkers \ {r} : archJob'[v] = archJob[v]
    BY <1>1, <1>2, <1>3, <2>1, JobsTyped DEF Archives!Jobs
  <2>3. Archives!TypeOK'
    BY <1>1, <1>2, <1>3, <2>2
       DEF ArchiveShape, Archives!TypeOK, Archives!FilesOK, AllWorkers
  <2>4. JobsHeld'
    <3>1. JobHeld(r)'
      BY <1>1, <1>2, <1>3, <2>2 DEF JobHeld, StepsOf
    <3>2. ASSUME NEW v \in AllWorkers \ {r} PROVE JobHeld(v)'
      <4>1. JobHeld(v)
        BY DEF ArchiveShape, JobsHeld
      <4> QED
        BY <1>1, <1>3, <2>2, <4>1 DEF JobHeld, OpenedBy, StepsOf
    <3>3. archTodo' \subseteq archUsed'
      BY <1>1, <1>3 DEF ArchiveShape, JobsHeld
    <3> QED
      BY <3>1, <3>2, <3>3 DEF JobsHeld
  <2>5. FilesSound'
    BY <1>1, <1>2, <1>3 DEF FilesSound
  <2>6. MovesToNew'
    <3> SUFFICES ASSUME NEW q \in Requesters, archJob'[q].pc = "move"
                 PROVE  /\ \A k \in Archives!Kinds : archFile'[<<archJob'[q].at, k>>] = -1
                        /\ archJob'[q].at \notin archTodo'
                        /\ archJob'[Sweeper].at # archJob'[q].at
      BY DEF MovesToNew
    <3>1. q = r
      BY <1>1, <1>2, <2>2, OthersIdle
    <3>2. archJob'[Sweeper].at \in archUsed \cup {"live"}
      BY <1>2, <2>2 DEF ArchiveShape, JobsHeld, JobHeld
    <3>3. s \notin archTodo /\ s # "live"
      BY <1>3, NamesThere DEF ArchiveShape, JobsHeld
    <3> QED
      BY <1>1, <1>2, <2>2, <3>1, <3>2, <3>3 DEF FilesSound
  <2>7. RestoresWhole'
    <3> SUFFICES ASSUME NEW q \in Requesters PROVE Restoring(q)'
      BY DEF RestoresWhole
    <3>1. archJob'[q].op # "restore" \/ archJob'[q].pc = "idle"
      BY <1>1, <1>2, <2>2, OthersIdle
    <3> QED
      BY <3>1 DEF Restoring, WritingSteps
  <2> QED
    BY <2>3, <2>4, <2>5, <2>6, <2>7 DEF ArchiveShape
<1>4. CASE Archives!Goto(r, "end") /\ UNCHANGED archUsed
  <2>1. /\ archJob' \in [AllWorkers -> Archives!Jobs]
        /\ archJob'[r].op = j.op /\ archJob'[r].at = j.at
        /\ archJob'[r].pc = "end" /\ archJob'[r].text = j.text
        /\ archJob'[r].out = j.out
        /\ \A v \in AllWorkers \ {r} : archJob'[v] = archJob[v]
    BY <1>2, <1>4, GotoJob DEF Archives!Pcs
  <2>2. OthersGoOn(r) /\ \A v \in AllWorkers \ {r} : OutFollows(v)
    BY <2>1 DEF OthersGoOn, OutFollows
  <2>3. JobHeld(r)'
    BY <1>1, <1>2, <1>4, <2>1 DEF JobHeld, StepsOf
  <2>4. Restoring(r)'
    BY <1>1, <2>1 DEF Restoring
  <2>5. FilesSound' /\ archFile' \in [Archives!Names -> {-1, 0} \cup 1..MaxSaid]
        /\ archDropped' \subseteq Archives!Versions /\ archTwice' \in BOOLEAN
    BY <1>1, <1>2, <1>4, JobsTyped DEF FilesSound, ArchiveShape, Archives!TypeOK
  <2> QED
    BY <1>1, <1>4, <2>1, <2>2, <2>3, <2>4, <2>5, RequestShape
<1> QED
  BY <1>3, <1>4 DEF Archives!LookToArchive

LEMMA FinishShape ==
  ASSUME ArchiveShape, NEW r \in Requesters, Archives!Finish(r)
  PROVE  ArchiveShape'
<1>1. /\ archJob[r].pc = "end" /\ archHolder' = "nobody"
      /\ archJob' = [archJob EXCEPT ![r] = Archives!Idle]
      /\ UNCHANGED <<archFile, archTodo, archSaid, archUsed, archKills, archDropped, archTwice>>
  BY DEF Archives!Finish, Archives!history
<1>2. r \in AllWorkers /\ r # Sweeper /\ archSaid \in 1..MaxSaid
      /\ Sweeper \in AllWorkers /\ Requesters \subseteq AllWorkers
  BY ArchivesAssumption, JobsTyped DEF AllWorkers
<1>3. /\ archJob' \in [AllWorkers -> Archives!Jobs] /\ archJob'[r] = Archives!Idle
      /\ \A v \in AllWorkers \ {r} : archJob'[v] = archJob[v]
  BY <1>1, <1>2, IdleJob, JobsTyped
<1>4. \A q \in Requesters : archJob'[q].pc = "idle"
  BY <1>1, <1>2, <1>3, OthersIdle DEF Archives!Idle
<1>5. Archives!TypeOK'
  BY <1>1, <1>3 DEF ArchiveShape, Archives!TypeOK, Archives!FilesOK, AllWorkers
<1>6. JobsHeld'
  <2>1. JobHeld(r)'
    BY <1>1, <1>2, <1>3 DEF JobHeld, Archives!Idle
  <2>2. ASSUME NEW v \in AllWorkers \ {r} PROVE JobHeld(v)'
    <3>1. JobHeld(v) /\ (v # Sweeper => archJob[v].pc = "idle")
      BY <1>2, <1>3, <1>4 DEF ArchiveShape, JobsHeld, AllWorkers
    <3> QED
      BY <1>1, <1>3, <3>1 DEF JobHeld, OpenedBy, StepsOf
  <2>3. archTodo' \subseteq archUsed'
    BY <1>1 DEF ArchiveShape, JobsHeld
  <2> QED
    BY <2>1, <2>2, <2>3 DEF JobsHeld
<1>7. FilesSound'
  BY <1>1 DEF ArchiveShape, FilesSound
<1>8. MovesToNew' /\ RestoresWhole'
  BY <1>4 DEF MovesToNew, RestoresWhole, Restoring, WritingSteps
<1> QED
  BY <1>5, <1>6, <1>7, <1>8 DEF ArchiveShape

(* The sweeper takes the next archive, or is done.                         *)
LEMMA SweepShape ==
  ASSUME ArchiveShape, Archives!SweepList \/ Archives!SweepNext \/ Archives!SweepDone
  PROVE  ArchiveShape'
<1>1. /\ UNCHANGED <<archFile, archHolder, archSaid, archUsed, archKills, archDropped, archTwice>>
      /\ archTodo' \subseteq archUsed /\ archTodo' \subseteq Stamps
  <2>1. archTodo \subseteq archUsed /\ archUsed \subseteq Stamps
    BY JobsTyped DEF ArchiveShape, JobsHeld
  <2>2. \A s \in Stamps : archFile[<<s, "jsonl">>] # -1 => s \in archUsed
    BY DEF ArchiveShape, FilesSound, Archives!Kinds
  <2> QED
    BY <2>1, <2>2 DEF Archives!SweepList, Archives!SweepNext, Archives!SweepDone,
       Archives!serverVars, Archives!history
<1>2. /\ Sweeper \in AllWorkers /\ Requesters \subseteq AllWorkers /\ Sweeper \notin Requesters
      /\ JobHeld(Sweeper) /\ archSaid \in 1..MaxSaid
  BY ArchivesAssumption, JobsTyped DEF AllWorkers, ArchiveShape, JobsHeld
<1>3. /\ archJob' \in [AllWorkers -> Archives!Jobs]
      /\ \A v \in AllWorkers \ {Sweeper} : archJob'[v] = archJob[v]
      /\ JobHeld(Sweeper)'
      /\ archJob'[Sweeper].at \in {archJob[Sweeper].at, "live"} \cup archTodo
      /\ archTodo' \subseteq archTodo \/ archJob[Sweeper].pc = "look"
      /\ archJob'[Sweeper].at \in {archJob[Sweeper].at, "live"} \/ archJob[Sweeper].pc = "end"
  <2>1. CASE Archives!SweepList
    <3>1. Archives!Goto(Sweeper, "end") /\ archJob[Sweeper].pc = "look" /\ "end" \in Archives!Pcs
      BY <2>1 DEF Archives!SweepList, Archives!Pcs
    <3>2. /\ archJob' \in [AllWorkers -> Archives!Jobs]
          /\ archJob'[Sweeper].op = archJob[Sweeper].op /\ archJob'[Sweeper].at = archJob[Sweeper].at
          /\ archJob'[Sweeper].pc = "end" /\ archJob'[Sweeper].text = archJob[Sweeper].text
          /\ archJob'[Sweeper].out = archJob[Sweeper].out
          /\ \A v \in AllWorkers \ {Sweeper} : archJob'[v] = archJob[v]
      BY <1>2, <3>1, GotoJob
    <3>3. JobHeld(Sweeper)'
      BY <1>1, <1>2, <3>1, <3>2 DEF JobHeld, StepsOf
    <3> QED
      BY <3>1, <3>2, <3>3
  <2>2. CASE Archives!SweepNext
    <3>1. PICK s \in archTodo :
            /\ archJob' = [archJob EXCEPT ![Sweeper] =
                             [Archives!Idle EXCEPT !.op = "sweep", !.pc = "stat", !.at = s]]
            /\ archTodo' = archTodo \ {s}
      BY <2>2 DEF Archives!SweepNext
    <3>2. s \in Archives!Places /\ s \in archUsed
      BY JobsTyped DEF Archives!Places, ArchiveShape, JobsHeld
    <3> DEFINE next == [Archives!Idle EXCEPT !.op = "sweep", !.pc = "stat", !.at = s]
    <3>3. /\ next \in Archives!Jobs /\ next.op = "sweep" /\ next.pc = "stat" /\ next.at = s
          /\ next.out = Archives!Nowhere /\ next.text = 0
      BY <3>2, IdleJob DEF Archives!Idle, Archives!Jobs, Archives!Ops, Archives!Pcs
    <3> HIDE DEF next
    <3>4. /\ archJob' \in [AllWorkers -> Archives!Jobs] /\ archJob'[Sweeper] = next
          /\ \A v \in AllWorkers \ {Sweeper} : archJob'[v] = archJob[v]
      BY <1>2, <3>1, <3>3, JobsTyped DEF next
    <3>5. JobHeld(Sweeper)'
      BY <1>1, <1>2, <3>2, <3>3, <3>4 DEF JobHeld, StepsOf, WritingSteps
    <3> QED
      BY <2>2, <3>1, <3>3, <3>4, <3>5 DEF Archives!SweepNext
  <2>3. CASE Archives!SweepDone
    <3>1. archJob' = [archJob EXCEPT ![Sweeper] = Archives!Idle] /\ archTodo' = archTodo
      BY <2>3 DEF Archives!SweepDone, Archives!serverVars
    <3>2. /\ archJob' \in [AllWorkers -> Archives!Jobs] /\ archJob'[Sweeper] = Archives!Idle
          /\ \A v \in AllWorkers \ {Sweeper} : archJob'[v] = archJob[v]
      BY <1>2, <3>1, IdleJob, JobsTyped
    <3>3. JobHeld(Sweeper)'
      BY <1>1, <1>2, <3>2 DEF JobHeld, Archives!Idle
    <3> QED
      BY <3>1, <3>2, <3>3 DEF Archives!Idle
  <2> QED
    BY <2>1, <2>2, <2>3
<1>4. Archives!TypeOK'
  BY <1>1, <1>3 DEF ArchiveShape, Archives!TypeOK, Archives!FilesOK, AllWorkers
<1>5. JobsHeld'
  <2>1. ASSUME NEW v \in AllWorkers \ {Sweeper} PROVE JobHeld(v)'
    <3>1. JobHeld(v)
      BY DEF ArchiveShape, JobsHeld
    <3> QED
      BY <1>1, <1>3, <3>1 DEF JobHeld, OpenedBy, StepsOf
  <2> QED
    BY <1>1, <1>3, <2>1 DEF JobsHeld
<1>6. FilesSound'
  BY <1>1 DEF ArchiveShape, FilesSound
<1>7. MovesToNew'
  <2> SUFFICES ASSUME NEW r \in Requesters, archJob[r].pc = "move"
               PROVE  /\ \A k \in Archives!Kinds : archFile[<<archJob[r].at, k>>] = -1
                      /\ archJob[r].at \notin archTodo'
                      /\ archJob'[Sweeper].at # archJob[r].at
    BY <1>1, <1>2, <1>3 DEF MovesToNew
  <2>1. /\ \A k \in Archives!Kinds : archFile[<<archJob[r].at, k>>] = -1
        /\ archJob[r].at \notin archTodo /\ archJob[Sweeper].at # archJob[r].at
    BY DEF ArchiveShape, MovesToNew
  <2>2. archJob[r].at \in Stamps /\ archJob[r].at # "live"
    BY <1>2, JobsTyped, NamesThere DEF ArchiveShape, JobsHeld, JobHeld
  <2>3. archJob'[Sweeper].at # archJob[r].at
    BY <1>3, <2>1, <2>2
  <2>4. archJob[r].at \notin archTodo'
    BY <2>1, <2>2 DEF Archives!Kinds, Archives!SweepList, Archives!SweepNext, Archives!SweepDone,
       Archives!serverVars
  <2> QED
    BY <2>1, <2>3, <2>4
<1>8. RestoresWhole'
  BY <1>1, <1>2, <1>3 DEF ArchiveShape, RestoresWhole, Restoring
<1> QED
  BY <1>4, <1>5, <1>6, <1>7, <1>8 DEF ArchiveShape

LEMMA SayShape ==
  ASSUME ArchiveShape, NEW arrives \in BOOLEAN, Archives!Say(arrives)
  PROVE  ArchiveShape'
<1>1. /\ archHolder = "nobody" \/ archFile[<<"live", "jsonl">>] # -1
      /\ archSaid < MaxSaid /\ archSaid' = archSaid + 1
      /\ archFile' = [archFile EXCEPT ![<<"live", "jsonl">>] = archSaid + 1]
      /\ UNCHANGED <<archJob, archHolder, archTodo, archUsed, archKills, archDropped, archTwice>>
  BY DEF Archives!Say, Archives!history
<1>2. archSaid \in 1..MaxSaid /\ MaxSaid \in Nat /\ archSaid' \in 1..MaxSaid
  BY <1>1, JobsTyped, ArchivesAssumption
<1>3. /\ archFile' \in [Archives!Names -> {-1, 0} \cup 1..MaxSaid]
      /\ archFile'[<<"live", "jsonl">>] = archSaid + 1
      /\ \A n \in Archives!Names \ {<<"live", "jsonl">>} : archFile'[n] = archFile[n]
  BY <1>1, <1>2, JobsTyped, NamesThere
<1>4. \A r \in Requesters : archJob[r].pc = "idle" \/ archFile[<<"live", "jsonl">>] # -1
  BY <1>1, ArchivesAssumption DEF ArchiveShape, JobsHeld, JobHeld, AllWorkers
<1>5. Archives!TypeOK'
  BY <1>1, <1>2, <1>3 DEF ArchiveShape, Archives!TypeOK, Archives!FilesOK, Archives!Versions
<1>6. JobsHeld'
  <2>1. ASSUME NEW v \in AllWorkers PROVE JobHeld(v)'
    <3>1. JobHeld(v) /\ archJob[v].text \in Int
      BY JobsTyped DEF ArchiveShape, JobsHeld, Archives!Jobs, Archives!Versions
    <3> QED
      BY <1>1, <1>2, <3>1 DEF JobHeld, OpenedBy, StepsOf
  <2> QED
    BY <1>1, <2>1 DEF JobsHeld, ArchiveShape
<1>7. FilesSound'
  <2>1. FilesSound
    BY DEF ArchiveShape
  <2>2. \A n \in Archives!Names : archFile'[n] <= archSaid'
    <3>1. \A n \in Archives!Names : archFile[n] <= archSaid /\ archFile[n] \in Int
      BY <2>1, JobsTyped DEF FilesSound
    <3> QED
      BY <1>1, <1>2, <1>3, <3>1
  <2>3. \A t \in Stamps : archFile'[<<t, "jsonl">>] # 0
    BY <1>3, <2>1, NamesThere DEF FilesSound
  <2>4. \A t \in Stamps \ archUsed, k \in Archives!Kinds : archFile'[<<t, k>>] = -1
    BY <1>3, <2>1, NamesThere DEF FilesSound, Archives!Kinds
  <2> QED
    BY <1>1, <1>2, <1>3, <2>2, <2>3, <2>4 DEF FilesSound
<1>8. MovesToNew'
  <2> SUFFICES ASSUME NEW r \in Requesters, archJob[r].pc = "move"
               PROVE  /\ \A k \in Archives!Kinds : archFile'[<<archJob[r].at, k>>] = -1
                      /\ archJob[r].at \notin archTodo
                      /\ archJob[Sweeper].at # archJob[r].at
    BY <1>1 DEF MovesToNew
  <2>1. /\ \A k \in Archives!Kinds : archFile[<<archJob[r].at, k>>] = -1
        /\ archJob[r].at \notin archTodo
        /\ archJob[Sweeper].at # archJob[r].at
    BY DEF ArchiveShape, MovesToNew
  <2>2. archJob[r].at \in Stamps
    BY JobsTyped DEF ArchiveShape, JobsHeld, JobHeld, AllWorkers
  <2> QED
    BY <1>3, <2>1, <2>2, NamesThere DEF Archives!Kinds
<1>9. RestoresWhole'
  <2> SUFFICES ASSUME NEW r \in Requesters PROVE Restoring(r)'
    BY DEF RestoresWhole
  <2>1. Restoring(r)
    BY DEF ArchiveShape, RestoresWhole
  <2>2. archFile'[<<"live", "jsonl">>] # -1
    BY <1>2, <1>3
  <2>3. archJob[r].pc \in WritingSteps =>
          archFile'[<<archJob[r].at, "jsonl">>] = archFile[<<archJob[r].at, "jsonl">>]
    <3>1. archJob[r].pc \in WritingSteps => archJob[r].at \in Stamps
      BY WorksOn DEF AllWorkers
    <3> QED
      BY <1>3, <3>1, NamesThere
  <2> QED
    BY <1>1, <1>4, <2>1, <2>2, <2>3 DEF Restoring, WritingSteps
<1> QED
  BY <1>5, <1>6, <1>7, <1>8, <1>9 DEF ArchiveShape

(* A killed server's jobs are gone, and its files stay.                    *)
LEMMA RestartShape ==
  ASSUME ArchiveShape, Archives!Restart
  PROVE  ArchiveShape'
<1>1. /\ archKills < ArchiveKills /\ archKills' = archKills + 1
      /\ archJob' = [w \in AllWorkers |->
                       IF w = Sweeper THEN [Archives!Idle EXCEPT !.op = "sweep", !.pc = "look"]
                       ELSE Archives!Idle]
      /\ archHolder' = "nobody" /\ archTodo' = {}
      /\ UNCHANGED <<archFile, archSaid, archUsed, archDropped, archTwice>>
  BY DEF Archives!Restart, Archives!history, AllWorkers
<1> DEFINE first == [Archives!Idle EXCEPT !.op = "sweep", !.pc = "look"]
<1>2. /\ first \in Archives!Jobs /\ first.op = "sweep" /\ first.pc = "look" /\ first.at = "live"
      /\ first.out = Archives!Nowhere /\ first.text = 0
  BY IdleJob DEF Archives!Idle, Archives!Jobs, Archives!Ops, Archives!Pcs
<1> HIDE DEF first
<1>3. \A w \in AllWorkers : archJob'[w] = IF w = Sweeper THEN first ELSE Archives!Idle
  BY <1>1 DEF first
<1>4. archJob' \in [AllWorkers -> Archives!Jobs]
  BY <1>1, <1>2, IdleJob DEF first
<1>5. Archives!TypeOK'
  BY <1>1, <1>4, ArchivesAssumption
     DEF ArchiveShape, Archives!TypeOK, Archives!FilesOK, AllWorkers
<1>6. JobsHeld'
  <2>1. ASSUME NEW v \in AllWorkers PROVE JobHeld(v)'
    BY <1>1, <1>2, <1>3, JobsTyped DEF JobHeld, StepsOf, Archives!Idle
  <2> QED
    BY <1>1, <2>1 DEF JobsHeld
<1>7. FilesSound'
  BY <1>1 DEF ArchiveShape, FilesSound
<1>8. MovesToNew' /\ RestoresWhole'
  BY <1>3, ArchivesAssumption
     DEF MovesToNew, RestoresWhole, Restoring, WritingSteps, Archives!Idle, AllWorkers
<1> QED
  BY <1>5, <1>6, <1>7, <1>8 DEF ArchiveShape

LEMMA StartShape ==
  ASSUME Archives!Init
  PROVE  ArchiveShape
<1>1. /\ archUsed \subseteq Stamps
      /\ \E live \in BOOLEAN :
           archFile = [n \in Archives!Names |->
             IF (n = <<"live", "jsonl">> /\ live) \/ (\E s \in archUsed : n = <<s, "jsonl">>)
             THEN 1 ELSE -1]
      /\ archJob = [w \in AllWorkers |->
                      IF w = Sweeper THEN [Archives!Idle EXCEPT !.op = "sweep", !.pc = "look"]
                      ELSE Archives!Idle]
      /\ archHolder = "nobody" /\ archTodo = {} /\ archSaid = 1 /\ archDropped = {}
      /\ archTwice = FALSE /\ archKills = 0
  BY DEF Archives!Init, AllWorkers
<1> DEFINE first == [Archives!Idle EXCEPT !.op = "sweep", !.pc = "look"]
<1>2. /\ first \in Archives!Jobs /\ first.op = "sweep" /\ first.pc = "look" /\ first.at = "live"
      /\ first.out = Archives!Nowhere /\ first.text = 0
  BY IdleJob DEF Archives!Idle, Archives!Jobs, Archives!Ops, Archives!Pcs
<1> HIDE DEF first
<1>3. \A w \in AllWorkers : archJob[w] = IF w = Sweeper THEN first ELSE Archives!Idle
  BY <1>1 DEF first
<1>4. archJob \in [AllWorkers -> Archives!Jobs]
  BY <1>1, <1>2, IdleJob DEF first
<1>5. PICK live \in BOOLEAN :
           archFile = [n \in Archives!Names |->
             IF (n = <<"live", "jsonl">> /\ live) \/ (\E s \in archUsed : n = <<s, "jsonl">>)
             THEN 1 ELSE -1]
  BY <1>1
<1>10. archFile \in [Archives!Names -> {-1, 0} \cup 1..MaxSaid]
  <2>1. 1 \in 1..MaxSaid
    BY ArchivesAssumption
  <2> QED
    BY <1>5, <2>1
<1>11. \A n \in Archives!Names : archFile[n] = 1 \/ archFile[n] = -1
  BY <1>5
<1>12. ASSUME NEW n \in Archives!Names, archFile[n] = 1
       PROVE  n = <<"live", "jsonl">> \/ \E s \in archUsed : n = <<s, "jsonl">>
  BY <1>5, <1>12
<1>13. /\ archUsed \subseteq Stamps /\ archHolder = "nobody" /\ archTodo = {} /\ archSaid = 1
       /\ archDropped = {} /\ archTwice = FALSE /\ archKills = 0
  BY <1>1
<1>6. Archives!TypeOK
  <2>1. Archives!FilesOK
    BY <1>4, <1>10 DEF Archives!FilesOK, AllWorkers, Archives!Versions
  <2>2. archSaid \in Archives!Versions /\ archKills \in 0..ArchiveKills
    BY <1>13, ArchivesAssumption DEF Archives!Versions
  <2> QED
    BY <1>13, <2>1, <2>2 DEF Archives!TypeOK
<1>7. JobsHeld
  <2>1. ASSUME NEW v \in AllWorkers PROVE JobHeld(v)
    BY <1>1, <1>2, <1>3 DEF JobHeld, StepsOf, Archives!Idle
  <2> QED
    BY <1>1, <2>1 DEF JobsHeld
<1>8. FilesSound
  <2>1. \A t \in Stamps \ archUsed, k \in Archives!Kinds : archFile[<<t, k>>] = -1
    <3> SUFFICES ASSUME NEW t \in Stamps \ archUsed, NEW k \in Archives!Kinds,
                        archFile[<<t, k>>] # -1
                 PROVE  FALSE
      OBVIOUS
    <3>1. <<t, k>> \in Archives!Names /\ t # "live"
      BY NamesThere DEF Archives!Kinds
    <3>2. archFile[<<t, k>>] = 1
      BY <1>11, <3>1
    <3>3. <<t, k>> = <<"live", "jsonl">> \/ \E s \in archUsed : <<t, k>> = <<s, "jsonl">>
      BY <1>12, <3>1, <3>2
    <3> QED
      BY <3>1, <3>3
  <2>2. \A n \in Archives!Names : archFile[n] <= archSaid /\ archFile[n] # 0
    BY <1>1, <1>11
  <2> QED
    BY <2>1, <2>2, NamesThere DEF FilesSound
<1>9. MovesToNew /\ RestoresWhole
  BY <1>3, ArchivesAssumption
     DEF MovesToNew, RestoresWhole, Restoring, WritingSteps, Archives!Idle, AllWorkers
<1> QED
  BY <1>6, <1>7, <1>8, <1>9 DEF ArchiveShape

(***************************************************************************)
(* What a step does to the files of an archive.                            *)
(***************************************************************************)
Same(s) == PlainIn(s)' = PlainIn(s) /\ ZipIn(s)' = ZipIn(s) /\ HalfIn(s)' = HalfIn(s)
FilesStay == LiveIn' = LiveIn /\ \A s \in Stamps : Same(s)

LEMMA StaySame ==
  ASSUME UNCHANGED archFile
  PROVE  FilesStay
BY DEF FilesStay, Same, LiveIn, PlainIn, ZipIn, HalfIn

(* One file is written or goes.                                            *)
OneAfter(n, x) ==
  /\ LiveIn' = IF n = <<"live", "jsonl">> THEN x ELSE LiveIn
  /\ \A s \in Stamps :
       /\ PlainIn(s)' = IF n = <<s, "jsonl">> THEN x ELSE PlainIn(s)
       /\ ZipIn(s)' = IF n = <<s, "gz">> THEN x ELSE ZipIn(s)
       /\ HalfIn(s)' = IF n = <<s, "part">> THEN x ELSE HalfIn(s)

LEMMA OneFileAfter ==
  ASSUME ArchiveShape, NEW n \in Archives!Names, NEW x, archFile' = [archFile EXCEPT ![n] = x]
  PROVE  OneAfter(n, x)
<1>1. \A m \in Archives!Names : archFile'[m] = IF n = m THEN x ELSE archFile[m]
  BY JobsTyped
<1>2. <<"live", "jsonl">> \in Archives!Names
  BY NamesThere
<1>3. ASSUME NEW s \in Stamps, NEW k \in {"jsonl", "gz", "part"}
      PROVE  archFile'[<<s, k>>] = IF n = <<s, k>> THEN x ELSE archFile[<<s, k>>]
  <2>1. <<s, k>> \in Archives!Names
    BY NamesThere
  <2> QED
    BY <1>1, <2>1
<1> QED
  BY <1>1, <1>2, <1>3 DEF OneAfter, LiveIn, PlainIn, ZipIn, HalfIn

(* One file is renamed.                                                    *)
TwoAfter(a, b, x) ==
  /\ LiveIn' = IF a = <<"live", "jsonl">> THEN -1
               ELSE IF b = <<"live", "jsonl">> THEN x ELSE LiveIn
  /\ \A s \in Stamps :
       /\ PlainIn(s)' = IF a = <<s, "jsonl">> THEN -1
                        ELSE IF b = <<s, "jsonl">> THEN x ELSE PlainIn(s)
       /\ ZipIn(s)' = IF a = <<s, "gz">> THEN -1
                      ELSE IF b = <<s, "gz">> THEN x ELSE ZipIn(s)
       /\ HalfIn(s)' = IF a = <<s, "part">> THEN -1
                       ELSE IF b = <<s, "part">> THEN x ELSE HalfIn(s)

LEMMA TwoFilesAfter ==
  ASSUME ArchiveShape, NEW a \in Archives!Names, NEW b \in Archives!Names, a # b,
         archFile' = [archFile EXCEPT ![b] = archFile[a], ![a] = -1]
  PROVE  TwoAfter(a, b, archFile[a])
<1>1. \A m \in Archives!Names : archFile'[m] = IF a = m THEN -1
                                               ELSE IF b = m THEN archFile[a] ELSE archFile[m]
  BY JobsTyped
<1>2. <<"live", "jsonl">> \in Archives!Names
  BY NamesThere
<1>3. ASSUME NEW s \in Stamps, NEW k \in {"jsonl", "gz", "part"}
      PROVE  archFile'[<<s, k>>] = IF a = <<s, k>> THEN -1
                                   ELSE IF b = <<s, k>> THEN archFile[a] ELSE archFile[<<s, k>>]
  <2>1. <<s, k>> \in Archives!Names
    BY NamesThere
  <2> QED
    BY <1>1, <2>1
<1> QED
  BY <1>1, <1>2, <1>3 DEF TwoAfter, LiveIn, PlainIn, ZipIn, HalfIn

(* A writer's steps: it changes its own archive's files, or a restore's    *)
(* live ones.                                                              *)
LEMMA OpenFiles ==
  ASSUME ArchiveShape, NEW w \in AllWorkers, Archives!Open(w), NEW s, s = archJob[w].at
  PROVE  /\ LiveIn' = LiveIn /\ \A t \in Stamps \ {s} : Same(t)
         /\ s \in Stamps /\ PlainIn(s)' = PlainIn(s) /\ ZipIn(s)' = ZipIn(s)
         /\ HalfIn(s)' = IF archJob[w].op = "restore" THEN HalfIn(s) ELSE 0
<1>1. archJob[w].pc \in WritingSteps
  BY DEF Archives!Open, WritingSteps
<1>2. PICK n \in Archives!Names : n = Archives!Part(archJob[w])
  BY <1>1, WorksOn
<1>3. archFile' = [archFile EXCEPT ![n] = 0]
  BY <1>2 DEF Archives!Open
<1>4. s \in Stamps /\ s # "live" /\ n = IF archJob[w].op = "restore" THEN <<"live", "part">> ELSE <<s, "part">>
  BY <1>1, <1>2, WorksOn
<1>5. \A t \in Stamps : t # "live"
  BY NamesThere
<1> QED
  BY <1>3, <1>4, <1>5, OneFileAfter DEF Same, OneAfter

LEMMA PlaceFiles ==
  ASSUME ArchiveShape, NEW w \in AllWorkers, Archives!Place(w), NEW s, s = archJob[w].at
  PROVE  /\ s \in Stamps /\ \A t \in Stamps \ {s} : Same(t)
         /\ PlainIn(s)' = PlainIn(s)
         /\ IF archJob[w].op = "restore"
            THEN LiveIn' = archJob[w].text /\ LiveIn = -1 /\ Same(s)
            ELSE /\ LiveIn' = LiveIn /\ HalfIn(s) # -1
                 /\ ZipIn(s)' = HalfIn(s) /\ HalfIn(s)' = -1
<1>1. archJob[w].pc \in WritingSteps /\ archJob[w].pc = "place"
  BY DEF Archives!Place, WritingSteps
<1>2. PICK a \in Archives!Names, b \in Archives!Names :
             a = Archives!Part(archJob[w]) /\ b = Archives!Target(archJob[w])
  BY <1>1, WorksOn
<1>3. archFile' = [archFile EXCEPT ![b] = archFile[a], ![a] = -1] /\ archFile[a] # -1
  BY <1>2 DEF Archives!Place, Archives!RenameThen
<1>4. s \in Stamps /\ s # "live" /\ IF archJob[w].op = "restore"
                       THEN a = <<"live", "part">> /\ b = <<"live", "jsonl">>
                       ELSE a = <<s, "part">> /\ b = <<s, "gz">>
  BY <1>1, <1>2, WorksOn
<1>5. \A t \in Stamps : t # "live"
  BY NamesThere
<1>6. a # b
  BY <1>4
<1>9. TwoAfter(a, b, archFile[a])
  BY <1>3, <1>6, TwoFilesAfter
<1>7. CASE archJob[w].op # "restore"
  <2>1. archFile[a] = HalfIn(s)
    BY <1>4, <1>7 DEF HalfIn
  <2> QED
    BY <1>3, <1>4, <1>5, <1>7, <1>9, <2>1 DEF Same, TwoAfter
<1>8. CASE archJob[w].op = "restore"
  <2>1. archFile[a] = archJob[w].text /\ LiveIn = -1
    BY <1>1, <1>4, <1>8, WorksOn, ArchivesAssumption
       DEF ArchiveShape, RestoresWhole, Restoring, LiveIn
  <2> QED
    BY <1>3, <1>4, <1>5, <1>8, <1>9, <2>1 DEF Same, TwoAfter
<1> QED
  BY <1>7, <1>8

(* What was written from goes, or else a compressed copy.                  *)
LEMMA RemoveFiles ==
  ASSUME ArchiveShape, NEW w \in AllWorkers, Archives!Remove(w), NEW s, s = archJob[w].at
  PROVE  /\ s \in Stamps /\ \A t \in Stamps \ {s} : Same(t)
         /\ LiveIn' = LiveIn /\ HalfIn(s)' = HalfIn(s)
         /\ IF archJob[w].op = "restore"
            THEN PlainIn(s)' = PlainIn(s) /\ ZipIn(s)' = -1
            ELSE IF PlainIn(s) # -1 THEN PlainIn(s)' = -1 /\ ZipIn(s)' = ZipIn(s)
            ELSE PlainIn(s)' = -1 /\ ZipIn(s)' = -1
<1>1. archJob[w].pc \in WritingSteps
  BY DEF Archives!Remove, WritingSteps
<1>2. PICK a \in Archives!Names, b \in Archives!Names :
             a = Archives!Source(archJob[w]) /\ b = Archives!Target(archJob[w])
  BY <1>1, WorksOn
<1>3. s \in Stamps /\ s # "live" /\ IF archJob[w].op = "restore"
                       THEN a = <<s, "gz">> ELSE a = <<s, "jsonl">> /\ b = <<s, "gz">>
  BY <1>1, <1>2, WorksOn
<1>4. \A t \in Stamps : t # "live"
  BY NamesThere
<1>5. CASE archFile[a] # -1
  <2>1. archFile' = [archFile EXCEPT ![a] = -1]
    BY <1>2, <1>5 DEF Archives!Remove, Archives!UnlinkThen
  <2>2. OneAfter(a, -1)
    BY <2>1, OneFileAfter
  <2>3. archFile[a] = IF archJob[w].op = "restore" THEN ZipIn(s) ELSE PlainIn(s)
    BY <1>3 DEF ZipIn, PlainIn
  <2> QED
    BY <1>3, <1>4, <1>5, <2>2, <2>3 DEF Same, OneAfter
<1>6. CASE archFile[a] = -1 /\ archJob[w].op # "restore"
  <2>1. archFile' = [archFile EXCEPT ![b] = -1]
    BY <1>2, <1>6 DEF Archives!Remove, Archives!UnlinkThen
  <2>2. OneAfter(b, -1)
    BY <2>1, OneFileAfter
  <2>3. archFile[a] = IF archJob[w].op = "restore" THEN ZipIn(s) ELSE PlainIn(s)
    BY <1>3 DEF ZipIn, PlainIn
  <2> QED
    BY <1>3, <1>4, <1>6, <2>2, <2>3 DEF Same, OneAfter
<1>7. CASE archFile[a] = -1 /\ archJob[w].op = "restore"
  <2>1. UNCHANGED archFile
    BY <1>2, <1>7 DEF Archives!Remove
  <2> QED
    BY <1>3, <1>7, <2>1, StaySame DEF FilesStay, Same, ZipIn
<1> QED
  BY <1>5, <1>6, <1>7

LEMMA UndoFiles ==
  ASSUME ArchiveShape, NEW w \in AllWorkers, Archives!Undo(w), NEW s, s = archJob[w].at
  PROVE  /\ s \in Stamps /\ \A t \in Stamps \ {s} : Same(t)
         /\ LiveIn' = LiveIn /\ PlainIn(s)' = PlainIn(s) /\ ZipIn(s)' = ZipIn(s)
         /\ HalfIn(s)' = IF archJob[w].op = "restore" THEN HalfIn(s) ELSE -1
<1>1. archJob[w].pc \in WritingSteps
  BY DEF Archives!Undo, WritingSteps
<1>2. PICK n \in Archives!Names : n = Archives!Part(archJob[w])
  BY <1>1, WorksOn
<1>3. archFile' = [archFile EXCEPT ![n] = -1]
  BY <1>2 DEF Archives!Undo, Archives!UnlinkThen
<1>4. s \in Stamps /\ s # "live" /\ n = IF archJob[w].op = "restore" THEN <<"live", "part">> ELSE <<s, "part">>
  BY <1>1, <1>2, WorksOn
<1>5. \A t \in Stamps : t # "live"
  BY NamesThere
<1> QED
  BY <1>3, <1>4, <1>5, OneFileAfter DEF Same, OneAfter

(* Under Compresses, only a part is written to.                            *)
LEMMA CopyFiles ==
  ASSUME ArchiveShape, Compresses, NEW w \in AllWorkers, Archives!Copy(w), NEW s, s = archJob[w].at
  PROVE  /\ LiveIn' = LiveIn /\ \A t \in Stamps \ {s} : Same(t)
         /\ s \in Stamps /\ PlainIn(s)' = PlainIn(s) /\ ZipIn(s)' = ZipIn(s)
         /\ IF archJob[w].op = "restore" THEN HalfIn(s)' = HalfIn(s)
            ELSE HalfIn(s)' \in {-1, archJob[w].text}
<1> DEFINE j == archJob[w]
<1>1. j.pc \in WritingSteps /\ j.pc = "copy"
  BY DEF Archives!Copy, WritingSteps
<1>2. /\ s \in Stamps /\ s # "live" /\ \A t \in Stamps : t # "live"
      /\ j.op \in {"archive", "sweep", "restore"}
      /\ <<"live", "part">> \in Archives!Names /\ <<s, "part">> \in Archives!Names
      /\ <<"live", "part">> # Archives!Nowhere /\ <<s, "part">> # Archives!Nowhere
  BY <1>1, NamesThere, WorksOn
<1>3. IF j.op = "restore" THEN j.out = <<"live", "part">> /\ ~j.holed
      ELSE \/ j.out = <<s, "part">> /\ ~j.holed
           \/ j.out = Archives!Nowhere /\ HalfIn(s) = -1
  <2>1. CASE j.op = "restore"
    BY <1>1, <2>1, WorksOn, ArchivesAssumption DEF ArchiveShape, RestoresWhole, Restoring
  <2>2. CASE j.op # "restore"
    <3>1. Archives!Compressing(w, s)
      BY <1>1, <1>2, <2>2 DEF Archives!Compressing
    <3> QED
      BY <1>1, <1>2, <2>2, <3>1 DEF Compresses, WritesWell
  <2> QED
    BY <2>1, <2>2
<1>4. CASE j.out = Archives!Nowhere
  <2>1. UNCHANGED archFile
    BY <1>4 DEF Archives!Copy
  <2> QED
    BY <1>2, <1>3, <1>4, <2>1, StaySame DEF FilesStay, Same
<1>5. CASE j.out # Archives!Nowhere
  <2>1. PICK n \in Archives!Names : n = j.out
    BY <1>2, <1>3, <1>5
  <2>2. archFile' = [archFile EXCEPT ![n] = j.text]
    BY <1>2, <1>3, <1>5, <2>1 DEF Archives!Copy
  <2>3. OneAfter(n, j.text)
    BY <2>2, OneFileAfter
  <2> QED
    BY <1>2, <1>3, <1>5, <2>1, <2>3 DEF OneAfter, Same
<1> QED
  BY <1>4, <1>5

LEMMA MoveFiles ==
  ASSUME ArchiveShape, NEW w \in AllWorkers, Archives!MoveAway(w), NEW s, s = archJob[w].at
  PROVE  /\ s \in Stamps /\ \A t \in Stamps \ {s} : Same(t)
         /\ PlainIn(s) = -1 /\ ZipIn(s) = -1 /\ HalfIn(s) = -1
         /\ ZipIn(s)' = -1 /\ HalfIn(s)' = -1
         /\ LiveIn' = -1 /\ PlainIn(s)' = LiveIn
<1>1. archJob[w].pc = "move"
  BY DEF Archives!MoveAway
<1>2. s \in Stamps /\ s # "live" /\ w \in Requesters /\ \A t \in Stamps : t # "live"
  BY <1>1, MoverHolds, NamesThere
<1>3. PlainIn(s) = -1 /\ ZipIn(s) = -1 /\ HalfIn(s) = -1
  BY <1>1, <1>2 DEF ArchiveShape, MovesToNew, Archives!Kinds, PlainIn, ZipIn, HalfIn
<1>4. PICK a \in Archives!Names, b \in Archives!Names :
             a = <<"live", "jsonl">> /\ b = <<s, "jsonl">>
  BY <1>2, NamesThere
<1>5. CASE archFile[a] # -1
  <2>1. archFile' = [archFile EXCEPT ![b] = archFile[a], ![a] = -1]
    BY <1>4, <1>5 DEF Archives!MoveAway, Archives!RenameThen
  <2>2. TwoAfter(a, b, archFile[a])
    BY <1>2, <1>4, <2>1, TwoFilesAfter
  <2> QED
    BY <1>2, <1>3, <1>4, <2>2 DEF TwoAfter, Same, LiveIn
<1>6. CASE archFile[a] = -1
  <2>1. UNCHANGED archFile
    BY <1>4, <1>6 DEF Archives!MoveAway
  <2> QED
    BY <1>2, <1>3, <1>4, <1>6, <2>1, StaySame DEF FilesStay, Same, LiveIn
<1> QED
  BY <1>5, <1>6

LEMMA BackFiles ==
  ASSUME ArchiveShape, NEW w \in AllWorkers, Archives!PutBack(w), NEW s, s = archJob[w].at
  PROVE  /\ s \in Stamps /\ \A t \in Stamps \ {s} : Same(t)
         /\ ZipIn(s)' = ZipIn(s) /\ HalfIn(s)' = HalfIn(s)
         /\ LiveIn = -1 /\ LiveIn' = PlainIn(s) /\ PlainIn(s)' = -1
<1>1. archJob[w].pc = "back"
  BY DEF Archives!PutBack
<1>2. s \in Stamps /\ s # "live" /\ w \in Requesters /\ \A t \in Stamps : t # "live"
  BY <1>1, MoverHolds, NamesThere
<1>3. LiveIn = -1
  BY <1>1, <1>2, MoverHolds DEF ArchiveShape, RestoresWhole, Restoring, LiveIn
<1>4. PICK a \in Archives!Names, b \in Archives!Names :
             b = <<"live", "jsonl">> /\ a = <<s, "jsonl">>
  BY <1>2, NamesThere
<1>5. CASE archFile[a] # -1
  <2>1. archFile' = [archFile EXCEPT ![b] = archFile[a], ![a] = -1]
    BY <1>4, <1>5 DEF Archives!PutBack, Archives!RenameThen
  <2>2. TwoAfter(a, b, archFile[a])
    BY <1>2, <1>4, <2>1, TwoFilesAfter
  <2> QED
    BY <1>2, <1>3, <1>4, <2>2 DEF TwoAfter, Same, PlainIn
<1>6. CASE archFile[a] = -1
  <2>1. UNCHANGED archFile
    BY <1>4, <1>6 DEF Archives!PutBack
  <2> QED
    BY <1>2, <1>3, <1>4, <1>6, <2>1, StaySame DEF FilesStay, Same, PlainIn
<1> QED
  BY <1>5, <1>6

LEMMA ClearFiles ==
  ASSUME ArchiveShape, NEW w \in AllWorkers, Archives!Clear(w), NEW s, s = archJob[w].at
  PROVE  /\ s \in Stamps /\ LiveIn' = LiveIn /\ \A t \in Stamps \ {s} : Same(t)
         /\ PlainIn(s)' \in {PlainIn(s), -1} /\ ZipIn(s)' \in {ZipIn(s), -1}
         /\ \/ HalfIn(s)' = HalfIn(s) /\ Archives!Unlink(<<s, "jsonl">>)
            \/ HalfIn(s)' = HalfIn(s) /\ Archives!Unlink(<<s, "gz">>)
            \/ HalfIn(s)' = -1 /\ Archives!Unlink(<<s, "part">>)
<1>1. archJob[w].pc = "clear"
  BY DEF Archives!Clear
<1>2. s \in Stamps /\ s # "live" /\ \A t \in Stamps : t # "live"
  BY <1>1, MoverHolds, NamesThere
<1>3. PICK k \in {"jsonl", "gz", "part"} : Archives!Unlink(<<s, k>>)
  BY DEF Archives!Clear, Archives!Kinds
<1>4. PICK n \in Archives!Names : n = <<s, k>>
  BY <1>2, NamesThere
<1>5. archFile' = [archFile EXCEPT ![n] = -1]
  BY <1>3, <1>4 DEF Archives!Unlink
<1>6. OneAfter(n, -1)
  BY <1>5, OneFileAfter
<1> QED
  BY <1>2, <1>3, <1>4, <1>6 DEF OneAfter, Same

(***************************************************************************)
(* The shape holds at every step, and a live transcript isn't rolled back. *)
(***************************************************************************)
LEMMA ShapeStep ==
  ASSUME ArchiveShape, Archives!Next
  PROVE  ArchiveShape'
<1>1. \A r \in Requesters : Archives!LookToRestore(r) \/ Archives!LookToDelete(r) => ArchiveShape'
  BY LookShape
<1>2. \A w \in AllWorkers : Archives!Write(w) \/ Archives!Move(w) => ArchiveShape'
  BY WriteShape, MoveShape
<1>3. \A r \in Requesters : Archives!LookToArchive(r) \/ Archives!Finish(r) => ArchiveShape'
  BY ArchiveLookShape, FinishShape
<1> QED
  BY <1>1, <1>2, <1>3, TakeShape, SweepShape, SayShape, RestartShape
     DEF Archives!Next, AllWorkers

LEMMA CopyLive ==
  ASSUME ArchiveShape, NEW w \in AllWorkers, Archives!Copy(w)
  PROVE  LiveIn' = LiveIn
<1>1. JobHeld(w)
  BY DEF ArchiveShape, JobsHeld
<1>2. <<"live", "jsonl">> \in Archives!Names
  BY NamesThere
<1>3. CASE archJob[w].out = Archives!Nowhere
  BY <1>3 DEF Archives!Copy, LiveIn
<1>4. CASE archJob[w].out # Archives!Nowhere
  <2>1. archJob[w].out # <<"live", "jsonl">>
    BY <1>1, <1>4 DEF JobHeld, OpenedBy
  <2> QED
    BY <1>2, <2>1, JobsTyped DEF Archives!Copy, LiveIn
<1> QED
  BY <1>3, <1>4

LEMMA LiveFollows ==
  ASSUME ArchiveShape, Archives!Next
  PROVE  LiveIn # -1 => LiveIn' = -1 \/ LiveIn' >= LiveIn
<1>0. LiveIn \in Int /\ archSaid \in Int /\ LiveIn <= archSaid
  <2>1. <<"live", "jsonl">> \in Archives!Names
    BY NamesThere
  <2>2. archFile[<<"live", "jsonl">>] \in Int /\ archSaid \in Int
    BY <2>1, JobsTyped
  <2>3. archFile[<<"live", "jsonl">>] <= archSaid
    BY <2>1 DEF ArchiveShape, FilesSound
  <2> QED
    BY <2>2, <2>3 DEF LiveIn
<1>1. ASSUME NEW w \in AllWorkers, Archives!Write(w)
      PROVE  LiveIn # -1 => LiveIn' = LiveIn
  <2>1. Archives!Stat(w) \/ Archives!Read(w) \/ Archives!CopyFails(w) \/ Archives!PlaceFails(w)
          => LiveIn' = LiveIn
    BY DEF Archives!Stat, Archives!Read, Archives!CopyFails, Archives!PlaceFails, LiveIn
  <2>2. Archives!Open(w) => LiveIn' = LiveIn
    BY OpenFiles
  <2>3. Archives!Place(w) /\ LiveIn # -1 => LiveIn' = LiveIn
    BY PlaceFiles
  <2>4. Archives!Remove(w) => LiveIn' = LiveIn
    BY RemoveFiles
  <2>5. Archives!Undo(w) => LiveIn' = LiveIn
    BY UndoFiles
  <2> QED
    BY <1>1, <2>1, <2>2, <2>3, <2>4, <2>5, CopyLive DEF Archives!Write, Archives!WriteStep
<1>2. ASSUME NEW w \in AllWorkers, Archives!Move(w)
      PROVE  LiveIn # -1 => LiveIn' = -1 \/ LiveIn' = LiveIn
  <2>1. Archives!MoveAway(w) => LiveIn' = -1
    BY MoveFiles
  <2>2. Archives!PutBack(w) => LiveIn = -1
    BY BackFiles
  <2>3. Archives!Clear(w) => LiveIn' = LiveIn
    BY ClearFiles
  <2> QED
    BY <1>2, <2>1, <2>2, <2>3 DEF Archives!Move, Archives!ClearEnds, LiveIn
<1>3. ASSUME NEW arrives \in BOOLEAN, Archives!Say(arrives)
      PROVE  LiveIn' >= LiveIn
  <2>1. LiveIn' = archSaid + 1
    BY <1>3, JobsTyped, NamesThere DEF Archives!Say, LiveIn
  <2> QED
    BY <1>0, <2>1
<1>4. (\E r \in Requesters :
         \/ \E op \in {"archive", "restore", "delete"}, s \in Archives!Places : Archives!Take(r, op, s)
         \/ Archives!LookToArchive(r) \/ Archives!LookToRestore(r)
         \/ Archives!LookToDelete(r) \/ Archives!Finish(r))
      \/ Archives!SweepList \/ Archives!SweepNext \/ Archives!SweepDone \/ Archives!Restart
        => LiveIn' = LiveIn
  BY DEF Archives!Take, Archives!LookToArchive, Archives!LookToRestore, Archives!LookToDelete,
         Archives!Finish, Archives!SweepList, Archives!SweepNext, Archives!SweepDone,
         Archives!Restart, LiveIn
<1> QED
  BY <1>0, <1>1, <1>2, <1>3, <1>4 DEF Archives!Next, AllWorkers

(***************************************************************************)
(* What a step leaves of what is kept.                                     *)
(***************************************************************************)
HoldsNoMore == \A s \in Stamps, x \in 0..MaxSaid : Holds(s, x)' => Holds(s, x)

LEMMA Holdings ==
  ASSUME ArchiveShape, NEW w \in AllWorkers, OthersGoOn(w),
         \A s \in Stamps : PlainIn(s)' \in {PlainIn(s), -1},
         \A s \in Stamps : ZipIn(s)' # -1 => Holds(s, ZipIn(s)'),
         NEW at, at = archJob'[w].at,
         archJob'[w].pc \in {"copy", "place"} /\ at \in Stamps => Holds(at, archJob'[w].text)
  PROVE  HoldsNoMore
BY DEF HoldsNoMore, Holds, OthersGoOn

LEMMA KeptOn ==
  ASSUME archSaid' = archSaid, LiveIn = archSaid => LiveIn' = archSaid,
         NEW s, \A t \in Stamps \ {s} : ListedIn(t) = archSaid => ListedIn(t)' = archSaid,
         KeptBut(s)
  PROVE  KeptBut(s)'
BY DEF KeptBut

(* The worker's own part, beside what the others keep.                     *)
RestsWell(w, at) ==
  /\ archJob'[w].op = "restore" /\ archJob'[w].pc = "remove" =>
       \A x \in 0..MaxSaid : Holds(at, x)' => x = LiveIn'
  /\ archJob'[w].pc = "clear" => archSaid \in archDropped' \/ ~Holds(at, archSaid)'

LEMMA StillNothingLost ==
  ASSUME ArchiveShape, ArchiveShape', NothingLost, NEW w \in AllWorkers, OthersGoOn(w),
         archSaid' = archSaid, archDropped \subseteq archDropped', HoldsNoMore,
         archSaid \notin archDropped' /\ KeptBut("live") => KeptBut("live")',
         w = Sweeper \/ archJob[w].pc = "idle" => LiveIn' = LiveIn,
         NEW at, at = archJob'[w].at, RestsWell(w, at), Compresses'
  PROVE  NothingLost'
<1>0. /\ Requesters \subseteq AllWorkers /\ Sweeper \notin Requesters /\ archSaid \in 0..MaxSaid
  BY ArchivesAssumption, JobsTyped DEF AllWorkers
<1>1. OneVersion'
  BY DEF NothingLost, OneVersion, HoldsNoMore
<1>2. ASSUME NEW r \in Requesters, archJob'[r].op = "restore", archJob'[r].pc = "remove",
             NEW s, s = archJob'[r].at, NEW x \in 0..MaxSaid, Holds(s, x)', x = archSaid
      PROVE  x = LiveIn'
  <2>1. CASE r = w
    BY <1>2, <2>1 DEF RestsWell
  <2>2. CASE r # w
    <3>1. archJob[r].op = "restore" /\ archJob[r].pc = "remove" /\ archJob[r].at = s
      BY <1>0, <1>2, <2>2 DEF OthersGoOn
    <3>2. s \in Stamps
      BY <1>0, <3>1, WorksOn DEF WritingSteps
    <3>3. x = LiveIn
      BY <1>2, <3>1, <3>2 DEF NothingLost, RestoresSame, HoldsNoMore
    <3>4. LiveIn' = LiveIn
      BY <1>0, <2>2, <3>1, OthersIdle DEF AllWorkers
    <3> QED
      BY <3>3, <3>4
  <2> QED
    BY <2>1, <2>2
<1>3. RestoresSame'
  BY <1>2 DEF RestoresSame
<1>4. ASSUME NEW r \in Requesters, archJob'[r].pc = "clear",
             NEW s, s = archJob'[r].at, archSaid \notin archDropped', Holds(s, archSaid)'
      PROVE  FALSE
  <2>1. CASE r = w
    BY <1>4, <2>1 DEF RestsWell
  <2>2. CASE r # w
    <3>1. archJob[r].pc = "clear" /\ archJob[r].at = s
      BY <1>0, <1>4, <2>2 DEF OthersGoOn
    <3>2. s \in Stamps
      BY <1>0, <3>1, MoverHolds
    <3> QED
      BY <1>0, <1>4, <3>1, <3>2 DEF NothingLost, DeletesAsked, HoldsNoMore
  <2> QED
    BY <2>1, <2>2
<1>5. DeletesAsked'
  BY <1>4 DEF DeletesAsked, Holds
<1>6. archSaid' \notin archDropped' => KeptBut("live")'
  BY DEF NothingLost
<1> QED
  BY <1>1, <1>3, <1>5, <1>6 DEF NothingLost

(* Who compresses beside a worker's step goes on well.                     *)
LEMMA OthersWriteWell ==
  ASSUME NEW v \in AllWorkers, NEW s \in Stamps, WritesWell(v, s),
         archJob'[v].pc = archJob[v].pc, archJob'[v].text = archJob[v].text,
         archJob[v].pc \in {"read", "copy"} =>
           archJob'[v].out = archJob[v].out /\ archJob'[v].holed = archJob[v].holed,
         HalfIn(s)' = HalfIn(s), PlainIn(s)' \in {PlainIn(s), -1},
         ZipIn(s)' = ZipIn(s) \/ PlainIn(s) # archSaid \/ archSaid \in archDropped',
         archSaid' = archSaid, archSaid # -1, archDropped \subseteq archDropped'
  PROVE  WritesWell(v, s)'
BY DEF WritesWell

LEMMA StillCompresses ==
  ASSUME ArchiveShape, Compresses, NEW w \in AllWorkers, OthersGoOn(w),
         \A s \in Stamps : Archives!Compressing(w, s)' =>
           /\ \A v \in AllWorkers \ {w} : ~Archives!Compressing(v, s)
           /\ WritesWell(w, s)' /\ GoneWell(w, s)',
         \A v \in AllWorkers \ {w}, s \in Stamps :
           Archives!Compressing(v, s) => WritesWell(v, s)' /\ GoneWell(v, s)'
  PROVE  Compresses'
<1>1. \A v \in AllWorkers \ {w}, s \in Stamps :
        Archives!Compressing(v, s)' <=> Archives!Compressing(v, s)
  BY DEF OthersGoOn, Archives!Compressing
<1>2. ASSUME NEW v \in AllWorkers, NEW s \in Stamps, Archives!Compressing(v, s)'
      PROVE  Alone(v, s)' /\ WritesWell(v, s)' /\ GoneWell(v, s)'
  <2>1. CASE v = w
    BY <1>1, <1>2, <2>1 DEF Alone
  <2>2. CASE v # w
    <3>1. Archives!Compressing(v, s) /\ Alone(v, s)
      BY <1>1, <1>2, <2>2 DEF Compresses
    <3>2. ~Archives!Compressing(w, s)'
      BY <2>2, <3>1
    <3> QED
      BY <1>1, <2>2, <3>1, <3>2 DEF Alone
  <2> QED
    BY <2>1, <2>2
<1> QED
  BY <1>2 DEF Compresses

(* What a writer has to see to, for all of it to be kept.                  *)
OutStays(w) ==
  \A v \in AllWorkers \ {w}, t \in Stamps :
    Archives!Compressing(v, t) /\ archJob[v].pc \in {"read", "copy"} =>
      archJob'[v].out = archJob[v].out /\ archJob'[v].holed = archJob[v].holed

LEMMA WriterKeeps ==
  ASSUME ArchiveShape, ArchiveShape', NothingLost, NEW w \in AllWorkers,
         NEW s \in Stamps, s = archJob[w].at, archJob'[w].at = s,
         archJob[w].pc # "idle", archJob[w].pc # "clear", archJob'[w].pc # "clear",
         OthersGoOn(w), OutStays(w), archSaid' = archSaid, archDropped' = archDropped,
         \A t \in Stamps \ {s} : Same(t),
         PlainIn(s)' \in {PlainIn(s), -1},
         ZipIn(s)' # -1 => Holds(s, ZipIn(s)'),
         w = Sweeper => LiveIn' = LiveIn,
         LiveIn = archSaid => LiveIn' = archSaid,
         archJob'[w].pc \in {"copy", "place"} => Holds(s, archJob'[w].text),
         RestsWell(w, s),
         ListedIn(s) = archSaid /\ archSaid \notin archDropped =>
           ListedIn(s)' = archSaid \/ LiveIn = archSaid \/ (w = Sweeper /\ KeptBut(s)),
         Archives!Compressing(w, s)' =>
           /\ \A v \in AllWorkers \ {w} : ~Archives!Compressing(v, s)
           /\ WritesWell(w, s)'
           /\ PlainIn(s)' = -1 => PlainIn(s) = -1 /\ Archives!Compressing(w, s),
         \A v \in AllWorkers \ {w} : Archives!Compressing(v, s) =>
           /\ HalfIn(s)' = HalfIn(s) /\ PlainIn(s)' = PlainIn(s)
           /\ ZipIn(s)' = ZipIn(s) \/ PlainIn(s) = -1
  PROVE  NothingLost'
<1>0. archSaid \in 0..MaxSaid /\ archSaid # -1
  BY JobsTyped
<1>1. HoldsNoMore
  <2>1. \A t \in Stamps : PlainIn(t)' \in {PlainIn(t), -1}
    BY DEF Same
  <2>2. \A t \in Stamps : ZipIn(t)' # -1 => Holds(t, ZipIn(t)')
    BY DEF Same, Holds
  <2> QED
    BY <2>1, <2>2, Holdings
<1>2. KeptBut(s) => KeptBut(s)'
  BY KeptOn DEF Same, ListedIn
<1>3. ASSUME NEW t, t # s, KeptBut(t), archSaid \notin archDropped
      PROVE  KeptBut(t)' \/ (w = Sweeper /\ KeptBut(s))
  <2>1. CASE ListedIn(s) # archSaid \/ ListedIn(s)' = archSaid
    <3>1. \A u \in Stamps \ {t} : ListedIn(u) = archSaid => ListedIn(u)' = archSaid
      BY <2>1 DEF Same, ListedIn
    <3> QED
      BY <1>3, <3>1, KeptOn
  <2>2. CASE LiveIn = archSaid
    BY <2>2 DEF KeptBut
  <2> QED
    BY <1>3, <2>1, <2>2
<1>4. archSaid \notin archDropped' /\ KeptBut("live") => KeptBut("live")'
  <2>1. s # "live"
    BY NamesThere
  <2>2. KeptBut(s)' => KeptBut("live")'
    BY NamesThere DEF KeptBut
  <2> QED
    BY <1>2, <1>3, <2>1, <2>2
<1>5. Compresses'
  <2>0. Compresses
    BY DEF NothingLost
  <2>1. ASSUME NEW t \in Stamps, Archives!Compressing(w, t)'
        PROVE  /\ \A v \in AllWorkers \ {w} : ~Archives!Compressing(v, t)
               /\ WritesWell(w, t)' /\ GoneWell(w, t)'
    <3>1. t = s
      BY <2>1 DEF Archives!Compressing
    <3>2. PlainIn(s)' = -1 => w = Sweeper /\ (archSaid \in archDropped \/ KeptBut(s))
      BY <2>0, <2>1, <3>1 DEF Compresses, GoneWell
    <3>3. GoneWell(w, s)'
      BY <1>2, <3>2 DEF GoneWell
    <3> QED
      BY <2>1, <3>1, <3>3
  <2>2. ASSUME NEW v \in AllWorkers \ {w}, NEW t \in Stamps, Archives!Compressing(v, t)
        PROVE  WritesWell(v, t)' /\ GoneWell(v, t)'
    <3>1. WritesWell(v, t) /\ GoneWell(v, t)
      BY <2>0, <2>2 DEF Compresses
    <3>2. HalfIn(t)' = HalfIn(t) /\ PlainIn(t)' = PlainIn(t)
          /\ (ZipIn(t)' = ZipIn(t) \/ PlainIn(t) = -1)
      BY <2>2 DEF Same
    <3>3. WritesWell(v, t)'
      BY <1>0, <2>2, <3>1, <3>2, OthersWriteWell DEF OthersGoOn, OutStays
    <3>4. GoneWell(v, t)'
      <4> SUFFICES ASSUME PlainIn(t) = -1, archSaid \notin archDropped PROVE v = Sweeper /\ KeptBut(t)'
        BY <3>1, <3>2 DEF GoneWell
      <4>1. v = Sweeper /\ KeptBut(t) /\ w # Sweeper
        BY <3>1 DEF GoneWell
      <4> QED
        BY <1>2, <1>3, <4>1
    <3> QED
      BY <3>3, <3>4
  <2> QED
    BY <2>0, <2>1, <2>2, StillCompresses
<1> QED
  BY <1>1, <1>4, <1>5, StillNothingLost

(* What the others are writing isn't renamed or unlinked under them.       *)
LEMMA OutOfOthers ==
  ASSUME ArchiveShape, Compresses, NEW w \in AllWorkers, NEW s \in Stamps, s = archJob[w].at,
         NEW v \in AllWorkers \ {w}, NEW t \in Stamps, Archives!Compressing(v, t),
         archJob[v].pc \in {"read", "copy"},
         NEW n, \/ n = <<"live", "part">> \/ n = <<"live", "jsonl">> \/ n = <<s, "gz">>
                \/ n = <<s, "jsonl">>
                \/ n = <<s, "part">> /\ Archives!Compressing(w, s)
  PROVE  n # archJob[v].out
<1>1. archJob[v].out \in {<<t, "part">>, Archives!Nowhere} /\ Alone(v, t)
  BY DEF Compresses, WritesWell
<1>2. t # "live" /\ t # "nowhere" /\ s # "nowhere"
  BY ArchivesAssumption
<1>3. Archives!Compressing(w, s) => s # t
  BY <1>1 DEF Alone
<1> QED
  BY <1>1, <1>2, <1>3

LEMMA Unchanged ==
  ASSUME NEW w \in AllWorkers, Archives!Write(w)
  PROVE  archSaid' = archSaid /\ archDropped' = archDropped
BY DEF Archives!Write, Archives!serverVars

(* Steps of a writer that change no file.                                  *)
LEMMA LooksKeep ==
  ASSUME ArchiveShape, ArchiveShape', NothingLost, NEW w \in AllWorkers, Archives!Write(w),
         ~archTwice',
         Archives!Stat(w) \/ Archives!Read(w) \/ Archives!CopyFails(w) \/ Archives!PlaceFails(w)
  PROVE  NothingLost'
<1> DEFINE j == archJob[w]
<1>1. /\ j.pc \in WritingSteps /\ UNCHANGED archFile /\ j.pc \in {"stat", "read", "copy", "place"}
  BY DEF Archives!Stat, Archives!Read, Archives!CopyFails, Archives!PlaceFails, WritingSteps
<1>2. PICK s \in Stamps : s = j.at
  BY <1>1, WorksOn
<1>3. /\ archJob'[w].op = j.op /\ archJob'[w].at = j.at
      /\ \A v \in AllWorkers \ {w} : archJob'[v] = archJob[v]
      /\ \/ Archives!Stat(w) /\ j.pc = "stat" /\ archJob'[w].pc = "end"
         \/ /\ Archives!Stat(w) /\ j.pc = "stat" /\ archJob'[w].pc = "open"
            /\ archFile[Archives!Source(j)] # -1
         \/ j.pc # "stat" /\ archJob'[w].pc = "undo"
         \/ /\ j.pc = "read" /\ archJob'[w].pc = "copy" /\ archJob'[w].out = j.out
            /\ archJob'[w].holed = j.holed /\ archJob'[w].text = archFile[Archives!Source(j)]
            /\ archFile[Archives!Source(j)] # -1
  <2>1. {"open", "end", "undo", "copy"} \subseteq Archives!Pcs
    BY DEF Archives!Pcs
  <2>2. CASE Archives!Stat(w)
    BY <2>1, <2>2, GotoJob DEF Archives!Stat
  <2>3. CASE Archives!CopyFails(w) \/ Archives!PlaceFails(w)
    BY <2>1, <2>3, CloseJob DEF Archives!CopyFails, Archives!PlaceFails
  <2>4. CASE Archives!Read(w)
    <3> DEFINE from == archFile[Archives!Source(j)]
    <3>1. from \in {-1, 0} \cup 1..MaxSaid
      BY <1>1, WorksOn, JobsTyped
    <3>2. CASE from = -1 \/ (j.op = "restore" /\ from = 0)
      BY <2>1, <2>4, <3>2, CloseJob DEF Archives!Read
    <3>3. CASE ~(from = -1 \/ (j.op = "restore" /\ from = 0))
      <4>1. archJob' = [archJob EXCEPT ![w].pc = "copy", ![w].text = from] /\ j.pc = "read"
        BY <2>4, <3>3 DEF Archives!Read
      <4>2. j \in Archives!Jobs /\ from \in {0} \cup 1..MaxSaid
        BY <3>1, <3>3, JobsTyped
      <4> HIDE DEF from
      <4> QED
        BY <2>1, <3>3, <4>1, <4>2, JobsTyped
           DEF from, Archives!Jobs, Archives!Versions
    <3> QED
      BY <3>2, <3>3
  <2> QED
    BY <2>2, <2>3, <2>4
<1>4. OthersGoOn(w) /\ OutStays(w)
  BY <1>3 DEF OthersGoOn, OutStays
<1>5. FilesStay
  BY <1>1, StaySame
<1>6. archFile[Archives!Source(j)] = IF j.op = "restore" THEN ZipIn(s) ELSE PlainIn(s)
  BY <1>1, <1>2, WorksOn DEF ZipIn, PlainIn
<1>7. ASSUME j.pc = "stat", j.op # "restore", NEW v \in AllWorkers \ {w}, Archives!Compressing(v, s)
      PROVE  FALSE
  BY <1>2, <1>7 DEF Archives!Write, AllWorkers, Archives!Stat
<1>8. archSaid' = archSaid /\ archDropped' = archDropped
  BY Unchanged
<1>9. archJob'[w].pc \in {"copy", "place"} => Holds(s, archJob'[w].text)
  BY <1>3, <1>6 DEF Holds
<1>10. ASSUME Archives!Compressing(w, s)'
       PROVE  /\ \A v \in AllWorkers \ {w} : ~Archives!Compressing(v, s)
              /\ WritesWell(w, s)'
              /\ PlainIn(s)' = -1 => PlainIn(s) = -1 /\ Archives!Compressing(w, s)
  <2>1. j.op \in {"archive", "sweep"}
    BY <1>3, <1>10 DEF Archives!Compressing
  <2>2. CASE j.pc = "stat"
    <3>1. archJob'[w].pc = "open" /\ PlainIn(s) # -1
      BY <1>3, <1>6, <1>10, <2>1, <2>2 DEF Archives!Compressing
    <3>2. PlainIn(s)' = PlainIn(s)
      BY <1>5 DEF FilesStay, Same
    <3>3. WritesWell(w, s)'
      BY <3>1 DEF WritesWell
    <3> QED
      BY <1>7, <2>1, <2>2, <3>1, <3>2, <3>3
  <2>3. CASE j.pc # "stat"
    <3>1. Archives!Compressing(w, s)
      BY <1>1, <1>2, <2>1, <2>3 DEF Archives!Compressing
    <3>2. Alone(w, s) /\ WritesWell(w, s)
      BY <3>1 DEF NothingLost, Compresses
    <3> QED
      BY <1>3, <1>5, <2>3, <3>1, <3>2 DEF WritesWell, FilesStay, Same, Alone
  <2> QED
    BY <2>2, <2>3
<1>11. RestsWell(w, s)
  BY <1>3 DEF RestsWell
<1>12. archJob'[w].at = s /\ j.pc # "idle" /\ j.pc # "clear" /\ archJob'[w].pc # "clear"
  BY <1>1, <1>2, <1>3
<1>13. ZipIn(s)' # -1 => Holds(s, ZipIn(s)')
  BY <1>5 DEF FilesStay, Same, Holds
<1>14. ListedIn(s)' = ListedIn(s) /\ LiveIn' = LiveIn
  BY <1>5 DEF FilesStay, Same, ListedIn
<1>15. Same(s) /\ \A t \in Stamps \ {s} : Same(t)
  BY <1>5 DEF FilesStay
<1> QED
  BY <1>2, <1>4, <1>8, <1>9, <1>10, <1>11, <1>12, <1>13, <1>14, <1>15, WriterKeeps DEF Same

LEMMA OpenKeeps ==
  ASSUME ArchiveShape, ArchiveShape', NothingLost, NEW w \in AllWorkers, Archives!Write(w),
         Archives!Open(w)
  PROVE  NothingLost'
<1> DEFINE j == archJob[w]
<1>1. j.pc = "open" /\ j.pc \in WritingSteps /\ archSaid' = archSaid /\ archDropped' = archDropped
  BY Unchanged DEF Archives!Open, WritingSteps
<1>2. PICK s \in Stamps : s = j.at
  BY <1>1, WorksOn
<1>3. PICK n \in Archives!Names : n = Archives!Part(j)
  BY <1>1, WorksOn
<1>4. n = (IF j.op = "restore" THEN <<"live", "part">> ELSE <<s, "part">>)
      /\ j.op \in {"restore", "archive", "sweep"}
  BY <1>1, <1>2, <1>3, WorksOn
<1>5. /\ archJob'[w].op = j.op /\ archJob'[w].at = s
      /\ archJob'[w].pc = "read" /\ archJob'[w].out = n /\ archJob'[w].holed = FALSE
      /\ \A v \in AllWorkers \ {w} :
           /\ archJob'[v].op = archJob[v].op /\ archJob'[v].at = archJob[v].at
           /\ archJob'[v].pc = archJob[v].pc /\ archJob'[v].text = archJob[v].text
           /\ archJob'[v].out = archJob[v].out
           /\ archJob[v].out # n => archJob'[v].holed = archJob[v].holed
  <2>1. archJob' = [v \in AllWorkers |->
                 IF v = w THEN [archJob[v] EXCEPT !.pc = "read", !.out = n, !.holed = FALSE]
                 ELSE IF archJob[v].out = n THEN [archJob[v] EXCEPT !.holed = TRUE]
                 ELSE archJob[v]]
    BY <1>3 DEF Archives!Open, AllWorkers
  <2>2. \A v \in AllWorkers : archJob[v] \in Archives!Jobs
    BY JobsTyped
  <2> QED
    BY <1>2, <2>1, <2>2 DEF Archives!Jobs
<1>6. j.op # "restore" => Archives!Compressing(w, s)
  BY <1>1, <1>2, <1>4 DEF Archives!Compressing
<1>7. OthersGoOn(w) /\ OutStays(w)
  <2>1. \A v \in AllWorkers \ {w}, t \in Stamps :
          Archives!Compressing(v, t) /\ archJob[v].pc \in {"read", "copy"} => n # archJob[v].out
    BY <1>2, <1>4, <1>6, OutOfOthers DEF NothingLost
  <2> QED
    BY <1>5, <2>1 DEF OthersGoOn, OutStays
<1>8. /\ LiveIn' = LiveIn /\ \A t \in Stamps \ {s} : Same(t)
      /\ PlainIn(s)' = PlainIn(s) /\ ZipIn(s)' = ZipIn(s)
      /\ j.op = "restore" => HalfIn(s)' = HalfIn(s)
  BY <1>2, OpenFiles
<1>9. Archives!Compressing(w, s)' =>
        /\ \A v \in AllWorkers \ {w} : ~Archives!Compressing(v, s)
        /\ WritesWell(w, s)'
        /\ PlainIn(s)' = -1 => PlainIn(s) = -1 /\ Archives!Compressing(w, s)
  <2>1. Archives!Compressing(w, s)' => j.op # "restore"
    BY <1>5 DEF Archives!Compressing
  <2>2. j.op # "restore" => Alone(w, s)
    BY <1>6 DEF NothingLost, Compresses
  <2> QED
    BY <1>4, <1>5, <1>6, <1>8, <2>1, <2>2 DEF WritesWell, Alone
<1>10. \A v \in AllWorkers \ {w} : Archives!Compressing(v, s) =>
         HalfIn(s)' = HalfIn(s) /\ PlainIn(s)' = PlainIn(s) /\ ZipIn(s)' = ZipIn(s)
  BY <1>6, <1>8 DEF NothingLost, Compresses, Alone
<1>11. RestsWell(w, s)
  BY <1>5 DEF RestsWell
<1>12. ZipIn(s)' # -1 => Holds(s, ZipIn(s)')
  BY <1>8 DEF Holds
<1>13. ListedIn(s)' = ListedIn(s)
  BY <1>8 DEF ListedIn
<1>14. archJob'[w].pc = "read" /\ j.pc = "open" /\ s = j.at /\ archJob'[w].at = s
  BY <1>1, <1>2, <1>5
<1> QED
  BY <1>1, <1>7, <1>8, <1>9, <1>10, <1>11, <1>12, <1>13, <1>14, WriterKeeps

LEMMA CopyKeeps ==
  ASSUME ArchiveShape, ArchiveShape', NothingLost, NEW w \in AllWorkers, Archives!Write(w),
         Archives!Copy(w)
  PROVE  NothingLost'
<1> DEFINE j == archJob[w]
<1>1. j.pc = "copy" /\ j.pc \in WritingSteps /\ archSaid' = archSaid /\ archDropped' = archDropped
  BY Unchanged DEF Archives!Copy, WritingSteps
<1>2. PICK s \in Stamps : s = j.at
  BY <1>1, WorksOn
<1>3. /\ archJob'[w].op = j.op /\ archJob'[w].at = s /\ archJob'[w].text = j.text
      /\ archJob'[w].pc = "place"
      /\ \A v \in AllWorkers \ {w} : archJob'[v] = archJob[v]
  <2>1. Archives!Goto(w, "place") /\ "place" \in Archives!Pcs
    BY DEF Archives!Copy, Archives!Pcs
  <2> QED
    BY <1>2, <2>1, GotoJob
<1>4. OthersGoOn(w) /\ OutStays(w) /\ j.op \in {"restore", "archive", "sweep"}
  BY <1>1, <1>3, WorksOn DEF OthersGoOn, OutStays
<1>5. j.op # "restore" => Archives!Compressing(w, s) /\ Alone(w, s)
  BY <1>1, <1>2, <1>4 DEF Archives!Compressing, NothingLost, Compresses
<1>6. /\ LiveIn' = LiveIn /\ \A t \in Stamps \ {s} : Same(t)
      /\ PlainIn(s)' = PlainIn(s) /\ ZipIn(s)' = ZipIn(s)
      /\ IF j.op = "restore" THEN HalfIn(s)' = HalfIn(s) ELSE HalfIn(s)' \in {-1, j.text}
  BY <1>2, CopyFiles DEF NothingLost
<1>7. Archives!Compressing(w, s)' =>
        /\ \A v \in AllWorkers \ {w} : ~Archives!Compressing(v, s)
        /\ WritesWell(w, s)'
        /\ PlainIn(s)' = -1 => PlainIn(s) = -1 /\ Archives!Compressing(w, s)
  <2>1. Archives!Compressing(w, s)' => j.op # "restore"
    BY <1>3 DEF Archives!Compressing
  <2> QED
    BY <1>3, <1>5, <1>6, <2>1 DEF WritesWell, Alone
<1>8. \A v \in AllWorkers \ {w} : Archives!Compressing(v, s) =>
         HalfIn(s)' = HalfIn(s) /\ PlainIn(s)' = PlainIn(s) /\ ZipIn(s)' = ZipIn(s)
  BY <1>5, <1>6 DEF Alone
<1>9. Holds(s, j.text)
  <2>1. j.text # -1
    BY JobsTyped DEF Archives!Jobs, Archives!Versions
  <2> QED
    BY <1>1, <1>2, <2>1 DEF Holds
<1>10. RestsWell(w, s)
  BY <1>3 DEF RestsWell
<1>11. (ZipIn(s)' # -1 => Holds(s, ZipIn(s)')) /\ ListedIn(s)' = ListedIn(s)
  BY <1>6 DEF Holds, ListedIn
<1>12. archJob'[w].pc = "place" /\ j.pc = "copy" /\ s = j.at /\ archJob'[w].at = s
       /\ Holds(s, archJob'[w].text)
  BY <1>1, <1>2, <1>3, <1>9
<1> QED
  BY <1>1, <1>4, <1>6, <1>7, <1>8, <1>10, <1>11, <1>12, WriterKeeps

(* A written part becomes the archive's gzipped copy, or the transcript.   *)
LEMMA PlaceKeeps ==
  ASSUME ArchiveShape, ArchiveShape', NothingLost, NEW w \in AllWorkers, Archives!Write(w),
         Archives!Place(w)
  PROVE  NothingLost'
<1> DEFINE j == archJob[w]
<1>1. j.pc = "place" /\ j.pc \in WritingSteps /\ archSaid' = archSaid /\ archDropped' = archDropped
  BY Unchanged DEF Archives!Place, WritingSteps
<1>2. PICK s \in Stamps : s = j.at
  BY <1>1, WorksOn
<1>3. PICK a \in Archives!Names, b \in Archives!Names :
             a = Archives!Part(j) /\ b = Archives!Target(j)
  BY <1>1, WorksOn
<1>4. /\ j.op \in {"restore", "archive", "sweep"} /\ (w = Sweeper => j.op # "restore")
      /\ IF j.op = "restore" THEN a = <<"live", "part">> /\ b = <<"live", "jsonl">>
         ELSE a = <<s, "part">> /\ b = <<s, "gz">>
  BY <1>1, <1>2, <1>3, WorksOn
<1>5. /\ OutputClosed(w, "remove")
      /\ \A v \in AllWorkers \ {w} :
              /\ archJob'[v].op = archJob[v].op /\ archJob'[v].at = archJob[v].at
              /\ archJob'[v].pc = archJob[v].pc /\ archJob'[v].text = archJob[v].text
              /\ archJob'[v].holed = archJob[v].holed
              /\ archJob'[v].out = IF archJob[v].out = a THEN b
                                   ELSE IF archJob[v].out = b THEN Archives!Nowhere
                                   ELSE archJob[v].out
  <2>1. Archives!RenameThen(a, b, w, "remove") /\ "remove" \in Archives!Pcs
    BY <1>3 DEF Archives!Place, Archives!Pcs
  <2> QED
    BY <2>1, RenameThenJob
<1>6. archJob'[w].op = j.op /\ archJob'[w].at = s /\ archJob'[w].pc = "remove"
  BY <1>2, <1>5 DEF OutputClosed
<1>7. j.op # "restore" => Archives!Compressing(w, s) /\ Alone(w, s) /\ WritesWell(w, s)
  BY <1>1, <1>2, <1>4 DEF Archives!Compressing, NothingLost, Compresses
<1>8. OthersGoOn(w) /\ OutStays(w)
  <2>1. \A v \in AllWorkers \ {w}, t \in Stamps :
          Archives!Compressing(v, t) /\ archJob[v].pc \in {"read", "copy"} =>
            a # archJob[v].out /\ b # archJob[v].out
    BY <1>2, <1>4, <1>7, OutOfOthers DEF NothingLost
  <2> QED
    BY <1>5, <2>1 DEF OthersGoOn, OutStays
<1>9. /\ \A t \in Stamps \ {s} : Same(t)
      /\ PlainIn(s)' = PlainIn(s)
      /\ IF j.op = "restore"
         THEN LiveIn' = j.text /\ LiveIn = -1 /\ Same(s)
         ELSE /\ LiveIn' = LiveIn /\ HalfIn(s) # -1
              /\ ZipIn(s)' = HalfIn(s) /\ HalfIn(s)' = -1
  BY <1>2, PlaceFiles
<1>10. j.op # "restore" => HalfIn(s) = j.text
  BY <1>1, <1>7, <1>9 DEF WritesWell
<1>11. Holds(s, j.text) /\ j.text \in 0..MaxSaid /\ archSaid \in 1..MaxSaid
  <2>1. j.text \in {0} \cup 1..MaxSaid /\ archSaid \in 1..MaxSaid
    BY JobsTyped DEF Archives!Jobs, Archives!Versions
  <2>2. j.text # -1 /\ j.text \in 0..MaxSaid
    BY <2>1, ArchivesAssumption
  <2>3. Holds(s, j.text)
    BY <1>1, <1>2, <2>2 DEF Holds
  <2> QED
    BY <2>1, <2>2, <2>3
<1>12. \A x \in 0..MaxSaid : Holds(s, x) => x = j.text
  BY <1>11 DEF NothingLost, OneVersion
<1>13. ZipIn(s)' # -1 => Holds(s, ZipIn(s)')
  <2>1. ZipIn(s)' # -1 => ZipIn(s)' = ZipIn(s) \/ ZipIn(s)' = j.text
    BY <1>9, <1>10 DEF Same
  <2> QED
    BY <1>11, <2>1 DEF Holds
<1>14. RestsWell(w, s)
  <2> SUFFICES ASSUME j.op = "restore", NEW x \in 0..MaxSaid, Holds(s, x)' PROVE x = LiveIn'
    BY <1>6 DEF RestsWell
  <2>1. Holds(s, x)
    BY <1>2, <1>6, <1>8, <1>9 DEF Holds, Same, OthersGoOn
  <2> QED
    BY <1>9, <1>12, <2>1
<1>15. ListedIn(s) = archSaid => ListedIn(s)' = archSaid
  <2>1. CASE PlainIn(s) # -1 \/ j.op = "restore"
    BY <1>9, <2>1 DEF ListedIn, Same
  <2>2. CASE PlainIn(s) = -1 /\ j.op # "restore"
    <3>1. ListedIn(s) = ZipIn(s) /\ ListedIn(s)' = j.text
      BY <1>9, <1>10, <2>2 DEF ListedIn
    <3>2. ZipIn(s) = archSaid => Holds(s, archSaid)
      BY <1>11 DEF Holds
    <3> QED
      BY <1>11, <1>12, <3>1, <3>2
  <2> QED
    BY <2>1, <2>2
<1>16. Archives!Compressing(w, s)' =>
        /\ \A v \in AllWorkers \ {w} : ~Archives!Compressing(v, s)
        /\ WritesWell(w, s)'
        /\ PlainIn(s)' = -1 => PlainIn(s) = -1 /\ Archives!Compressing(w, s)
  <2>1. Archives!Compressing(w, s)' => j.op # "restore"
    BY <1>6 DEF Archives!Compressing
  <2> QED
    BY <1>6, <1>7, <1>9, <2>1 DEF WritesWell, Alone
<1>17. \A v \in AllWorkers \ {w} : Archives!Compressing(v, s) =>
         HalfIn(s)' = HalfIn(s) /\ PlainIn(s)' = PlainIn(s) /\ ZipIn(s)' = ZipIn(s)
  BY <1>7, <1>9 DEF Alone, Same
<1>18. (w = Sweeper => LiveIn' = LiveIn) /\ (LiveIn = archSaid => LiveIn' = archSaid)
  BY <1>4, <1>9, <1>11
<1> QED
  BY <1>1, <1>2, <1>6, <1>8, <1>9, <1>13, <1>14, <1>15, <1>16, <1>17, <1>18, WriterKeeps

(* What was written from goes.                                             *)
LEMMA RemoveKeeps ==
  ASSUME ArchiveShape, ArchiveShape', NothingLost, NEW w \in AllWorkers, Archives!Write(w),
         Archives!Remove(w)
  PROVE  NothingLost'
<1> DEFINE j == archJob[w]
<1>1. j.pc = "remove" /\ j.pc \in WritingSteps /\ archSaid' = archSaid /\ archDropped' = archDropped
  BY Unchanged DEF Archives!Remove, WritingSteps
<1>2. PICK s \in Stamps : s = j.at
  BY <1>1, WorksOn
<1>3. PICK a \in Archives!Names, b \in Archives!Names :
             a = Archives!Source(j) /\ b = Archives!Target(j)
  BY <1>1, WorksOn
<1>4. /\ j.op \in {"restore", "archive", "sweep"} /\ (w # Sweeper => w \in Requesters)
      /\ (j.op = "restore" => w \in Requesters)
      /\ IF j.op = "restore" THEN a = <<s, "gz">> ELSE a = <<s, "jsonl">> /\ b = <<s, "gz">>
  BY <1>1, <1>2, <1>3, WorksOn
<1>5. j.op # "restore" => /\ Archives!Compressing(w, s) /\ Alone(w, s) /\ WritesWell(w, s)
                          /\ GoneWell(w, s)
  BY <1>1, <1>2, <1>4 DEF Archives!Compressing, NothingLost, Compresses
<1>6. ASSUME NEW n \in Archives!Names, n \in {a} \/ (j.op # "restore" /\ n = b),
             Archives!UnlinkThen(n, w, "end")
      PROVE  OthersGoOn(w) /\ OutStays(w) /\ archJob'[w].at = s /\ archJob'[w].pc = "end"
  <2>1. \A v \in AllWorkers :
           /\ archJob'[v].op = archJob[v].op /\ archJob'[v].at = archJob[v].at
           /\ archJob'[v].pc = (IF v = w THEN "end" ELSE archJob[v].pc)
           /\ archJob'[v].text = archJob[v].text /\ archJob'[v].holed = archJob[v].holed
           /\ archJob'[v].out = IF archJob[v].out = n THEN Archives!Nowhere ELSE archJob[v].out
    BY <1>6, UnlinkThenJob DEF Archives!Pcs
  <2>2. \A v \in AllWorkers \ {w}, t \in Stamps :
          Archives!Compressing(v, t) /\ archJob[v].pc \in {"read", "copy"} => n # archJob[v].out
    BY <1>2, <1>4, <1>6, OutOfOthers DEF NothingLost
  <2> QED
    BY <1>2, <2>1, <2>2 DEF OthersGoOn, OutStays
<1>7. OthersGoOn(w) /\ OutStays(w) /\ archJob'[w].at = s /\ archJob'[w].pc = "end"
  <2>1. CASE Archives!UnlinkThen(a, w, "end")
    BY <1>6, <2>1
  <2>2. CASE Archives!UnlinkThen(b, w, "end") /\ j.op # "restore"
    BY <1>6, <2>2
  <2>3. CASE Archives!Goto(w, "end")
    <3>1. /\ archJob'[w].at = archJob[w].at /\ archJob'[w].pc = "end"
          /\ \A v \in AllWorkers \ {w} : archJob'[v] = archJob[v]
      BY <2>3, GotoJob DEF Archives!Pcs
    <3> QED
      BY <1>2, <3>1 DEF OthersGoOn, OutStays
  <2> QED
    BY <1>3, <2>1, <2>2, <2>3 DEF Archives!Remove
<1>8. /\ \A t \in Stamps \ {s} : Same(t)
      /\ LiveIn' = LiveIn /\ HalfIn(s)' = HalfIn(s)
      /\ IF j.op = "restore"
         THEN PlainIn(s)' = PlainIn(s) /\ ZipIn(s)' = -1
         ELSE IF PlainIn(s) # -1 THEN PlainIn(s)' = -1 /\ ZipIn(s)' = ZipIn(s)
         ELSE PlainIn(s)' = -1 /\ ZipIn(s)' = -1
  BY <1>2, RemoveFiles
<1>9. ZipIn(s)' # -1 => Holds(s, ZipIn(s)')
  BY <1>8 DEF Holds
<1>10. archSaid \in 0..MaxSaid /\ archSaid # -1 /\ (j.op = "restore" => PlainIn(s) = -1)
  BY <1>1, <1>2, <1>4, JobsTyped
     DEF ArchiveShape, RestoresWhole, Restoring, WritingSteps, PlainIn
<1>11. ASSUME ListedIn(s) = archSaid, archSaid \notin archDropped
       PROVE  ListedIn(s)' = archSaid \/ LiveIn = archSaid \/ (w = Sweeper /\ KeptBut(s))
  <2>1. Holds(s, archSaid)
    BY <1>10, <1>11 DEF Holds, ListedIn
  <2>2. CASE j.op = "restore"
    BY <1>1, <1>2, <1>4, <1>10, <2>1, <2>2 DEF NothingLost, RestoresSame
  <2>3. CASE j.op # "restore" /\ PlainIn(s) = -1
    BY <1>5, <1>11, <2>3 DEF GoneWell
  <2>4. CASE j.op # "restore" /\ PlainIn(s) # -1
    <3>1. PlainIn(s) = archSaid
      BY <1>11, <2>4 DEF ListedIn
    <3>2. ZipIn(s) # -1
      BY <1>1, <1>5, <1>11, <2>4, <3>1 DEF WritesWell
    <3>3. ZipIn(s) \in 0..MaxSaid
      <4>1. <<s, "gz">> \in Archives!Names
        BY NamesThere
      <4>2. archFile[<<s, "gz">>] \in {-1, 0} \cup 1..MaxSaid
        BY <4>1, JobsTyped
      <4> QED
        BY <3>2, <4>2, ArchivesAssumption DEF ZipIn
    <3>5. Holds(s, ZipIn(s))
      BY <3>2 DEF Holds
    <3>4. ZipIn(s) = archSaid
      BY <1>10, <2>1, <3>3, <3>5 DEF NothingLost, OneVersion
    <3> QED
      BY <1>8, <2>4, <3>4 DEF ListedIn
  <2> QED
    BY <2>2, <2>3, <2>4
<1>12. ~Archives!Compressing(w, s)' /\ RestsWell(w, s)
  BY <1>7 DEF Archives!Compressing, RestsWell
<1>13. \A v \in AllWorkers \ {w} : Archives!Compressing(v, s) =>
         /\ HalfIn(s)' = HalfIn(s) /\ PlainIn(s)' = PlainIn(s)
         /\ ZipIn(s)' = ZipIn(s) \/ PlainIn(s) = -1
  BY <1>5, <1>8, <1>10 DEF Alone
<1>14. PlainIn(s)' \in {PlainIn(s), -1}
  BY <1>8
<1> QED
  BY <1>1, <1>2, <1>7, <1>8, <1>9, <1>11, <1>12, <1>13, <1>14, WriterKeeps

LEMMA UndoKeeps ==
  ASSUME ArchiveShape, ArchiveShape', NothingLost, NEW w \in AllWorkers, Archives!Write(w),
         Archives!Undo(w)
  PROVE  NothingLost'
<1> DEFINE j == archJob[w]
<1>1. j.pc = "undo" /\ j.pc \in WritingSteps /\ archSaid' = archSaid /\ archDropped' = archDropped
  BY Unchanged DEF Archives!Undo, WritingSteps
<1>2. PICK s \in Stamps : s = j.at
  BY <1>1, WorksOn
<1>3. PICK n \in Archives!Names : n = Archives!Part(j)
  BY <1>1, WorksOn
<1>4. n = (IF j.op = "restore" THEN <<"live", "part">> ELSE <<s, "part">>)
      /\ j.op \in {"restore", "archive", "sweep"}
  BY <1>1, <1>2, <1>3, WorksOn
<1>5. j.op # "restore" => Archives!Compressing(w, s) /\ Alone(w, s)
  BY <1>1, <1>2, <1>4 DEF Archives!Compressing, NothingLost, Compresses
<1>6. OthersGoOn(w) /\ OutStays(w) /\ archJob'[w].at = s /\ archJob'[w].pc = "end"
  <2>0. Archives!UnlinkThen(n, w, "end") /\ "end" \in Archives!Pcs
    BY <1>3 DEF Archives!Undo, Archives!Pcs
  <2>1. \A v \in AllWorkers :
           /\ archJob'[v].op = archJob[v].op /\ archJob'[v].at = archJob[v].at
           /\ archJob'[v].pc = (IF v = w THEN "end" ELSE archJob[v].pc)
           /\ archJob'[v].text = archJob[v].text /\ archJob'[v].holed = archJob[v].holed
           /\ archJob'[v].out = IF archJob[v].out = n THEN Archives!Nowhere ELSE archJob[v].out
    BY <2>0, UnlinkThenJob
  <2>2. \A v \in AllWorkers \ {w}, t \in Stamps :
          Archives!Compressing(v, t) /\ archJob[v].pc \in {"read", "copy"} => n # archJob[v].out
    BY <1>2, <1>4, <1>5, OutOfOthers DEF NothingLost
  <2> QED
    BY <1>2, <2>1, <2>2 DEF OthersGoOn, OutStays
<1>7. /\ \A t \in Stamps \ {s} : Same(t)
      /\ LiveIn' = LiveIn /\ PlainIn(s)' = PlainIn(s) /\ ZipIn(s)' = ZipIn(s)
      /\ j.op = "restore" => HalfIn(s)' = HalfIn(s)
  BY <1>2, UndoFiles
<1>8. (ZipIn(s)' # -1 => Holds(s, ZipIn(s)')) /\ ListedIn(s)' = ListedIn(s)
  BY <1>7 DEF Holds, ListedIn
<1>9. ~Archives!Compressing(w, s)' /\ RestsWell(w, s)
  BY <1>6 DEF Archives!Compressing, RestsWell
<1>10. \A v \in AllWorkers \ {w} : Archives!Compressing(v, s) =>
         HalfIn(s)' = HalfIn(s) /\ PlainIn(s)' = PlainIn(s) /\ ZipIn(s)' = ZipIn(s)
  BY <1>5, <1>7 DEF Alone
<1> QED
  BY <1>1, <1>2, <1>6, <1>7, <1>8, <1>9, <1>10, WriterKeeps

LEMMA WriteKeeps ==
  ASSUME ArchiveShape, ArchiveShape', NothingLost, NEW w \in AllWorkers, Archives!Write(w),
         ~archTwice'
  PROVE  NothingLost'
BY LooksKeep, OpenKeeps, CopyKeeps, PlaceKeeps, RemoveKeeps, UndoKeeps
   DEF Archives!Write, Archives!WriteStep

(***************************************************************************)
(* Moves keep it too.                                                      *)
(***************************************************************************)
LEMMA UnchangedByMoves ==
  ASSUME NEW w \in AllWorkers, Archives!Move(w)
  PROVE  archSaid' = archSaid /\ archDropped' = archDropped
BY DEF Archives!Move, Archives!serverVars, Archives!history

(* A request's step that leaves the files, and doesn't write.              *)
LEMMA QuietKeeps ==
  ASSUME ArchiveShape, ArchiveShape', NothingLost, NEW w \in AllWorkers,
         UNCHANGED archFile, archSaid' = archSaid, archDropped \subseteq archDropped',
         \A v \in AllWorkers \ {w} : archJob'[v] = archJob[v],
         archJob'[w].pc \in {"idle", "look", "move", "back", "stat", "end", "clear"},
         NEW at, at = archJob'[w].at, RestsWell(w, at)
  PROVE  NothingLost'
<1>1. FilesStay /\ OthersGoOn(w) /\ archSaid \in 1..MaxSaid
  BY StaySame, JobsTyped DEF OthersGoOn
<1>2. HoldsNoMore
  BY <1>1 DEF HoldsNoMore, Holds, OthersGoOn, FilesStay, Same
<1>3. \A t : KeptBut(t) => KeptBut(t)'
  BY <1>1 DEF KeptBut, FilesStay, Same, ListedIn
<1>4. Compresses'
  <2>1. \A s \in Stamps : ~Archives!Compressing(w, s)'
    BY DEF Archives!Compressing
  <2>2. ASSUME NEW v \in AllWorkers \ {w}, NEW s \in Stamps, Archives!Compressing(v, s)
        PROVE  WritesWell(v, s)' /\ GoneWell(v, s)'
    <3>1. WritesWell(v, s) /\ GoneWell(v, s)
      BY <2>2 DEF NothingLost, Compresses
    <3> QED
      BY <1>1, <1>3, <3>1 DEF WritesWell, GoneWell, FilesStay, Same
  <2> QED
    BY <1>1, <2>1, <2>2, StillCompresses DEF NothingLost
<1> QED
  BY <1>1, <1>2, <1>3, <1>4, StillNothingLost DEF FilesStay

(* What the sweeper compresses isn't what a request moves to.              *)
LEMMA MoveAwayKeeps ==
  ASSUME ArchiveShape, ArchiveShape', NothingLost, NEW w \in AllWorkers, Archives!Move(w),
         Archives!MoveAway(w)
  PROVE  NothingLost'
<1> DEFINE j == archJob[w]
<1>1. /\ j.pc = "move" /\ archSaid' = archSaid /\ archDropped' = archDropped
      /\ archSaid \in 1..MaxSaid
  BY UnchangedByMoves, JobsTyped DEF Archives!MoveAway
<1>2. PICK s \in Stamps : s = j.at
  BY <1>1, MoverHolds
<1>3. /\ w \in Requesters /\ j.op = "archive" /\ archJob[Sweeper].at # s
      /\ \A q \in Requesters \ {w} : archJob[q].pc = "idle"
  BY <1>1, <1>2, MoverHolds, OthersIdle DEF ArchiveShape, MovesToNew
<1>4. PICK a \in Archives!Names, b \in Archives!Names :
             a = <<"live", "jsonl">> /\ b = <<s, "jsonl">>
  BY <1>2, NamesThere
<1>5. /\ archJob'[w].op = "archive" /\ archJob'[w].at = s /\ archJob'[w].pc \in {"stat", "end"}
      /\ \A v \in AllWorkers \ {w} :
              /\ archJob'[v].op = archJob[v].op /\ archJob'[v].at = archJob[v].at
              /\ archJob'[v].pc = archJob[v].pc /\ archJob'[v].text = archJob[v].text
              /\ archJob'[v].holed = archJob[v].holed
              /\ archJob'[v].out = IF archJob[v].out = a THEN b
                                   ELSE IF archJob[v].out = b THEN Archives!Nowhere
                                   ELSE archJob[v].out
              \/ archJob'[v] = archJob[v]
  <2>1. {"stat", "end"} \subseteq Archives!Pcs
    BY DEF Archives!Pcs
  <2>2. CASE Archives!RenameThen(a, b, w, "stat")
    <3>1. OutputClosed(w, "stat")
      BY <2>1, <2>2, RenameThenJob
    <3> QED
      BY <1>2, <1>3, <2>1, <2>2, <3>1, RenameThenJob DEF OutputClosed
  <2>3. CASE Archives!Goto(w, "end")
    BY <1>2, <1>3, <2>1, <2>3, GotoJob
  <2> QED
    BY <1>2, <1>4, <2>2, <2>3 DEF Archives!MoveAway
<1>6. OthersGoOn(w)
  BY <1>5 DEF OthersGoOn
<1>7. /\ \A t \in Stamps \ {s} : Same(t)
      /\ PlainIn(s) = -1 /\ ZipIn(s) = -1 /\ HalfIn(s) = -1
      /\ ZipIn(s)' = -1 /\ HalfIn(s)' = -1
      /\ LiveIn' = -1 /\ PlainIn(s)' = LiveIn
  BY <1>2, MoveFiles
<1>8. ASSUME NEW v \in AllWorkers, archJob[v].at = s, archJob[v].pc # "idle"
      PROVE  v = w
  BY <1>3, <1>8 DEF AllWorkers
<1>9. \A x : Holds(s, x)' => x = LiveIn
  BY <1>5, <1>6, <1>7, <1>8 DEF Holds, OthersGoOn
<1>10. \A t \in Stamps \ {s}, x \in 0..MaxSaid : Holds(t, x)' => Holds(t, x)
  BY <1>5, <1>6, <1>7 DEF Holds, OthersGoOn, Same
<1>11. LiveIn # 0
  BY DEF ArchiveShape, FilesSound, LiveIn
<1>12. OneVersion'
  <2> SUFFICES ASSUME NEW t \in Stamps, NEW x \in 0..MaxSaid, NEW y \in 0..MaxSaid,
                      Holds(t, x)', Holds(t, y)'
               PROVE  x = y /\ x # 0
    BY DEF OneVersion
  <2>1. CASE t = s
    BY <1>9, <1>11, <2>1
  <2>2. CASE t # s
    BY <1>10, <2>2 DEF NothingLost, OneVersion
  <2> QED
    BY <2>1, <2>2
<1>13. \A t \in (Stamps \cup {"live"}) \ {s} : KeptBut(t) => KeptBut(t)'
  <2> SUFFICES ASSUME NEW t \in (Stamps \cup {"live"}) \ {s}, KeptBut(t) PROVE KeptBut(t)'
    OBVIOUS
  <2>1. CASE LiveIn = archSaid
    <3>1. ListedIn(s)' = archSaid
      BY <1>1, <1>7, <2>1 DEF ListedIn
    <3> QED
      BY <1>1, <3>1 DEF KeptBut
  <2>2. CASE LiveIn # archSaid
    <3>1. PICK u \in Stamps \ {t} : ListedIn(u) = archSaid
      BY <2>2 DEF KeptBut
    <3>2. u # s
      BY <1>1, <1>7, <3>1 DEF ListedIn
    <3>3. ListedIn(u)' = archSaid
      BY <1>7, <3>1, <3>2 DEF ListedIn, Same
    <3> QED
      BY <1>1, <3>1, <3>3 DEF KeptBut
  <2> QED
    BY <2>1, <2>2
<1>14. Compresses'
  <2>1. \A t \in Stamps : ~Archives!Compressing(w, t)'
    BY <1>5 DEF Archives!Compressing
  <2>2. ASSUME NEW v \in AllWorkers \ {w}, NEW t \in Stamps, Archives!Compressing(v, t)
        PROVE  WritesWell(v, t)' /\ GoneWell(v, t)'
    <3>1. WritesWell(v, t) /\ GoneWell(v, t)
      BY <2>2 DEF NothingLost, Compresses
    <3>2. t # s /\ Same(t)
      BY <1>7, <1>8, <2>2 DEF Archives!Compressing
    <3>3. archJob[v].pc \in {"read", "copy"} =>
            archJob[v].out \in {<<t, "part">>, Archives!Nowhere}
      BY <3>1 DEF WritesWell
    <3>4. a # <<t, "part">> /\ b # <<t, "part">> /\ a # Archives!Nowhere /\ b # Archives!Nowhere
      BY <1>4
    <3>5. archJob[v].pc \in {"read", "copy"} =>
            archJob'[v].out = archJob[v].out /\ archJob'[v].holed = archJob[v].holed
      BY <1>5, <3>3, <3>4
    <3>6. WritesWell(v, t)'
      BY <1>1, <1>6, <3>1, <3>2, <3>5, OthersWriteWell DEF OthersGoOn, Same
    <3> QED
      BY <1>1, <1>13, <3>1, <3>2, <3>6 DEF GoneWell, Same
  <2> QED
    BY <1>6, <2>1, <2>2, StillCompresses DEF NothingLost
<1>15. \A r \in Requesters : archJob'[r].pc \in {"idle", "stat", "end"}
  BY <1>3, <1>5, <1>6 DEF OthersGoOn, AllWorkers
<1>16. RestoresSame' /\ DeletesAsked'
  BY <1>15 DEF RestoresSame, DeletesAsked
<1>17. archSaid' \notin archDropped' => KeptBut("live")'
  <2>1. s # "live"
    BY NamesThere
  <2> QED
    BY <1>1, <1>13, <2>1 DEF NothingLost
<1> QED
  BY <1>12, <1>14, <1>16, <1>17 DEF NothingLost

(* A plain archive is put back.                                            *)
LEMMA PutBackKeeps ==
  ASSUME ArchiveShape, ArchiveShape', NothingLost, NEW w \in AllWorkers, Archives!Move(w),
         Archives!PutBack(w)
  PROVE  NothingLost'
<1> DEFINE j == archJob[w]
<1>1. /\ j.pc = "back" /\ archSaid' = archSaid /\ archDropped' = archDropped
      /\ archSaid \in 1..MaxSaid
  BY UnchangedByMoves, JobsTyped DEF Archives!PutBack
<1>2. PICK s \in Stamps : s = j.at
  BY <1>1, MoverHolds
<1>3. /\ w \in Requesters /\ w # Sweeper /\ j.op = "restore" /\ s # "live"
      /\ \A q \in Requesters \ {w} : archJob[q].pc = "idle"
  BY <1>1, <1>2, MoverHolds, OthersIdle, ArchivesAssumption
<1>4. PICK a \in Archives!Names, b \in Archives!Names :
             a = <<s, "jsonl">> /\ b = <<"live", "jsonl">>
  BY <1>2, NamesThere
<1>5. /\ archJob'[w].op = "restore" /\ archJob'[w].at = s /\ archJob'[w].pc = "end"
      /\ \A v \in AllWorkers \ {w} :
              /\ archJob'[v].op = archJob[v].op /\ archJob'[v].at = archJob[v].at
              /\ archJob'[v].pc = archJob[v].pc /\ archJob'[v].text = archJob[v].text
              /\ archJob'[v].holed = archJob[v].holed
              /\ archJob'[v].out = IF archJob[v].out = a THEN b
                                   ELSE IF archJob[v].out = b THEN Archives!Nowhere
                                   ELSE archJob[v].out
              \/ archJob'[v] = archJob[v]
  <2>1. "end" \in Archives!Pcs
    BY DEF Archives!Pcs
  <2>2. CASE Archives!RenameThen(a, b, w, "end")
    <3>1. OutputClosed(w, "end")
      BY <2>1, <2>2, RenameThenJob
    <3> QED
      BY <1>2, <1>3, <2>1, <2>2, <3>1, RenameThenJob DEF OutputClosed
  <2>3. CASE Archives!Goto(w, "end")
    BY <1>2, <1>3, <2>1, <2>3, GotoJob
  <2> QED
    BY <1>2, <1>4, <2>2, <2>3 DEF Archives!PutBack
<1>6. OthersGoOn(w)
  BY <1>5 DEF OthersGoOn
<1>7. /\ \A t \in Stamps \ {s} : Same(t)
      /\ ZipIn(s)' = ZipIn(s) /\ HalfIn(s)' = HalfIn(s)
      /\ LiveIn = -1 /\ LiveIn' = PlainIn(s) /\ PlainIn(s)' = -1
  BY <1>2, BackFiles
<1>8. HoldsNoMore
  <2>1. \A t \in Stamps : PlainIn(t)' \in {PlainIn(t), -1}
    BY <1>7 DEF Same
  <2>2. \A t \in Stamps : ZipIn(t)' # -1 => Holds(t, ZipIn(t)')
    BY <1>7 DEF Same, Holds
  <2>3. s = archJob'[w].at /\ archJob'[w].pc \notin {"copy", "place"}
    BY <1>5
  <2> QED
    BY <1>6, <2>1, <2>2, <2>3, Holdings
<1>9. ASSUME NEW t \in Stamps \cup {"live"}, KeptBut(t), t # s
      PROVE  KeptBut(t)'
  <2>1. PICK u \in Stamps \ {t} : ListedIn(u) = archSaid
    BY <1>1, <1>7, <1>9 DEF KeptBut
  <2>2. CASE u # s
    <3>1. ListedIn(u)' = archSaid
      BY <1>7, <2>1, <2>2 DEF ListedIn, Same
    <3> QED
      BY <1>1, <2>1, <3>1 DEF KeptBut
  <2>3. CASE u = s /\ PlainIn(s) # -1
    BY <1>1, <1>7, <2>1, <2>3 DEF ListedIn, KeptBut
  <2>4. CASE u = s /\ PlainIn(s) = -1
    <3>1. ListedIn(u)' = archSaid
      BY <1>7, <2>1, <2>4 DEF ListedIn
    <3> QED
      BY <1>1, <2>1, <3>1 DEF KeptBut
  <2> QED
    BY <2>2, <2>3, <2>4
<1>10. KeptBut(s) => KeptBut(s)'
  BY <1>1, <1>7 DEF KeptBut, ListedIn, Same
<1>11. archSaid \in archDropped \/ (PlainIn(s) # -1 => KeptBut(s)')
  <2> SUFFICES ASSUME archSaid \notin archDropped, PlainIn(s) # -1 PROVE KeptBut(s)'
    OBVIOUS
  <2>1. PICK u \in Stamps : ListedIn(u) = archSaid
    BY <1>1, <1>7 DEF NothingLost, KeptBut
  <2>2. CASE u = s
    BY <1>1, <1>7, <2>1, <2>2 DEF ListedIn, KeptBut
  <2>3. CASE u # s
    BY <1>10, <2>1, <2>3 DEF KeptBut
  <2> QED
    BY <2>2, <2>3
<1>12. Compresses'
  <2>1. \A t \in Stamps : ~Archives!Compressing(w, t)'
    BY <1>5 DEF Archives!Compressing
  <2>2. ASSUME NEW v \in AllWorkers \ {w}, NEW t \in Stamps, Archives!Compressing(v, t)
        PROVE  WritesWell(v, t)' /\ GoneWell(v, t)'
    <3>1. WritesWell(v, t) /\ GoneWell(v, t)
      BY <2>2 DEF NothingLost, Compresses
    <3>2. v = Sweeper
      BY <1>3, <2>2 DEF AllWorkers, Archives!Compressing
    <3>3. archJob[v].pc \in {"read", "copy"} =>
            archJob[v].out \in {<<t, "part">>, Archives!Nowhere}
      BY <3>1 DEF WritesWell
    <3>4. a # <<t, "part">> /\ b # <<t, "part">> /\ a # Archives!Nowhere /\ b # Archives!Nowhere
      BY <1>4
    <3>5. archJob[v].pc \in {"read", "copy"} =>
            archJob'[v].out = archJob[v].out /\ archJob'[v].holed = archJob[v].holed
      BY <1>5, <3>3, <3>4
    <3>6. HalfIn(t)' = HalfIn(t) /\ ZipIn(t)' = ZipIn(t) /\ PlainIn(t)' \in {PlainIn(t), -1}
      BY <1>7 DEF Same
    <3>7. WritesWell(v, t)'
      BY <1>1, <1>6, <3>1, <3>5, <3>6, OthersWriteWell DEF OthersGoOn
    <3>8. GoneWell(v, t)'
      <4> SUFFICES ASSUME PlainIn(t)' = -1, archSaid \notin archDropped PROVE KeptBut(t)'
        BY <1>1, <3>2 DEF GoneWell
      <4>1. CASE t = s
        BY <1>10, <1>11, <3>1, <4>1 DEF GoneWell
      <4>2. CASE t # s
        <5>1. PlainIn(t) = -1
          BY <1>7, <4>2 DEF Same
        <5> QED
          BY <1>9, <3>1, <4>2, <5>1 DEF GoneWell
      <4> QED
        BY <4>1, <4>2
    <3> QED
      BY <3>7, <3>8
  <2> QED
    BY <1>6, <2>1, <2>2, StillCompresses DEF NothingLost
<1>13. RestsWell(w, s) /\ s = archJob'[w].at
  BY <1>5 DEF RestsWell
<1> QED
  BY <1>1, <1>3, <1>6, <1>8, <1>9, <1>12, <1>13, StillNothingLost

(* A file of an archive that is to go, goes.                               *)
LEMMA ClearKeeps ==
  ASSUME ArchiveShape, ArchiveShape', NothingLost, NEW w \in AllWorkers, Archives!Move(w),
         Archives!Clear(w)
  PROVE  NothingLost'
<1> DEFINE j == archJob[w]
<1>1. /\ j.pc = "clear" /\ archSaid' = archSaid /\ archDropped' = archDropped
      /\ archSaid \in 1..MaxSaid /\ archSaid \in 0..MaxSaid
  BY UnchangedByMoves, JobsTyped DEF Archives!Clear
<1>2. PICK s \in Stamps : s = j.at
  BY <1>1, MoverHolds
<1>3. /\ w \in Requesters /\ w # Sweeper /\ s # "live"
      /\ \A q \in Requesters \ {w} : archJob[q].pc = "idle"
  BY <1>1, <1>2, MoverHolds, OthersIdle, ArchivesAssumption
<1>4. archSaid \in archDropped \/ ~Holds(s, archSaid)
  BY <1>1, <1>2, <1>3 DEF NothingLost, DeletesAsked
<1>5. /\ LiveIn' = LiveIn /\ \A t \in Stamps \ {s} : Same(t)
      /\ PlainIn(s)' \in {PlainIn(s), -1} /\ ZipIn(s)' \in {ZipIn(s), -1}
      /\ \/ HalfIn(s)' = HalfIn(s) /\ Archives!Unlink(<<s, "jsonl">>)
         \/ HalfIn(s)' = HalfIn(s) /\ Archives!Unlink(<<s, "gz">>)
         \/ HalfIn(s)' = -1 /\ Archives!Unlink(<<s, "part">>)
  BY <1>2, ClearFiles
<1>6. PICK k \in {"jsonl", "gz", "part"}, n \in Archives!Names :
        /\ n = <<s, k>> /\ Archives!Unlink(n)
        /\ IF k = "part" THEN HalfIn(s)' = -1 ELSE HalfIn(s)' = HalfIn(s)
  BY <1>5, NamesThere
<1>7. \A v \in AllWorkers :
              /\ archJob'[v].op = archJob[v].op /\ archJob'[v].at = archJob[v].at
              /\ archJob'[v].pc = archJob[v].pc /\ archJob'[v].text = archJob[v].text
              /\ archJob'[v].holed = archJob[v].holed
              /\ archJob'[v].out = IF archJob[v].out = n THEN Archives!Nowhere ELSE archJob[v].out
  BY <1>6, UnlinkJob
<1>8. OthersGoOn(w)
  BY <1>7 DEF OthersGoOn
<1>9. HoldsNoMore
  <2>1. \A t \in Stamps : PlainIn(t)' \in {PlainIn(t), -1}
    BY <1>5 DEF Same
  <2>2. \A t \in Stamps : ZipIn(t)' # -1 => Holds(t, ZipIn(t)')
    BY <1>5 DEF Same, Holds
  <2>3. s = archJob'[w].at /\ archJob'[w].pc \notin {"copy", "place"}
    BY <1>1, <1>2, <1>7
  <2> QED
    BY <1>8, <2>1, <2>2, <2>3, Holdings
<1>10. ListedIn(s) = archSaid => archSaid \in archDropped
  BY <1>1, <1>4 DEF ListedIn, Holds
<1>11. ASSUME NEW t \in Stamps \cup {"live"}, KeptBut(t), archSaid \notin archDropped
       PROVE  KeptBut(t)' /\ KeptBut(s)'
  <2>1. CASE LiveIn = archSaid
    BY <1>1, <1>5, <2>1 DEF KeptBut
  <2>2. CASE LiveIn # archSaid
    <3>1. PICK u \in Stamps \ {t} : ListedIn(u) = archSaid
      BY <1>11, <2>2 DEF KeptBut
    <3>2. u # s
      BY <1>10, <1>11, <3>1
    <3>3. ListedIn(u)' = archSaid
      BY <1>5, <3>1, <3>2 DEF ListedIn, Same
    <3> QED
      BY <1>1, <3>1, <3>2, <3>3 DEF KeptBut
  <2> QED
    BY <2>1, <2>2
<1>12. Compresses'
  <2>1. \A t \in Stamps : ~Archives!Compressing(w, t)'
    BY <1>1, <1>7 DEF Archives!Compressing
  <2>2. ASSUME NEW v \in AllWorkers \ {w}, NEW t \in Stamps, Archives!Compressing(v, t)
        PROVE  WritesWell(v, t)' /\ GoneWell(v, t)'
    <3>1. WritesWell(v, t) /\ GoneWell(v, t)
      BY <2>2 DEF NothingLost, Compresses
    <3>2. v = Sweeper
      BY <1>3, <2>2 DEF AllWorkers, Archives!Compressing
    <3>3. GoneWell(v, t)'
      <4> SUFFICES ASSUME PlainIn(t)' = -1, archSaid \notin archDropped PROVE KeptBut(t)'
        BY <1>1, <3>2 DEF GoneWell
      <4>1. KeptBut("live")
        BY DEF NothingLost
      <4>2. CASE t = s
        BY <1>11, <4>1, <4>2
      <4>3. CASE t # s
        <5>1. PlainIn(t) = -1
          BY <1>5, <4>3 DEF Same
        <5> QED
          BY <1>11, <3>1, <5>1 DEF GoneWell
      <4> QED
        BY <4>2, <4>3
    <3>4. WritesWell(v, t)'
      <4>1. CASE t # s
        <5>1. archJob[v].pc \in {"read", "copy"} => n # archJob[v].out
          BY <1>6, <3>1, <4>1, ArchivesAssumption DEF WritesWell
        <5> QED
          BY <1>1, <1>5, <1>7, <3>1, <4>1, <5>1, OthersWriteWell DEF Same
      <4>2. CASE t = s /\ k # "part"
        <5>1. archJob[v].pc \in {"read", "copy"} => n # archJob[v].out
          BY <1>6, <3>1, <4>2 DEF WritesWell
        <5>2. ZipIn(s)' = ZipIn(s) \/ PlainIn(s) # archSaid \/ archSaid \in archDropped'
          BY <1>1, <1>4 DEF Holds
        <5> QED
          BY <1>1, <1>5, <1>6, <1>7, <3>1, <4>2, <5>1, <5>2, OthersWriteWell
      <4>3. CASE t = s /\ k = "part"
        <5>1. HalfIn(s)' = -1
          BY <1>6, <4>3
        <5>2. n = <<t, "part">>
          BY <1>6, <4>3
        <5>3. PlainIn(s) = archSaid => archSaid \in archDropped
          BY <1>1, <1>4 DEF Holds
        <5>4. PlainIn(s)' = archSaid => PlainIn(s) = archSaid
          BY <1>1, <1>5
        <5>5. archJob'[v].pc \in {"read", "copy"} => archJob'[v].out = Archives!Nowhere
          BY <1>7, <3>1, <5>2 DEF WritesWell
        <5> QED
          BY <1>1, <4>3, <5>1, <5>3, <5>4, <5>5 DEF WritesWell
      <4> QED
        BY <1>6, <4>1, <4>2, <4>3
    <3> QED
      BY <3>3, <3>4
  <2> QED
    BY <1>8, <2>1, <2>2, StillCompresses DEF NothingLost
<1>13. RestsWell(w, s) /\ s = archJob'[w].at
  <2>1. archSaid \in archDropped' \/ ~Holds(s, archSaid)'
    BY <1>1, <1>2, <1>4, <1>9 DEF HoldsNoMore
  <2> QED
    BY <1>1, <1>2, <1>7, <2>1 DEF RestsWell
<1> QED
  BY <1>1, <1>3, <1>5, <1>8, <1>9, <1>11, <1>12, <1>13, StillNothingLost

LEMMA MoveKeeps ==
  ASSUME ArchiveShape, ArchiveShape', NothingLost, NEW w \in AllWorkers, Archives!Move(w)
  PROVE  NothingLost'
<1>1. CASE Archives!ClearEnds(w)
  <2>1. /\ UNCHANGED archFile /\ archSaid' = archSaid /\ archDropped' = archDropped
        /\ Archives!Goto(w, "end") /\ "end" \in Archives!Pcs
    BY <1>1, UnchangedByMoves DEF Archives!ClearEnds, Archives!Pcs
  <2>2. archJob'[w].pc = "end" /\ \A v \in AllWorkers \ {w} : archJob'[v] = archJob[v]
    BY <2>1, GotoJob
  <2>3. PICK at : at = archJob'[w].at
    OBVIOUS
  <2>4. RestsWell(w, at)
    BY <2>2 DEF RestsWell
  <2> QED
    BY <2>1, <2>2, <2>3, <2>4, QuietKeeps
<1> QED
  BY <1>1, MoveAwayKeeps, PutBackKeeps, ClearKeeps DEF Archives!Move

(* Requests look, and the sweeper goes through its list.                   *)
LEMMA TakeKeeps ==
  ASSUME ArchiveShape, ArchiveShape', NothingLost, NEW r \in Requesters,
         \/ \E op \in {"archive", "restore", "delete"}, s \in Archives!Places : Archives!Take(r, op, s)
         \/ Archives!LookToArchive(r) \/ Archives!LookToRestore(r) \/ Archives!Finish(r)
  PROVE  NothingLost'
<1>1. UNCHANGED archFile /\ archSaid' = archSaid /\ archDropped' = archDropped
  BY DEF Archives!Take, Archives!LookToArchive, Archives!LookToRestore, Archives!Finish,
         Archives!serverVars, Archives!history
<1>2. r \in AllWorkers /\ archJob \in [AllWorkers -> Archives!Jobs]
  BY JobsTyped DEF AllWorkers
<1>3. /\ archJob'[r].pc \in {"idle", "look", "move", "back", "stat", "end"}
      /\ \A v \in AllWorkers \ {r} : archJob'[v] = archJob[v]
  <2>1. ASSUME NEW op \in {"archive", "restore", "delete"}, NEW s \in Archives!Places,
               Archives!Take(r, op, s)
        PROVE  archJob'[r].pc = "look" /\ \A v \in AllWorkers \ {r} : archJob'[v] = archJob[v]
    <3> DEFINE next == [Archives!Idle EXCEPT !.op = op, !.pc = "look", !.at = s]
    <3>1. archJob' = [archJob EXCEPT ![r] = next]
      BY <2>1 DEF Archives!Take
    <3>2. next.pc = "look"
      BY DEF Archives!Idle
    <3> HIDE DEF next
    <3> QED
      BY <1>2, <3>1, <3>2
  <2>2. CASE Archives!LookToArchive(r)
    <3>1. CASE Archives!Goto(r, "end")
      BY <1>2, <3>1, GotoJob DEF Archives!Pcs
    <3>2. ASSUME NEW s \in Stamps, archJob' = [archJob EXCEPT ![r].pc = "move", ![r].at = s]
          PROVE  archJob'[r].pc = "move" /\ \A v \in AllWorkers \ {r} : archJob'[v] = archJob[v]
      <4>1. archJob[r] \in Archives!Jobs
        BY <1>2
      <4> QED
        BY <1>2, <3>2, <4>1 DEF Archives!Jobs
    <3> QED
      BY <2>2, <3>1, <3>2 DEF Archives!LookToArchive
  <2>3. CASE Archives!LookToRestore(r)
    <3>1. PICK pc1 \in {"end", "back", "stat"} : Archives!Goto(r, pc1)
      BY <2>3 DEF Archives!LookToRestore
    <3> QED
      BY <1>2, <3>1, GotoJob DEF Archives!Pcs
  <2>4. CASE Archives!Finish(r)
    <3>1. archJob' = [archJob EXCEPT ![r] = Archives!Idle] /\ Archives!Idle.pc = "idle"
      BY <2>4 DEF Archives!Finish, Archives!Idle
    <3> QED
      BY <1>2, <3>1
  <2> QED
    BY <2>1, <2>2, <2>3, <2>4
<1>4. PICK at : at = archJob'[r].at
  OBVIOUS
<1>5. RestsWell(r, at)
  BY <1>3 DEF RestsWell
<1> QED
  BY <1>1, <1>2, <1>3, <1>4, <1>5, QuietKeeps

LEMMA LookToDeleteKeeps ==
  ASSUME ArchiveShape, ArchiveShape', NothingLost, NEW r \in Requesters, Archives!LookToDelete(r)
  PROVE  NothingLost'
<1> DEFINE j == archJob[r]
<1>1. /\ UNCHANGED archFile /\ archSaid' = archSaid /\ archDropped \subseteq archDropped'
      /\ j.pc = "look" /\ j.op = "delete"
  BY DEF Archives!LookToDelete, Archives!serverVars
<1>2. /\ r \in AllWorkers /\ archJob \in [AllWorkers -> Archives!Jobs] /\ archSaid \in 1..MaxSaid
      /\ archSaid \in 0..MaxSaid
  BY JobsTyped DEF AllWorkers
<1>3. PICK s \in Stamps : s = j.at
  BY <1>1, <1>2, JobsTyped DEF ArchiveShape, JobsHeld, JobHeld
<1>4. PICK pc1 \in {"end", "clear"} :
        /\ Archives!Goto(r, pc1)
        /\ pc1 = "clear" => /\ archFile[Archives!Listed(j.at)] # -1
                            /\ archDropped' = archDropped \cup ({PlainIn(s), ZipIn(s)} \cap 1..MaxSaid)
  BY <1>3 DEF Archives!LookToDelete, Archives!Versions, PlainIn, ZipIn
<1>5. /\ archJob'[r].pc = pc1 /\ archJob'[r].op = "delete" /\ archJob'[r].at = s
      /\ \A v \in AllWorkers \ {r} : archJob'[v] = archJob[v]
  BY <1>1, <1>2, <1>3, <1>4, GotoJob DEF Archives!Pcs
<1>6. ASSUME pc1 = "clear", archSaid \notin archDropped', Holds(s, archSaid)'
      PROVE  FALSE
  <2>1. Holds(s, archSaid)
    BY <1>1, <1>2, <1>5, <1>6 DEF Holds, PlainIn, ZipIn
  <2>2. archFile[Archives!Listed(s)] = ListedIn(s) /\ ListedIn(s) # -1
    <3>1. archFile[Archives!Listed(s)] = ListedIn(s)
      BY DEF Archives!Listed, ListedIn, PlainIn, ZipIn
    <3> QED
      BY <1>3, <1>4, <1>6, <3>1
  <2>3. PlainIn(s) # archSaid /\ ZipIn(s) # archSaid
    BY <1>2, <1>4, <1>6
  <2>4. Holds(s, ListedIn(s)) /\ ListedIn(s) \in {PlainIn(s), ZipIn(s)}
    BY <2>2 DEF ListedIn, Holds
  <2>5. ListedIn(s) \in 0..MaxSaid
    <3>1. <<s, "gz">> \in Archives!Names /\ <<s, "jsonl">> \in Archives!Names
      BY NamesThere
    <3>2. archFile[<<s, "gz">>] \in {-1, 0} \cup 1..MaxSaid
          /\ archFile[<<s, "jsonl">>] \in {-1, 0} \cup 1..MaxSaid
      BY <3>1, JobsTyped
    <3> QED
      BY <2>2, <2>4, <3>2, ArchivesAssumption DEF PlainIn, ZipIn
  <2>6. ListedIn(s) = archSaid
    BY <1>2, <2>1, <2>4, <2>5 DEF NothingLost, OneVersion
  <2> QED
    BY <2>3, <2>4, <2>6
<1>7. RestsWell(r, s)
  BY <1>5, <1>6 DEF RestsWell
<1> QED
  BY <1>1, <1>2, <1>3, <1>5, <1>7, QuietKeeps

LEMMA SweepKeeps ==
  ASSUME ArchiveShape, ArchiveShape', NothingLost,
         Archives!SweepList \/ Archives!SweepNext \/ Archives!SweepDone
  PROVE  NothingLost'
<1>1. UNCHANGED archFile /\ archSaid' = archSaid /\ archDropped' = archDropped
  BY DEF Archives!SweepList, Archives!SweepNext, Archives!SweepDone,
         Archives!serverVars, Archives!history
<1>2. Sweeper \in AllWorkers /\ archJob \in [AllWorkers -> Archives!Jobs]
  BY JobsTyped DEF AllWorkers
<1>3. /\ archJob'[Sweeper].pc \in {"idle", "stat", "end"}
      /\ \A v \in AllWorkers \ {Sweeper} : archJob'[v] = archJob[v]
  <2>1. CASE Archives!SweepList
    <3>1. Archives!Goto(Sweeper, "end") /\ "end" \in Archives!Pcs
      BY <2>1 DEF Archives!SweepList, Archives!Pcs
    <3> QED
      BY <1>2, <3>1, GotoJob
  <2>2. CASE Archives!SweepNext
    <3>1. PICK s \in archTodo : archJob' = [archJob EXCEPT ![Sweeper] =
                                   [Archives!Idle EXCEPT !.op = "sweep", !.pc = "stat", !.at = s]]
      BY <2>2 DEF Archives!SweepNext
    <3> DEFINE next == [Archives!Idle EXCEPT !.op = "sweep", !.pc = "stat", !.at = s]
    <3>2. next.pc = "stat" /\ archJob' = [archJob EXCEPT ![Sweeper] = next]
      BY <3>1 DEF Archives!Idle
    <3> HIDE DEF next
    <3> QED
      BY <1>2, <3>2
  <2>3. CASE Archives!SweepDone
    <3>1. archJob' = [archJob EXCEPT ![Sweeper] = Archives!Idle] /\ Archives!Idle.pc = "idle"
      BY <2>3 DEF Archives!SweepDone, Archives!Idle
    <3> QED
      BY <1>2, <3>1
  <2> QED
    BY <2>1, <2>2, <2>3
<1>4. PICK at : at = archJob'[Sweeper].at
  OBVIOUS
<1>5. RestsWell(Sweeper, at)
  BY <1>3 DEF RestsWell
<1> QED
  BY <1>1, <1>2, <1>3, <1>4, <1>5, QuietKeeps

(* The latest version is live when it is said.                             *)
LEMMA SayKeeps ==
  ASSUME ArchiveShape, ArchiveShape', NothingLost, NEW arrives \in BOOLEAN, Archives!Say(arrives)
  PROVE  NothingLost'
<1>1. /\ archSaid' = archSaid + 1
      /\ archFile' = [archFile EXCEPT ![<<"live", "jsonl">>] = archSaid + 1]
      /\ archJob' = archJob /\ archDropped' = archDropped
  BY DEF Archives!Say, Archives!history
<1>2. archSaid \in 1..MaxSaid /\ MaxSaid \in Nat
  BY JobsTyped, ArchivesAssumption
<1>3. LiveIn' = archSaid + 1 /\ \A t \in Stamps : Same(t)
  <2>1. PICK n \in Archives!Names : n = <<"live", "jsonl">>
    BY NamesThere
  <2>2. OneAfter(n, archSaid + 1)
    BY <1>1, <2>1, OneFileAfter
  <2>3. \A t \in Stamps : t # "live"
    BY NamesThere
  <2> QED
    BY <2>1, <2>2, <2>3 DEF OneAfter, Same
<1>5. \A s \in Stamps : \A x : Holds(s, x)' <=> Holds(s, x)
  BY <1>1, <1>3 DEF Holds, Same
<1>6. OneVersion'
  BY <1>5 DEF NothingLost, OneVersion
<1>7. RestoresSame' /\ DeletesAsked'
  <2>1. RestoresSame'
    BY <1>1, <1>3 DEF RestoresSame
  <2>2. ASSUME NEW r \in Requesters, archJob[r].pc = "clear", Holds(archJob[r].at, archSaid + 1)
        PROVE  FALSE
    <3>1. PICK s \in Stamps : s = archJob[r].at
      BY <2>2, JobsTyped DEF ArchiveShape, JobsHeld, JobHeld, AllWorkers
    <3>2. Holds(s, archSaid + 1)
      BY <2>2, <3>1
    <3>3. archFile[<<s, "jsonl">>] # archSaid + 1 /\ archFile[<<s, "gz">>] # archSaid + 1
      <4>1. <<s, "jsonl">> \in Archives!Names /\ <<s, "gz">> \in Archives!Names
        BY NamesThere
      <4>2. \A n \in Archives!Names : archFile[n] <= archSaid /\ archFile[n] \in Int
        BY JobsTyped DEF ArchiveShape, FilesSound
      <4> QED
        BY <1>2, <4>1, <4>2
    <3>4. \A w \in AllWorkers : archJob[w].text # archSaid + 1
      <4>1. \A w \in AllWorkers : archJob[w].text <= archSaid /\ archJob[w].text \in Int
        BY JobsTyped DEF ArchiveShape, JobsHeld, JobHeld, Archives!Jobs, Archives!Versions
      <4> QED
        BY <1>2, <4>1
    <3> QED
      BY <3>2, <3>3, <3>4 DEF Holds, PlainIn, ZipIn
  <2>3. DeletesAsked'
    <3> SUFFICES ASSUME NEW r \in Requesters, archJob[r].pc = "clear",
                        Holds(archJob[r].at, archSaid)'
                 PROVE  FALSE
      BY <1>1 DEF DeletesAsked
    <3>1. archJob[r].at \in Stamps
      BY JobsTyped DEF ArchiveShape, JobsHeld, JobHeld, AllWorkers
    <3> QED
      <4>1. PICK s \in Stamps : s = archJob[r].at
        BY <3>1
      <4>2. Same(s) /\ Holds(s, archSaid)'
        BY <1>1, <1>3, <4>1
      <4>3. Holds(s, archSaid + 1)
        BY <1>1, <4>2 DEF Holds, Same
      <4> QED
        BY <2>2, <4>1, <4>3
  <2> QED
    BY <2>1, <2>3
<1>8. \A t : KeptBut(t)'
  BY <1>1, <1>3 DEF KeptBut
<1>9. Compresses'
  <2> SUFFICES ASSUME NEW w \in AllWorkers, NEW s \in Stamps, Archives!Compressing(w, s)
               PROVE  Alone(w, s)' /\ WritesWell(w, s)' /\ GoneWell(w, s)'
    BY <1>1 DEF Compresses, Archives!Compressing
  <2>1. Alone(w, s) /\ WritesWell(w, s) /\ GoneWell(w, s)
    BY DEF NothingLost, Compresses
  <2>2. PlainIn(s) # archSaid + 1
    <3>1. <<s, "jsonl">> \in Archives!Names
      BY NamesThere
    <3>2. archFile[<<s, "jsonl">>] <= archSaid /\ archFile[<<s, "jsonl">>] \in Int
      BY <3>1, JobsTyped DEF ArchiveShape, FilesSound
    <3> QED
      BY <1>2, <3>2 DEF PlainIn
  <2>3. WritesWell(w, s)'
    BY <1>1, <1>3, <2>1, <2>2 DEF WritesWell, Same
  <2>4. GoneWell(w, s)'
    BY <1>3, <1>8, <2>1 DEF GoneWell, Same
  <2>5. Alone(w, s)'
    BY <1>1, <2>1 DEF Alone, Archives!Compressing
  <2> QED
    BY <2>3, <2>4, <2>5
<1> QED
  BY <1>6, <1>7, <1>8, <1>9 DEF NothingLost

(* A restart leaves the files, and nobody at work.                         *)
LEMMA RestartKeeps ==
  ASSUME ArchiveShape, ArchiveShape', NothingLost, Archives!Restart
  PROVE  NothingLost'
<1>1. /\ archJob' = [w \in AllWorkers |->
                       IF w = Sweeper THEN [Archives!Idle EXCEPT !.op = "sweep", !.pc = "look"]
                       ELSE Archives!Idle]
      /\ UNCHANGED <<archFile, archSaid, archDropped>>
  BY DEF Archives!Restart, Archives!history, AllWorkers
<1>2. \A w \in AllWorkers : archJob'[w].pc \in {"idle", "look"}
  BY <1>1 DEF Archives!Idle
<1>3. FilesStay
  BY <1>1, StaySame
<1>4. HoldsNoMore
  BY <1>2, <1>3 DEF HoldsNoMore, Holds, FilesStay, Same
<1>5. OneVersion'
  BY <1>4 DEF NothingLost, OneVersion, HoldsNoMore
<1>6. Compresses' /\ RestoresSame' /\ DeletesAsked'
  BY <1>2, ArchivesAssumption
     DEF Compresses, Archives!Compressing, RestoresSame, DeletesAsked, AllWorkers
<1>7. KeptBut("live") => KeptBut("live")'
  BY <1>1, <1>3 DEF KeptBut, FilesStay, Same, ListedIn
<1> QED
  BY <1>1, <1>5, <1>6, <1>7 DEF NothingLost

LEMMA StartKept ==
  ASSUME Archives!Init, ArchiveShape
  PROVE  NothingLost
<1>1. /\ archUsed \subseteq Stamps /\ archSaid = 1
      /\ archJob = [w \in AllWorkers |->
                      IF w = Sweeper THEN [Archives!Idle EXCEPT !.op = "sweep", !.pc = "look"]
                      ELSE Archives!Idle]
  BY DEF Archives!Init, AllWorkers
<1>2. PICK live \in IF archUsed = {} THEN {TRUE} ELSE BOOLEAN :
           archFile = [n \in Archives!Names |->
             IF (n = <<"live", "jsonl">> /\ live) \/ (\E s \in archUsed : n = <<s, "jsonl">>)
             THEN 1 ELSE -1]
  BY DEF Archives!Init
<1>3. \A n \in Archives!Names : archFile[n] \in {1, -1}
  BY <1>2
<1>4. \A w \in AllWorkers : archJob[w].pc \in {"idle", "look"}
  BY <1>1 DEF Archives!Idle
<1>5. ASSUME NEW s \in Stamps, NEW x \in 0..MaxSaid, Holds(s, x)
      PROVE  x = 1
  <2>1. <<s, "jsonl">> \in Archives!Names /\ <<s, "gz">> \in Archives!Names
    BY NamesThere
  <2>2. PlainIn(s) \in {1, -1} /\ ZipIn(s) \in {1, -1}
    BY <1>3, <2>1 DEF PlainIn, ZipIn
  <2> QED
    BY <1>4, <1>5, <2>2 DEF Holds
<1>6. OneVersion
  BY <1>5 DEF OneVersion
<1>7. Compresses /\ RestoresSame /\ DeletesAsked
  BY <1>4, ArchivesAssumption
     DEF Compresses, Archives!Compressing, RestoresSame, DeletesAsked, AllWorkers
<1>8. KeptBut("live")
  <2>1. CASE live
    <3>1. <<"live", "jsonl">> \in Archives!Names
      BY NamesThere
    <3>2. archFile[<<"live", "jsonl">>] = 1
      BY <1>2, <2>1, <3>1
    <3> QED
      BY <1>1, <3>2 DEF KeptBut, LiveIn
  <2>2. CASE ~live
    <3>1. PICK s \in archUsed : s \in Stamps
      BY <1>1, <1>2, <2>2
    <3>2. <<s, "jsonl">> \in Archives!Names /\ s # "live"
      BY <3>1, NamesThere
    <3>3. archFile[<<s, "jsonl">>] = 1
      BY <1>2, <3>1, <3>2
    <3> QED
      BY <1>1, <3>1, <3>2, <3>3 DEF KeptBut, ListedIn, PlainIn
  <2> QED
    BY <2>1, <2>2
<1> QED
  BY <1>6, <1>7, <1>8 DEF NothingLost

LEMMA ArchiveStarts == Archives!Init => ArchiveInv
BY StartShape, StartKept DEF ArchiveInv, ArchiveKept

LEMMA ArchiveStep ==
  ASSUME ArchiveInv, Archives!Next
  PROVE  ArchiveInv'
<1>1. ArchiveShape /\ ArchiveShape'
  BY ShapeStep DEF ArchiveInv
<1>2. ASSUME ~archTwice' PROVE NothingLost'
  <2>1. NothingLost
    BY <1>2 DEF ArchiveInv, ArchiveKept, Archives!Next, Archives!Take, Archives!LookToArchive,
       Archives!LookToRestore, Archives!LookToDelete, Archives!Finish, Archives!Write,
       Archives!Move, Archives!SweepList, Archives!SweepNext, Archives!SweepDone,
       Archives!Say, Archives!Restart, Archives!history, Archives!serverVars
  <2>2. ASSUME NEW w \in AllWorkers, Archives!Write(w) \/ Archives!Move(w) PROVE NothingLost'
    BY <1>1, <1>2, <2>1, <2>2, WriteKeeps, MoveKeeps
  <2>3. ASSUME NEW r \in Requesters,
               \/ \E op \in {"archive", "restore", "delete"}, s \in Archives!Places :
                    Archives!Take(r, op, s)
               \/ Archives!LookToArchive(r) \/ Archives!LookToRestore(r) \/ Archives!Finish(r)
        PROVE  NothingLost'
    BY <1>1, <2>1, <2>3, TakeKeeps
  <2>4. ASSUME NEW r \in Requesters, Archives!LookToDelete(r) PROVE NothingLost'
    BY <1>1, <2>1, <2>4, LookToDeleteKeeps
  <2>5. Archives!SweepList \/ Archives!SweepNext \/ Archives!SweepDone => NothingLost'
    BY <1>1, <2>1, SweepKeeps
  <2>6. ASSUME NEW arrives \in BOOLEAN, Archives!Say(arrives) PROVE NothingLost'
    BY <1>1, <2>1, <2>6, SayKeeps
  <2>7. Archives!Restart => NothingLost'
    BY <1>1, <2>1, RestartKeeps
  <2> QED
    BY <2>2, <2>3, <2>4, <2>5, <2>6, <2>7 DEF Archives!Next, AllWorkers
<1> QED
  BY <1>1, <1>2 DEF ArchiveInv, ArchiveKept

LEMMA ArchiveAlone ==
  ASSUME ArchiveInv, UNCHANGED archiveVars
  PROVE  ArchiveInv'
<1>1. UNCHANGED <<archFile, archJob, archHolder, archTodo, archSaid, archUsed, archDropped,
                  archTwice, archKills>>
  BY DEF archiveVars
<1>2. ArchiveShape'
  BY <1>1 DEF ArchiveInv, ArchiveShape, Archives!TypeOK, Archives!FilesOK, JobsHeld, JobHeld,
     FilesSound, MovesToNew, RestoresWhole, Restoring, OpenedBy
<1>3. ArchiveKept'
  <2>1. \A s : \A x : Holds(s, x)' <=> Holds(s, x)
    BY <1>1 DEF Holds, PlainIn, ZipIn
  <2>2. \A s : KeptBut(s)' <=> KeptBut(s)
    BY <1>1 DEF KeptBut, LiveIn, ListedIn, PlainIn, ZipIn
  <2>3. \A w, s : (Archives!Compressing(w, s)' <=> Archives!Compressing(w, s))
    BY <1>1 DEF Archives!Compressing
  <2>4. \A w, s : (Alone(w, s)' <=> Alone(w, s)) /\ (WritesWell(w, s)' <=> WritesWell(w, s))
                  /\ (GoneWell(w, s)' <=> GoneWell(w, s))
    BY <1>1, <2>2, <2>3 DEF Alone, WritesWell, GoneWell, PlainIn, ZipIn, HalfIn
  <2>5. NothingLost => NothingLost'
    BY <1>1, <2>1, <2>2, <2>3, <2>4
       DEF NothingLost, OneVersion, Compresses, RestoresSame, DeletesAsked, LiveIn
  <2> QED
    BY <1>1, <2>5 DEF ArchiveInv, ArchiveKept
<1> QED
  BY <1>2, <1>3 DEF ArchiveInv

LEMMA ArchivesAlways == HostSpec => [](Archived => ArchiveInv)
<1>1. HostInit => (Archived => ArchiveInv)
  BY ArchiveStarts DEF HostInit, Named, Sessions, Archived
<1>2. (Archived => ArchiveInv) /\ [HostNext]_allVars => (Archived => ArchiveInv)'
  BY ArchiveStep, ArchiveAlone DEF HostNext, allVars, Named, Sessions, Archived
<1> QED
  BY <1>1, <1>2, PTL DEF HostSpec

(* The latest version of a conversation is whole, in the live transcript    *)
(* or in what an archive lists, at every step of requests that archive,     *)
(* restore and delete beside the sweep, and after every kill, until two     *)
(* workers compress one archive at once or a client has it deleted.         *)
THEOREM NeverLostAlways == HostSpec => []NeverLost
<1>1. (Archived => ArchiveInv) => NeverLost
  <2> SUFFICES ASSUME ArchiveInv, ~archTwice, archSaid \notin archDropped PROVE Archives!Kept
    BY DEF NeverLost, Archives!NeverLost
  <2>1. KeptBut("live")
    BY DEF ArchiveInv, ArchiveKept, NothingLost
  <2>2. \A s \in Stamps : archFile[Archives!Listed(s)] = ListedIn(s)
    BY DEF Archives!Listed, ListedIn, PlainIn, ZipIn
  <2> QED
    BY <2>1, <2>2 DEF KeptBut, Archives!Kept, LiveIn
<1> QED
  BY <1>1, ArchivesAlways, PTL

(* No step puts an older version over a live transcript: it goes to an      *)
(* archive, or it is written on.                                            *)
THEOREM LiveNeverRolledBack == HostSpec => LiveNotRolledBack
<1>1. (Archived => ArchiveInv) /\ [HostNext]_allVars => [Archived => Archives!LiveStep]_archiveVars
  <2> SUFFICES ASSUME ArchiveInv, Archived, HostNext PROVE Archives!LiveStep \/ UNCHANGED archiveVars
    BY DEF allVars
  <2>1. CASE Archives!Next
    <3>1. LiveIn # -1 => LiveIn' = -1 \/ LiveIn' >= LiveIn
      BY <2>1, LiveFollows DEF ArchiveInv
    <3> QED
      BY <3>1 DEF Archives!LiveStep, LiveIn
  <2> QED
    BY <2>1 DEF HostNext, Archived, Sessions, Named
<1> QED
  BY <1>1, ArchivesAlways, PTL DEF HostSpec, LiveNotRolledBack
===============================================================================
