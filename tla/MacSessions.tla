------------------------------ MODULE MacSessions ------------------------------
(***************************************************************************)
(* Moving, archiving and restoring one session between the profiles of the *)
(* Mac app (src/sessions/): transcripts, the desktop app's records of      *)
(* them, and archives of both.  Commands take no lock; each one looks at   *)
(* the files and the running apps, quits the apps it has to, looks again   *)
(* and then moves file after file.  The profiles' desktop apps and the     *)
(* terminals are the user's (external), who opens and quits them at any    *)
(* time: an app keeps its records in memory, lists and drops sessions      *)
(* there, and writes them back when it likes and when it quits.            *)
(*                                                                         *)
(* A transcript is a version of the conversation, later ones greater, and  *)
(* NoCopy when there is none.  Its other items are ItemMove's, the steps   *)
(* of a compression ArchiveFiles'.                                         *)
(***************************************************************************)
EXTENDS Naturals

CONSTANTS
    Profiles,
    Stamps,     \* the archives a profile can have of the session
    Commands,   \* commands in progress at once
    MaxSaid,    \* bound on the versions
    MaxAsked    \* bound on the commands

NoCopy == 0
Versions == 1..MaxSaid
NoArchive == [v |-> NoCopy, zip |-> FALSE, rec |-> FALSE]
Archives == [v : {NoCopy} \cup Versions, zip : BOOLEAN, rec : BOOLEAN]

VARIABLES
    live,       \* the transcript in each profile
    arch,       \* each profile's archives
    rec,        \* whether the profile's app has a record of the session on disk
    app,        \* the profile's desktop app
    mem,        \* whether a running app's own list has the record
    term,       \* a terminal has the session open
    cmd,        \* what each command is doing
    said,       \* the latest version
    asked,      \* the commands so far
    \* What happened, for the properties.
    safe,       \* the latest version went to a backup
    dropped,    \* it was in an archive the user deleted
    resumed,    \* someone went on with the session where a command was past its checks
    apart       \* a command stopped past its checks, or an app has the session on
                \* its list, unknown to a command that takes it from the profile

Ops == {"none", "move", "archive", "restore", "delete"}
Pcs == {"idle", "prepare", "quit", "again", "backup", "copy", "record", "check",
        "remove", "remove record", "away", "record away", "record back", "back",
        "clear"}
\* What a command was asked, and what its last look found.
Nothing == "nothing"
Cmds == [op : Ops, pc : Pcs, p : Profiles \cup {Nothing},
         q : Profiles \cup {Nothing}, s : Stamps \cup {Nothing},
         after : {"keep", "archive", "delete"}, add : BOOLEAN,
         lists : BOOLEAN, rec : BOOLEAN, zip : BOOLEAN]

userVars == <<app, mem, term>>
files == <<live, arch, rec>>
history == <<safe, dropped, resumed, apart>>
vars == <<files, userVars, cmd, said, asked, history>>

TypeOK ==
    /\ live \in [Profiles -> {NoCopy} \cup Versions]
    /\ arch \in [Profiles -> [Stamps -> Archives]]
    /\ rec \in [Profiles -> BOOLEAN]
    /\ app \in [Profiles -> {"closed", "running", "holding"}]
    /\ mem \in [Profiles -> BOOLEAN]
    /\ term \in [Profiles -> BOOLEAN]
    /\ cmd \in [Commands -> Cmds]
    /\ said \in Versions /\ asked \in 0..MaxAsked
    /\ safe \in BOOLEAN /\ dropped \in BOOLEAN
    /\ resumed \in BOOLEAN /\ apart \in BOOLEAN

Resting == [c \in Commands |->
              [op |-> "none", pc |-> "idle", p |-> Nothing, q |-> Nothing,
               s |-> Nothing, after |-> "keep", add |-> FALSE,
               lists |-> FALSE, rec |-> FALSE, zip |-> FALSE]]

\* The session lives in one profile; the app there may have a record of it.
Init ==
    /\ \E p \in Profiles, r \in BOOLEAN :
         /\ live = [x \in Profiles |-> IF x = p THEN 1 ELSE NoCopy]
         /\ rec = [x \in Profiles |-> x = p /\ r]
    /\ arch = [x \in Profiles |-> [s \in Stamps |-> NoArchive]]
    /\ app = [x \in Profiles |-> "closed"]
    /\ mem = [x \in Profiles |-> FALSE]
    /\ term = [x \in Profiles |-> FALSE]
    /\ cmd = Resting
    /\ said = 1 /\ asked = 0
    /\ safe = FALSE /\ dropped = FALSE /\ resumed = FALSE /\ apart = FALSE

Running(p) == app[p] # "closed"
Busy(c) == cmd[c].pc # "idle"
\* Past its last look at what runs.
PastChecks(c) == cmd[c].pc \notin {"idle", "prepare", "quit", "again"}

\* The command ends with the session gone from its profile.
TakesAway(j) == j.op = "archive" \/ j.after # "keep"

WorksOn(p) == \E c \in Commands : PastChecks(c) /\ cmd[c].op # "delete" /\ p \in {cmd[c].p, cmd[c].q}
TakenFrom(p) == \E c \in Commands : PastChecks(c) /\ cmd[c].p = p /\ TakesAway(cmd[c])

Goto(c, pc) == cmd' = [cmd EXCEPT ![c].pc = pc]
Ends(c) == cmd' = [cmd EXCEPT ![c] = Resting[c]]

(***************************************************************************)
(* A command starts, looks and quits apps.                                 *)
(***************************************************************************)

Start(c, op, p, q, s, after, add) ==
    /\ ~Busy(c) /\ asked < MaxAsked
    /\ asked' = asked + 1
    /\ op = "move" <=> p # q
    /\ op # "move" => after = "keep" /\ ~add
    /\ IF op \in {"restore", "delete"} THEN arch[p][s] # NoArchive
       ELSE arch[p][s] = NoArchive
    /\ cmd' = [cmd EXCEPT ![c] = [Resting[c] EXCEPT
                 !.op = op, !.p = p, !.q = q, !.s = s, !.after = after, !.add = add,
                 !.pc = IF op = "delete" THEN "clear" ELSE "prepare"]]
    /\ UNCHANGED <<files, userVars, said, history>>

\* read_archive
Archive(j) == arch[j.p][j.s]

\* The source of a command is there, and a restore's archive.
Found(j) == IF j.op = "restore" THEN Archive(j).v # NoCopy ELSE live[j.p] # NoCopy

\* Only the user can clear these: a terminal, or a live copy in a restore's way.
InTheWay(j) == live[j.p] # NoCopy \/ (Archive(j).rec /\ rec[j.p])
Blocked(j) ==
    \/ j.op = "move" /\ (term[j.p] \/ term[j.q])
    \/ j.op = "archive" /\ term[j.p]
    \/ j.op = "restore" /\ InTheWay(j)

\* The move adds a record where the destination's app lists none.
Lists(j) == j.op = "move" /\ j.add /\ ~rec[j.q]

\* Variant: an app that only lists the session needn't quit.
HoldersToQuit(j) ==
    {x \in IF j.op = "move" THEN {j.p, j.q} ELSE {j.p} : app[x] = "holding"}

\* Apps that hold the session, or whose list the command changes.
MoveQuits(j) ==
    {x \in {j.p, j.q} : app[x] = "holding"}
      \cup {x \in {j.q} : Lists(j) /\ Running(x)}
      \cup {x \in {j.p} : j.after # "keep" /\ rec[x] /\ Running(x)}
ArchiveQuits(j) == {x \in {j.p} : app[x] = "holding" \/ (rec[x] /\ Running(x))}
RestoreQuits(j) == {x \in {j.p} : Archive(j).rec /\ Running(x)}
AppsToQuit(j) ==
    IF j.op = "move" THEN MoveQuits(j)
    ELSE IF j.op = "archive" THEN ArchiveQuits(j) ELSE RestoreQuits(j)

\* A move won't roll back a newer copy unless it is told to.
RollsBack(j) == j.op = "move" /\ live[j.q] > live[j.p]

\* Variant: what the destination has is overwritten.
FirstOfAll(j) ==
    IF j.op = "move" THEN "copy" ELSE IF j.op = "archive" THEN "away" ELSE "record back"

First(j) ==
    IF j.op = "archive" THEN "away" ELSE IF j.op = "restore" THEN "record back"
    ELSE IF live[j.q] # NoCopy /\ live[j.q] # live[j.p] THEN "backup" ELSE "copy"

\* What the look found is what the command goes by from here on.
GoesOn(c) ==
    LET j == cmd[c] IN
    /\ cmd' = [cmd EXCEPT ![c] =
              [j EXCEPT !.pc = First(j),
                        !.lists = Lists(j),
                        !.rec = IF j.op = "restore" THEN Archive(j).rec ELSE rec[j.p],
                        !.zip = Archive(j).zip]]
    /\ apart' = (apart \/ (TakesAway(j) /\ Running(j.p) /\ mem[j.p] /\ ~rec[j.p]))
    /\ UNCHANGED <<safe, dropped, resumed>>

\* confirmed is what the user allows: quitting apps, replacing a newer copy.
Prepare(c, confirmed) ==
    LET j == cmd[c] IN
    /\ j.pc = "prepare"
    /\ IF \/ ~Found(j) \/ Blocked(j)
          \/ ~confirmed /\ (AppsToQuit(j) # {} \/ RollsBack(j))
       THEN Ends(c) /\ UNCHANGED history
       ELSE IF AppsToQuit(j) # {} THEN Goto(c, "quit") /\ UNCHANGED history
       ELSE GoesOn(c)
    /\ UNCHANGED <<files, userVars, said, asked>>

\* SIGTERM is a normal quit to the app: it saves its state.
Quit(c) ==
    LET j == cmd[c] IN
    /\ j.pc = "quit"
    /\ IF AppsToQuit(j) = {}
         THEN Goto(c, "again") /\ UNCHANGED <<app, mem, rec>>
         ELSE \E x \in AppsToQuit(j) :
                /\ app' = [app EXCEPT ![x] = "closed"]
                /\ rec' = [rec EXCEPT ![x] = mem[x]]
                /\ mem' = [mem EXCEPT ![x] = FALSE]
                /\ UNCHANGED cmd
    /\ UNCHANGED <<live, arch, term, said, asked, history>>

QuitFails(c) ==
    /\ cmd[c].pc = "quit"
    /\ Ends(c)
    /\ UNCHANGED <<files, userVars, said, asked, history>>

\* The second look refuses what the first did for a move; an archive and a
\* restore only mind the apps.
PrepareAgain(c, confirmed) ==
    LET j == cmd[c] IN
    /\ j.pc = "again"
    /\ IF \/ ~Found(j) \/ AppsToQuit(j) # {}
          \/ j.op = "move" /\ (Blocked(j) \/ (RollsBack(j) /\ ~confirmed))
       THEN Ends(c) /\ UNCHANGED history ELSE GoesOn(c)
    /\ UNCHANGED <<files, userVars, said, asked>>

\* What the folder of an archive has in it from now on.
Shelve(p, s, a) == arch' = [arch EXCEPT ![p][s] = a]

(***************************************************************************)
(* Moving the files.                                                       *)
(***************************************************************************)

\* What the destination has goes to a backup first.
BackUp(c) ==
    LET q == cmd[c].q IN
    /\ cmd[c].pc = "backup"
    /\ live[q] # NoCopy
    /\ safe' = (safe \/ live[q] = said)
    /\ live' = [live EXCEPT ![q] = NoCopy]
    /\ Goto(c, "copy")
    /\ UNCHANGED <<arch, rec, userVars, said, asked, dropped, resumed, apart>>

Afterwards(j) ==
    IF j.after = "archive" THEN "away" ELSE "check"

Copy(c) ==
    LET j == cmd[c] IN
    /\ j.pc = "copy"
    /\ live[j.p] # NoCopy
    /\ live' = [live EXCEPT ![j.q] = live[j.p]]
    /\ IF j.lists THEN Goto(c, "record")
       ELSE IF j.after = "keep" THEN Ends(c) ELSE Goto(c, Afterwards(j))
    /\ UNCHANGED <<arch, rec, userVars, said, asked, history>>

WriteRecord(c) ==
    LET j == cmd[c] IN
    /\ j.pc = "record"
    /\ rec' = [rec EXCEPT ![j.q] = TRUE]
    /\ IF j.after = "keep" THEN Ends(c) ELSE Goto(c, Afterwards(j))
    /\ UNCHANGED <<live, arch, userVars, said, asked, history>>

\* The source's copy goes only if it is the moved copy's equal.
CheckSource(c) ==
    LET j == cmd[c] IN
    /\ j.pc = "check"
    /\ IF live[j.q] # NoCopy /\ live[j.p] = live[j.q] THEN Goto(c, "remove") ELSE Ends(c)
    /\ UNCHANGED <<files, userVars, said, asked, history>>

RemoveSource(c) ==
    LET j == cmd[c] IN
    /\ j.pc = "remove"
    /\ live' = [live EXCEPT ![j.p] = NoCopy]
    /\ IF j.rec THEN Goto(c, "remove record") ELSE Ends(c)
    /\ UNCHANGED <<arch, rec, userVars, said, asked, history>>

RemoveRecord(c) ==
    LET j == cmd[c] IN
    /\ j.pc = "remove record"
    /\ rec' = [rec EXCEPT ![j.p] = FALSE]
    /\ Ends(c)
    /\ UNCHANGED <<live, arch, userVars, said, asked, history>>

\* archive_files: the transcript first, compressed if that works, then records.
MoveAway(c, zips) ==
    LET j == cmd[c] IN
    /\ j.pc = "away"
    /\ live[j.p] # NoCopy
    /\ Shelve(j.p, j.s, [Archive(j) EXCEPT !.v = live[j.p], !.zip = zips])
    /\ live' = [live EXCEPT ![j.p] = NoCopy]
    /\ IF j.rec THEN Goto(c, "record away") ELSE Ends(c)
    /\ UNCHANGED <<rec, userVars, said, asked, history>>

RecordAway(c) ==
    LET j == cmd[c] IN
    /\ j.pc = "record away"
    /\ rec[j.p]
    /\ Shelve(j.p, j.s, [Archive(j) EXCEPT !.rec = TRUE])
    /\ rec' = [rec EXCEPT ![j.p] = FALSE]
    /\ Ends(c)
    /\ UNCHANGED <<live, userVars, said, asked, history>>

\* restore_files: records first, then the transcript, over whatever is there.
RecordBack(c) ==
    LET j == cmd[c] IN
    /\ j.pc = "record back"
    /\ j.rec => Archive(j).rec
    /\ IF j.rec
         THEN /\ Shelve(j.p, j.s, [Archive(j) EXCEPT !.rec = FALSE])
              /\ rec' = [rec EXCEPT ![j.p] = TRUE]
         ELSE UNCHANGED <<arch, rec>>
    /\ Goto(c, "back")
    /\ UNCHANGED <<live, userVars, said, asked, history>>

Back(c) ==
    LET j == cmd[c] IN
    /\ j.pc = "back"
    /\ Archive(j).v # NoCopy /\ Archive(j).zip = j.zip
    /\ live' = [live EXCEPT ![j.p] = Archive(j).v]
    /\ Shelve(j.p, j.s, NoArchive)
    /\ Ends(c)
    /\ UNCHANGED <<rec, userVars, said, asked, history>>

\* delete_archived takes the folder, record and all.
DeleteArchive(c) ==
    LET j == cmd[c] IN
    /\ j.pc = "clear"
    /\ dropped' = (dropped \/ Archive(j).v = said)
    /\ Shelve(j.p, j.s, NoArchive)
    /\ Ends(c)
    /\ UNCHANGED <<live, rec, userVars, said, asked, safe, resumed, apart>>

\* A file can't be moved or copied, its source is gone, or the app is killed:
\* what was done stays.
Stops(c) ==
    /\ PastChecks(c)
    /\ apart' = TRUE
    /\ Ends(c)
    /\ UNCHANGED <<files, userVars, said, asked, safe, dropped, resumed>>

\* compress_old_archives, as the app starts.
Compress(p, s) ==
    /\ arch[p][s].v # NoCopy /\ ~arch[p][s].zip
    /\ Shelve(p, s, [arch[p][s] EXCEPT !.zip = TRUE])
    /\ UNCHANGED <<live, rec, userVars, cmd, said, asked, history>>

(***************************************************************************)
(* The user, the desktop apps and Claude (external).                       *)
(***************************************************************************)

OpenApp(p) ==
    /\ ~Running(p)
    /\ app' = [app EXCEPT ![p] = "running"]
    /\ mem' = [mem EXCEPT ![p] = rec[p]]
    /\ apart' = (apart \/ (rec[p] /\ TakenFrom(p)))
    /\ UNCHANGED <<files, term, cmd, said, asked, safe, dropped, resumed>>

\* The app finds the session's transcript, or the user opens it there.
ListSession(p) ==
    /\ Running(p) /\ ~mem[p] /\ live[p] # NoCopy
    /\ mem' = [mem EXCEPT ![p] = TRUE]
    /\ apart' = (apart \/ TakenFrom(p))
    /\ UNCHANGED <<files, app, term, cmd, said, asked, safe, dropped, resumed>>

DropSession(p) ==
    /\ app[p] = "running" /\ mem[p]
    /\ mem' = [mem EXCEPT ![p] = FALSE]
    /\ UNCHANGED <<files, app, term, cmd, said, asked, history>>

HoldSession(p) ==
    /\ app[p] = "running" /\ mem[p] /\ live[p] # NoCopy
    /\ app' = [app EXCEPT ![p] = "holding"]
    /\ UNCHANGED <<files, mem, term, cmd, said, asked, history>>

LeaveSession(p) ==
    /\ app[p] = "holding"
    /\ app' = [app EXCEPT ![p] = "running"]
    /\ UNCHANGED <<files, mem, term, cmd, said, asked, history>>

WriteRecords(p, quits) ==
    /\ Running(p)
    /\ rec' = [rec EXCEPT ![p] = mem[p]]
    /\ app' = IF quits THEN [app EXCEPT ![p] = "closed"] ELSE app
    /\ mem' = IF quits THEN [mem EXCEPT ![p] = FALSE] ELSE mem
    /\ UNCHANGED <<live, arch, term, cmd, said, asked, history>>

Terminal(p) ==
    /\ live[p] # NoCopy \/ term[p]
    /\ term' = [term EXCEPT ![p] = ~@]
    /\ UNCHANGED <<files, app, mem, cmd, said, asked, history>>

Say(p) ==
    /\ term[p] \/ app[p] = "holding"
    /\ live[p] # NoCopy
    /\ said < MaxSaid
    /\ said' = said + 1
    /\ live' = [live EXCEPT ![p] = said + 1]
    /\ safe' = FALSE /\ dropped' = FALSE
    /\ resumed' = (resumed \/ WorksOn(p))
    /\ UNCHANGED <<arch, rec, userVars, cmd, asked, apart>>

Next ==
    \/ \E c \in Commands :
         \/ \E op \in Ops \ {"none"}, p, q \in Profiles, s \in Stamps,
               after \in {"keep", "archive", "delete"}, add \in BOOLEAN :
              Start(c, op, p, q, s, after, add)
         \/ \E confirmed \in BOOLEAN : Prepare(c, confirmed) \/ PrepareAgain(c, confirmed)
         \/ Quit(c) \/ QuitFails(c)
         \/ BackUp(c) \/ Copy(c) \/ WriteRecord(c)
         \/ CheckSource(c) \/ RemoveSource(c) \/ RemoveRecord(c)
         \/ \E zips \in BOOLEAN : MoveAway(c, zips)
         \/ RecordAway(c)
         \/ RecordBack(c) \/ Back(c)
         \/ DeleteArchive(c)
         \/ Stops(c)
    \/ \E p \in Profiles :
         \/ \E s \in Stamps : Compress(p, s)
         \/ OpenApp(p) \/ ListSession(p) \/ DropSession(p)
         \/ HoldSession(p) \/ LeaveSession(p)
         \/ \E quits \in BOOLEAN : WriteRecords(p, quits)
         \/ Terminal(p)
         \/ Say(p)

Spec == Init /\ [][Next]_vars

(***************************************************************************)
(* Properties.                                                             *)
(***************************************************************************)

\* One command at a time never loses the latest version of the conversation:
\* whatever stops it and wherever, the version is live in a profile, in an
\* archive or in a backup, unless the user deleted the archive it was in.  That
\* ends where someone goes on with the session under a command (`resumed`), in
\* a terminal or an app that took it up after the last look, or in a terminal
\* from before it, which the second look of an archive doesn't mind
\* (archive.rs:97-115).
LatestKept ==
    ~dropped /\ ~resumed =>
        \/ \E p \in Profiles : live[p] = said \/ \E s \in Stamps : arch[p][s].v = said
        \/ safe

\* The two halves go together: between commands that ran to their end, no app
\* lists a session whose transcript is gone, which it would quietly replace by
\* an empty one; though apps list and drop the session, and write what they
\* list, between any two steps.  src/sessions/mod.rs:10-11 has the halves
\* written only while the app that owns them is closed, and the code looks
\* once: an app opened after the last look while its record is there still, or
\* one that runs past it with the session on a list that isn't on disk, writes
\* its record back under a transcript that went (`apart`).
HalvesTogether ==
    ~apart /\ (\A c \in Commands : ~Busy(c)) =>
        \A p \in Profiles : rec[p] \/ (Running(p) /\ mem[p]) => live[p] # NoCopy
================================================================================
