----------------------------- MODULE ArchiveFiles -----------------------------
(***************************************************************************)
(* The files of one session's transcript in one account or profile, and    *)
(* the steps that archive, compress and restore it, which the server and   *)
(* the Mac app share (core/src/session_move.rs).                           *)
(*                                                                         *)
(* A file is known by its name <<place, kind>>: the place is Here, the     *)
(* project's folder, or the stamp of an archive folder; the kind is the    *)
(* plain transcript, its gzipped copy, or the ".part" file either is first *)
(* written under.  What a file holds is a version of the conversation, or  *)
(* Short when it holds less than one.                                      *)
(*                                                                         *)
(* Workers write through open files, which follow a file when it is        *)
(* renamed: out is the name under which a worker's open file is linked     *)
(* now, and Nowhere once it is unlinked.  Opening a part file that is      *)
(* there already truncates it under whoever is writing it: the other       *)
(* writer goes on at its own offset and leaves a hole.                     *)
(***************************************************************************)
EXTENDS Integers

CONSTANTS
    Workers,    \* threads and commands that work on the files
    Stamps,     \* the archive folders there can be, by their time
    MaxSaid     \* bound on the versions of the conversation

Here    == "live"
Places  == {Here} \cup Stamps
Kinds   == {"jsonl", "gz", "part"}
Names   == Places \X Kinds
Nowhere == <<"nowhere", "part">>

Absent   == -1
Short    == 0
Versions == 1..MaxSaid

VARIABLES
    file,       \* what each name holds
    job         \* what each worker is doing

Ops == {"none", "archive", "restore", "delete", "sweep"}
Pcs == {"idle", "look", "move", "back", "clear", "stat", "open", "read", "copy", "place", "remove", "undo", "end"}
Jobs == [op : Ops, pc : Pcs, at : Places, out : Names \cup {Nowhere},
         text : {Short} \cup Versions, holed : BOOLEAN]

Idle == [op |-> "none", pc |-> "idle", at |-> Here, out |-> Nowhere,
         text |-> Short, holed |-> FALSE]

FilesOK == /\ file \in [Names -> {Absent, Short} \cup Versions]
           /\ job \in [Workers -> Jobs]

Transcript == <<Here, "jsonl">>
Plain(s)   == <<s, "jsonl">>
Zipped(s)  == <<s, "gz">>

\* What a job reads, what it writes, and the name it writes it under first.
\* A restore unzips the archive; every other job compresses it.
Source(j) == IF j.op = "restore" THEN Zipped(j.at) ELSE Plain(j.at)
Target(j) == IF j.op = "restore" THEN Transcript ELSE Zipped(j.at)
Part(j)   == <<Target(j)[1], "part">>

There(n) == file[n] # Absent

\* The file list_archived names for an archive: the plain one if it is there.
Listed(s) == IF There(Plain(s)) THEN Plain(s) ELSE Zipped(s)

Goto(w, pc) == job' = [job EXCEPT ![w].pc = pc]

\* The worker closes what it had open.
Close(w, pc) ==
    job' = [job EXCEPT ![w] = [Idle EXCEPT !.op = job[w].op, !.at = job[w].at,
                                           !.pc = pc]]

\* Names change under the workers that have the files open.  A worker closes
\* its own before it renames it.
Unlink(n) ==
    /\ file' = [file EXCEPT ![n] = Absent]
    /\ job' = [w \in Workers |->
                 [job[w] EXCEPT !.out = IF @ = n THEN Nowhere ELSE @]]

UnlinkThen(n, w, pc) ==
    /\ file' = [file EXCEPT ![n] = Absent]
    /\ job' = [v \in Workers |->
                 [job[v] EXCEPT !.out = IF @ = n THEN Nowhere ELSE @,
                                !.pc = IF v = w THEN pc ELSE @]]

RenameThen(a, b, w, pc) ==
    /\ file' = [file EXCEPT ![b] = file[a], ![a] = Absent]
    /\ job' = [v \in Workers |->
                 IF v = w THEN [Idle EXCEPT !.op = job[w].op, !.at = job[w].at,
                                            !.pc = pc]
                 ELSE [job[v] EXCEPT !.out = IF @ = a THEN b
                                             ELSE IF @ = b THEN Nowhere ELSE @]]

(***************************************************************************)
(* compress and decompress, through write_via_part.                        *)
(***************************************************************************)

\* Its modified time is read first: without the file there is nothing to do.
Stat(w) ==
    /\ job[w].pc = "stat"
    /\ Goto(w, IF There(Source(job[w])) THEN "open" ELSE "end")
    /\ UNCHANGED file

\* The part file is made, or truncated if there is one.
Open(w) ==
    LET part == Part(job[w]) IN
    /\ job[w].pc = "open"
    /\ file' = [file EXCEPT ![part] = Short]
    /\ job' = [v \in Workers |->
                 IF v = w THEN [job[v] EXCEPT !.pc = "read", !.out = part,
                                              !.holed = FALSE]
                 ELSE IF job[v].out = part THEN [job[v] EXCEPT !.holed = TRUE]
                 ELSE job[v]]

Read(w) ==
    /\ job[w].pc = "read"
    /\ LET from == file[Source(job[w])] IN
       IF from = Absent \/ (job[w].op = "restore" /\ from = Short)
         THEN Close(w, "undo")
         ELSE job' = [job EXCEPT ![w].pc = "copy", ![w].text = from]
    /\ UNCHANGED file

\* All of it is written and synced; a writer that was truncated under leaves
\* the file as short as the truncation made it.
Copy(w) ==
    LET j == job[w] IN
    /\ j.pc = "copy"
    /\ file' = IF j.out = Nowhere \/ j.holed THEN file
               ELSE [file EXCEPT ![j.out] = j.text]
    /\ Goto(w, "place")

\* Variant: the failure goes unseen.
CopyFailsUnseen(w) ==
    /\ job[w].pc = "copy"
    /\ Close(w, "place")
    /\ UNCHANGED file

\* The disk is full, say.
CopyFails(w) ==
    /\ job[w].pc = "copy"
    /\ Close(w, "undo")
    /\ UNCHANGED file

Place(w) ==
    /\ job[w].pc = "place"
    /\ There(Part(job[w]))
    /\ RenameThen(Part(job[w]), Target(job[w]), w, "remove")

PlaceFails(w) ==
    /\ job[w].pc = "place"
    /\ ~There(Part(job[w]))
    /\ Close(w, "undo")
    /\ UNCHANGED file

\* What was written from goes; when compressing finds it gone, its gzipped
\* copy goes too.
Remove(w) ==
    LET j == job[w] IN
    /\ j.pc = "remove"
    /\ CASE There(Source(j)) -> UnlinkThen(Source(j), w, "end")
         [] ~There(Source(j)) /\ j.op # "restore" -> UnlinkThen(Target(j), w, "end")
         [] OTHER -> Goto(w, "end") /\ UNCHANGED file

Undo(w) ==
    /\ job[w].pc = "undo"
    /\ UnlinkThen(Part(job[w]), w, "end")

WriteStep(w) ==
    \/ Stat(w)
    \/ Open(w)
    \/ Read(w)
    \/ Copy(w)
    \/ CopyFails(w)
    \/ Place(w)
    \/ PlaceFails(w)
    \/ Remove(w)
    \/ Undo(w)

(***************************************************************************)
(* The renames that archive a transcript and put a plain one back.         *)
(***************************************************************************)

\* archive_transcript: moved first, compressed after.
MoveAway(w) ==
    /\ job[w].pc = "move"
    /\ IF There(Transcript)
         THEN RenameThen(Transcript, Plain(job[w].at), w, "stat")
         ELSE Goto(w, "end") /\ UNCHANGED file

\* restore, of an archive that was plain when it was listed.
PutBack(w) ==
    /\ job[w].pc = "back"
    /\ IF There(Plain(job[w].at))
         THEN RenameThen(Plain(job[w].at), Transcript, w, "end")
         ELSE Goto(w, "end") /\ UNCHANGED file

\* remove_dir_all on the archive's folder, file by file, whichever comes first.
Clear(w) ==
    /\ job[w].pc = "clear"
    /\ \E k \in Kinds :
         /\ There(<<job[w].at, k>>)
         /\ Unlink(<<job[w].at, k>>)

\* Nothing is left, or something came in after the folder was read.
ClearEnds(w) ==
    /\ job[w].pc = "clear"
    /\ Goto(w, "end")
    /\ UNCHANGED file

===============================================================================
