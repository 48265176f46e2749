----------------------------- MODULE ServerArchive -----------------------------
(***************************************************************************)
(* Archiving, restoring and deleting the archives of one session on a      *)
(* host, beside the server's own compression of old archives as it starts. *)
(* Requests hold the account's lock (server/src/routes.rs); the            *)
(* compression takes no lock (server/src/moves.rs), and the server may be  *)
(* killed between any two steps.                                           *)
(*                                                                         *)
(* Sessions that run are AccountSessions' matter: here Claude adds to the  *)
(* transcript at any time, also past an archive's look at what runs, and   *)
(* another account's copy of the session arrives while no request holds    *)
(* the lock.                                                               *)
(***************************************************************************)
EXTENDS ArchiveFiles, FiniteSets

CONSTANTS
    Requests,   \* threads of requests: with Sweeper, the Workers
    Sweeper,    \* the thread that compresses old archives
    MaxKills    \* bound on the kills of the server

VARIABLES
    holder,     \* who holds the account's lock
    todo,       \* the archives the sweeper has still to compress
    said,       \* the latest version of the conversation
    used,       \* the stamps archives have had
    \* What happened, for the properties.
    dropped,    \* versions a client asked to delete
    twice,      \* two workers compressed one archive at once
    kills

serverVars == <<holder, todo, said, used, kills>>
history == <<dropped, twice>>
vars == <<file, job, serverVars, history>>

Nobody == "nobody"

TypeOK ==
    /\ FilesOK
    /\ holder \in Requests \cup {Nobody}
    /\ todo \subseteq Stamps
    /\ said \in Versions
    /\ used \subseteq Stamps
    /\ dropped \subseteq Versions
    /\ twice \in BOOLEAN
    /\ kills \in 0..MaxKills

\* An archive from before they were compressed, or a live session.
Init ==
    /\ used \in SUBSET Stamps /\ Cardinality(used) <= 1
    /\ \E live \in IF used = {} THEN {TRUE} ELSE BOOLEAN :
         file = [n \in Names |->
                   IF (n = Transcript /\ live) \/ (\E s \in used : n = Plain(s))
                   THEN 1 ELSE Absent]
    /\ job = [w \in Workers |->
                IF w = Sweeper THEN [Idle EXCEPT !.op = "sweep", !.pc = "look"]
                ELSE Idle]
    /\ holder = Nobody
    /\ todo = {}
    /\ said = 1
    /\ dropped = {}
    /\ twice = FALSE
    /\ kills = 0

(***************************************************************************)
(* Requests.                                                               *)
(***************************************************************************)

\* Requests wait for the lock before they look at anything.  A client names an
\* archive it was shown.
Take(r, op, s) ==
    /\ job[r].pc = "idle"
    /\ IF op = "archive" THEN s = Here ELSE s \in used
    /\ holder = Nobody
    /\ holder' = r
    /\ job' = [job EXCEPT ![r] = [Idle EXCEPT !.op = op, !.pc = "look", !.at = s]]
    /\ UNCHANGED <<file, todo, said, used, kills, history>>

\* The session has to be there, and not running.  An archive's stamp is the
\* time, to the second.
LookToArchive(r) ==
    /\ job[r].pc = "look" /\ job[r].op = "archive"
    /\ IF There(Transcript)
         THEN \E s \in Stamps \ used :
                /\ job' = [job EXCEPT ![r].pc = "move", ![r].at = s]
                /\ used' = used \cup {s}
         ELSE /\ Goto(r, "end")
              /\ UNCHANGED used
    /\ UNCHANGED <<file, holder, todo, said, kills, history>>

\* Variant: a live copy doesn't refuse the restore.
LookPastLive(r) ==
    LET s == job[r].at IN
    /\ job[r].pc = "look" /\ job[r].op = "restore"
    /\ Goto(r, IF ~There(Listed(s)) THEN "end"
               ELSE IF Listed(s) = Plain(s) THEN "back" ELSE "stat")
    /\ UNCHANGED <<file, serverVars, history>>

\* The archive is found by listing; a live copy refuses the restore.
LookToRestore(r) ==
    LET s == job[r].at IN
    /\ job[r].pc = "look" /\ job[r].op = "restore"
    /\ Goto(r, IF ~There(Listed(s)) \/ There(Transcript) THEN "end"
               ELSE IF Listed(s) = Plain(s) THEN "back" ELSE "stat")
    /\ UNCHANGED <<file, serverVars, history>>

LookToDelete(r) ==
    LET s == job[r].at IN
    /\ job[r].pc = "look" /\ job[r].op = "delete"
    /\ IF There(Listed(s))
         THEN /\ Goto(r, "clear")
              /\ dropped' = dropped \cup ({file[Plain(s)], file[Zipped(s)]} \cap Versions)
         ELSE /\ Goto(r, "end")
              /\ UNCHANGED dropped
    /\ UNCHANGED <<file, serverVars, twice>>

Finish(r) ==
    /\ r \in Requests
    /\ job[r].pc = "end"
    /\ holder' = Nobody
    /\ job' = [job EXCEPT ![r] = Idle]
    /\ UNCHANGED <<file, todo, said, used, kills, history>>

(***************************************************************************)
(* The server's compression of old archives, once as it starts.            *)
(***************************************************************************)

SweepList ==
    /\ job[Sweeper].pc = "look"
    /\ todo' = {s \in Stamps : There(Plain(s))}
    /\ Goto(Sweeper, "end")
    /\ UNCHANGED <<file, holder, said, used, kills, history>>

SweepNext ==
    /\ job[Sweeper].pc = "end"
    /\ \E s \in todo :
         /\ job' = [job EXCEPT ![Sweeper] =
                      [Idle EXCEPT !.op = "sweep", !.pc = "stat", !.at = s]]
         /\ todo' = todo \ {s}
    /\ UNCHANGED <<file, holder, said, used, kills, history>>

SweepDone ==
    /\ job[Sweeper].pc = "end"
    /\ todo = {}
    /\ job' = [job EXCEPT ![Sweeper] = Idle]
    /\ UNCHANGED <<file, serverVars, history>>

(***************************************************************************)
(* A worker's step on the files.                                           *)
(***************************************************************************)

Compressing(w, s) == /\ job[w].op \in {"archive", "sweep"}
                     /\ job[w].at = s
                     /\ job[w].pc \in {"open", "read", "copy", "place", "remove", "undo"}

Write(w) ==
    /\ WriteStep(w)
    /\ twice' = \/ twice
                \/ /\ job[w].pc = "stat"
                   /\ \E v \in Workers \ {w} : Compressing(v, job[w].at)
    /\ UNCHANGED <<serverVars, dropped>>

Move(w) ==
    /\ MoveAway(w) \/ PutBack(w) \/ Clear(w) \/ ClearEnds(w)
    /\ UNCHANGED <<serverVars, history>>

(***************************************************************************)
(* What goes on around them.                                               *)
(***************************************************************************)

\* Claude, which takes no lock, adds to the conversation, or a move, which does,
\* brings a later copy of it.
Say(arrives) ==
    /\ IF arrives THEN holder = Nobody ELSE There(Transcript)
    /\ said < MaxSaid
    /\ said' = said + 1
    /\ file' = [file EXCEPT ![Transcript] = said + 1]
    /\ UNCHANGED <<job, holder, todo, used, kills, history>>

\* The server is killed and started again.
Restart ==
    /\ kills < MaxKills
    /\ kills' = kills + 1
    /\ job' = [w \in Workers |->
                 IF w = Sweeper THEN [Idle EXCEPT !.op = "sweep", !.pc = "look"]
                 ELSE Idle]
    /\ holder' = Nobody
    /\ todo' = {}
    /\ UNCHANGED <<file, said, used, history>>

Next ==
    \/ \E r \in Requests :
         \/ \E op \in {"archive", "restore", "delete"}, s \in Places : Take(r, op, s)
         \/ LookToArchive(r)
         \/ LookToRestore(r)
         \/ LookToDelete(r)
         \/ Finish(r)
    \/ \E w \in Workers : Write(w) \/ Move(w)
    \/ SweepList \/ SweepNext \/ SweepDone
    \/ \E arrives \in BOOLEAN : Say(arrives)
    \/ Restart

Spec == Init /\ [][Next]_vars

(***************************************************************************)
(* Properties.                                                             *)
(***************************************************************************)

Kept == \/ file[Transcript] = said
        \/ \E s \in Stamps : file[Listed(s)] = said

\* As long as no two workers compressed one archive at once, the latest version
\* of the conversation is whole in the live transcript or in what an archive
\* lists, at every step and after every kill, unless a client deleted it.
NeverLost == ~twice /\ said \notin dropped => Kept

\* A live transcript changes only by going to an archive or being written on:
\* no request puts an older version in its place.
LiveStep == There(Transcript) => \/ ~There(Transcript)'
                                 \/ file'[Transcript] >= file[Transcript]
LiveNotRolledBack == [][LiveStep]_vars
================================================================================
