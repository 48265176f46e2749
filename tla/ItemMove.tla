-------------------------------- MODULE ItemMove --------------------------------
(***************************************************************************)
(* Carrying a session from one account to another, item by item: the       *)
(* transcript and what is kept under its id (core/src/session_move.rs on a *)
(* host, src/sessions/transfer.rs on the Mac).  Every step may fail, the   *)
(* program may be killed between any two, and the move be asked for again. *)
(*                                                                         *)
(* A host backs up all that it replaces or removes, by copying, and then   *)
(* applies item after item; the Mac moves each replaced item into the      *)
(* backup and copies the new one into its place.  A host also removes what *)
(* only the destination has.  Memory is MemoryMerge's.                     *)
(*                                                                         *)
(* Backups are in a folder of the move's own, named after its time to the  *)
(* second.  A host clears an item's place there first, which in a folder   *)
(* of its own clears nothing: two moves of the session within one second,  *)
(* whose folders would be one, are left out.                               *)
(***************************************************************************)
EXTENDS Naturals, FiniteSets

CONSTANTS
    Items,      \* what the session has; the transcript is done last
    Transcript,
    Folders,    \* items that are folders, replaced by removing the old one
    Plans,      \* plan files, which other sessions may name too
    MaxKills    \* bound on failures and kills

ItemsAssumption == /\ Transcript \in Items \ (Folders \cup Plans)
                   /\ Folders \subseteq Items /\ Plans \subseteq Items
KillsAssumption == MaxKills \in Nat

\* What an item holds: nothing, a folder half removed, an earlier copy that the
\* destination had, or what the session has now and after Claude went on.
Contents == {"none", "half", "earlier", "now", "later"}
Whole == Contents \ {"none", "half"}

VARIABLES
    program,    \* the host's server or the Mac app
    src, dst,   \* what each account has
    backup,     \* what went to backups, of each item
    archive,    \* transcripts that went to the source's archives
    act,        \* the plan: what the move does with each item
    left,       \* the items the phase has still to do
    pc,         \* the phase
    after,      \* what becomes of the source's copy
    kills

planVars == <<act, left, pc, after>>
vars == <<program, src, dst, backup, archive, planVars, kills>>

Acts == {"copy", "same", "replace", "remove", "skip"}
Phases == {"idle", "back up", "apply", "take out", "delete"}

TypeOK ==
    /\ program \in {"host", "mac"}
    /\ src \in [Items -> Contents] /\ dst \in [Items -> Contents]
    /\ backup \in [Items -> SUBSET Whole]
    /\ archive \subseteq Whole
    /\ act \in [Items -> Acts]
    /\ left \subseteq Items
    /\ pc \in Phases
    /\ after \in {"keep", "archive", "delete"}
    /\ kills \in 0..MaxKills

\* The source has the transcript and may lack other items; the destination may
\* have an earlier copy of any of them.
Init ==
    /\ program \in {"host", "mac"}
    /\ src \in [Items -> {"none", "now"}] /\ src[Transcript] = "now"
    /\ dst \in [Items -> {"none", "earlier"}]
    /\ backup = [i \in Items |-> {}]
    /\ archive = {}
    /\ act = [i \in Items |-> "skip"]
    /\ left = {}
    /\ pc = "idle"
    /\ after = "keep"
    /\ kills = 0

Own == Items \ Plans

(***************************************************************************)
(* The plan, made again by each request.                                   *)
(***************************************************************************)

\* A host names the plan files the source has, and every other item either
\* account has; the Mac names what the source has.
Action(i) ==
    IF src[i] # "none" THEN
      IF dst[i] = "none" THEN "copy" ELSE IF dst[i] = src[i] THEN "same" ELSE "replace"
    ELSE IF dst[i] # "none" /\ program = "host" /\ i \in Own THEN "remove" ELSE "skip"

Plan(way) ==
    /\ pc = "idle"
    /\ src[Transcript] # "none"
    /\ act' = [i \in Items |-> Action(i)]
    /\ after' = way
    /\ IF program = "host"
         THEN /\ pc' = "back up"
              /\ left' = {i \in Items : Action(i) \in {"replace", "remove"}}
         ELSE /\ pc' = "apply"
              /\ left' = {i \in Items : Action(i) \in {"copy", "replace"}}
    /\ UNCHANGED <<program, src, dst, backup, archive, kills>>

(***************************************************************************)
(* Carrying it out.                                                        *)
(***************************************************************************)

\* The transcript is last in every list of items.
Next1(i) == i \in left /\ (i = Transcript => left = {Transcript})

BackUp(i) ==
    /\ pc = "back up"
    /\ Next1(i)
    /\ backup' = [backup EXCEPT ![i] = @ \cup ({dst[i]} \cap Whole)]
    /\ left' = left \ {i}
    /\ UNCHANGED <<program, src, dst, archive, act, pc, after, kills>>

\* Variant: items are replaced before all of them are backed up.
BackedUpSome ==
    /\ pc = "back up"
    /\ pc' = "apply"
    /\ left' = {i \in Items : act[i] \in {"copy", "replace", "remove"}}
    /\ UNCHANGED <<program, src, dst, backup, archive, act, after, kills>>

BackedUp ==
    /\ pc = "back up" /\ left = {}
    /\ pc' = "apply"
    /\ left' = {i \in Items : act[i] \in {"copy", "replace", "remove"}}
    /\ UNCHANGED <<program, src, dst, backup, archive, act, after, kills>>

\* A host puts a copy in place by a rename, which a folder must make room for;
\* the Mac has moved what it replaces out of the way.
Place(i) ==
    /\ pc = "apply" /\ act[i] \in {"copy", "replace"}
    /\ Next1(i)
    /\ src[i] # "none"
    /\ dst[i] = "none" \/ (program = "host" /\ i \notin Folders)
    /\ dst' = [dst EXCEPT ![i] = src[i]]
    /\ left' = left \ {i}
    /\ UNCHANGED <<program, src, backup, archive, act, pc, after, kills>>

\* A folder is removed file by file.
MakeRoom(i) ==
    /\ pc = "apply" /\ program = "host" /\ i \in Folders
    /\ act[i] \in {"replace", "copy"}
    /\ Next1(i)
    /\ dst[i] # "none"
    /\ dst' = [dst EXCEPT ![i] = IF @ = "half" THEN "none" ELSE "half"]
    /\ UNCHANGED <<program, src, backup, archive, planVars, kills>>

MoveToBackup(i) ==
    /\ pc = "apply" /\ program = "mac"
    /\ act[i] = "replace"
    /\ Next1(i)
    /\ dst[i] # "none"
    /\ backup' = [backup EXCEPT ![i] = @ \cup ({dst[i]} \cap Whole)]
    /\ dst' = [dst EXCEPT ![i] = "none"]
    /\ UNCHANGED <<program, src, archive, planVars, kills>>

RemoveLeftOver(i) ==
    /\ pc = "apply" /\ act[i] = "remove"
    /\ Next1(i)
    /\ dst' = [dst EXCEPT ![i] = "none"]
    /\ left' = left \ {i}
    /\ UNCHANGED <<program, src, backup, archive, act, pc, after, kills>>

Applied ==
    /\ pc = "apply" /\ left = {}
    /\ pc' = IF after = "keep" THEN "idle" ELSE "take out"
    /\ UNCHANGED <<program, src, dst, backup, archive, act, left, after, kills>>

\* Only the transcript is archived; the other items stay.
Archive ==
    /\ pc = "take out" /\ after = "archive"
    /\ src[Transcript] # "none"
    /\ archive' = archive \cup {src[Transcript]}
    /\ src' = [src EXCEPT ![Transcript] = "none"]
    /\ pc' = "idle"
    /\ UNCHANGED <<program, dst, backup, act, left, after, kills>>

\* Every item of the session's own that the source still has.
Leaving == {i \in Own : src[i] # "none" /\ act[i] \notin {"skip", "remove"}}

\* Nothing is deleted unless each of them is the moved copy's equal.
CheckMoved ==
    /\ pc = "take out" /\ after = "delete"
    /\ IF \A i \in Leaving : dst[i] = src[i]
         THEN pc' = "delete" /\ left' = Leaving
         ELSE pc' = "idle" /\ left' = {}
    /\ UNCHANGED <<program, src, dst, backup, archive, act, after, kills>>

DeleteSource(i) ==
    /\ pc = "delete"
    /\ Next1(i)
    /\ src' = [src EXCEPT ![i] = "none"]
    /\ left' = left \ {i}
    /\ pc' = IF left = {i} THEN "idle" ELSE "delete"
    /\ UNCHANGED <<program, dst, backup, archive, act, after, kills>>

\* A step fails or the program is killed: what was done stays done.
Stops ==
    /\ pc # "idle"
    /\ kills < MaxKills
    /\ kills' = kills + 1
    /\ pc' = "idle"
    /\ left' = {}
    /\ UNCHANGED <<program, src, dst, backup, archive, act, after>>

\* Claude, running in the source while its copy stays (external).
GoOn(i) ==
    /\ src[i] = "now"
    /\ pc = "idle" \/ after = "keep"
    /\ src' = [src EXCEPT ![i] = "later"]
    /\ UNCHANGED <<program, dst, backup, archive, planVars, kills>>

Next ==
    \/ \E way \in {"keep", "archive", "delete"} : Plan(way)
    \/ \E i \in Items :
         \/ BackUp(i)
         \/ Place(i) \/ MakeRoom(i) \/ MoveToBackup(i) \/ RemoveLeftOver(i)
         \/ DeleteSource(i)
         \/ GoOn(i)
    \/ BackedUp \/ Applied \/ Archive \/ CheckMoved
    \/ Stops

Spec == Init /\ [][Next]_vars

(***************************************************************************)
(* Properties.                                                             *)
(***************************************************************************)

\* What item i holds is whole in an account, a backup or an archive.
IsKept(i, c) == \/ src[i] = c \/ dst[i] = c \/ c \in backup[i]
                \/ i = Transcript /\ c \in archive

Kept == {t \in Items \X Whole : IsKept(t[1], t[2])}
Mine == {t \in Items \X Whole : src[t[1]] = t[2]}

Here == src[Transcript] # "none"

There == \/ pc = "take out" /\ after = "archive"
         \/ \A i \in Leaving : dst[i] = src[i]

Promise == INSTANCE MovePromise WITH
             Things <- Items \X Whole,
             kept <- Kept, mine <- Mine, here <- Here, there <- There

\* A move on either program keeps what MovePromise promises.
Keeps == [Promise!Next]_<<Kept, Mine, Here, There>>
KeepsPromise == Promise!Init /\ [][Keeps]_vars
=================================================================================
