------------------------------ MODULE MemoryMerge ------------------------------
(***************************************************************************)
(* Merging a project's memory when one of its sessions moves between       *)
(* accounts (core/src/memory.rs).  Every account has its own copy of the   *)
(* project's notes and an index that lists them; the versions last had in  *)
(* common are kept once per project, beside the accounts, and are taken    *)
(* from the source of every move.                                          *)
(*                                                                         *)
(* A note is the set of facts it states.  Claude, in other sessions of     *)
(* either account, adds to the notes and takes from them at any time, a    *)
(* merge under way or not; a move can be killed between any two steps, and *)
(* inside a copy.                                                          *)
(***************************************************************************)
EXTENDS Naturals, FiniteSets

CONSTANTS
    Accounts,
    Notes,      \* the notes of the project, the index aside
    Facts,
    MaxChanges, \* bound on what Claude changes
    MaxKills    \* bound on moves that are killed

\* A note that isn't there; no note is one.
NoNote == {"absent"}
Text == SUBSET Facts
File == Text \cup {NoNote}

Index == "MEMORY.md"
Files == Notes \cup {Index}

VARIABLES
    note,       \* each account's notes
    index,      \* the notes its index lists, NoNote if it has no index
    base,       \* the common versions of the notes
    src, dst,   \* the accounts of the move under way
    left,       \* the files of the plan still to merge
    pc,         \* the move's step
    plan,       \* what the plan does with each note
    at,         \* the note at hand
    result,     \* what it is to become, NoNote if it stays as it is
    touched,    \* notes written since they were planned
    chosen,     \* what the user decided for the conflicts
    \* What happened, for the properties.
    forgotten,  \* facts that Claude took from a note, or the user decided on
    missed,     \* facts that a merge may have missed
    changes, kills

moveVars == <<src, dst, left, pc, plan, at, result>>
vars == <<note, index, base, moveVars, touched, chosen, forgotten, missed, changes, kills>>

Plans == {"none", "add", "same", "merge", "conflict"}
Decisions == {"none", "source", "destination", "merged"}
Steps == {"idle", "file", "write", "common"}

TypeOK ==
    /\ note \in [Accounts -> [Notes -> File]]
    /\ index \in [Accounts -> (SUBSET Notes) \cup {NoNote}]
    /\ base \in [Notes -> File]
    /\ src \in Accounts /\ dst \in Accounts
    /\ left \subseteq Files
    /\ pc \in Steps
    /\ plan \in [Notes -> Plans]
    /\ at \in Notes
    /\ result \in File
    /\ touched \subseteq Notes
    /\ chosen \in Decisions
    /\ forgotten \subseteq Notes \X Facts
    /\ missed \subseteq Notes \X Facts
    /\ changes \in 0..MaxChanges /\ kills \in 0..MaxKills

Init ==
    /\ note = [a \in Accounts |-> [n \in Notes |-> NoNote]]
    /\ index = [a \in Accounts |-> NoNote]
    /\ base = [n \in Notes |-> NoNote]
    /\ src \in Accounts /\ dst \in Accounts \ {src}
    /\ left = {}
    /\ pc = "idle"
    /\ plan = [n \in Notes |-> "none"]
    /\ at \in Notes
    /\ result = NoNote
    /\ touched = {}
    /\ chosen = "none"
    /\ forgotten = {} /\ missed = {}
    /\ changes = 0 /\ kills = 0

Has(a, n) == note[a][n] # NoNote
HasIndex(a) == index[a] # NoNote
ListedIn(a) == IF HasIndex(a) THEN index[a] ELSE {}

(***************************************************************************)
(* Claude in an account (external).                                        *)
(***************************************************************************)

\* A merge of the note is planned, and not done.
ToMerge(a, n) == n \in left /\ a \in {src, dst}

Touches(a, n) ==
    /\ changes < MaxChanges /\ changes' = changes + 1
    /\ touched' = touched \cup (IF ToMerge(a, n) THEN {n} ELSE {})
    /\ UNCHANGED <<base, moveVars, chosen, kills>>

\* It writes a fact down, and a note it lists in the index.
Remember(a, n, f) ==
    /\ ~Has(a, n) \/ f \notin note[a][n]
    /\ note' = [note EXCEPT ![a][n] = IF Has(a, n) THEN @ \cup {f} ELSE {f}]
    /\ index' = [index EXCEPT ![a] = ListedIn(a) \cup {n}]
    /\ missed' = missed \cup (IF ToMerge(a, n) THEN {<<n, f>>} ELSE {})
    /\ Touches(a, n)
    /\ UNCHANGED forgotten

Forget(a, n, f) ==
    /\ Has(a, n) /\ f \in note[a][n]
    /\ note' = [note EXCEPT ![a][n] = @ \ {f}]
    /\ forgotten' = forgotten \cup {<<n, f>>}
    /\ Touches(a, n)
    /\ UNCHANGED <<index, missed>>

\* It deletes a note, and may leave its line in the index.
Drop(a, n) ==
    /\ Has(a, n)
    /\ note' = [note EXCEPT ![a][n] = NoNote]
    /\ \/ index' = index
       \/ index' = [index EXCEPT ![a] = IF HasIndex(a) THEN @ \ {n} ELSE @]
    /\ forgotten' = forgotten \cup {<<n, f>> : f \in note[a][n]}
    /\ Touches(a, n)
    /\ UNCHANGED missed

(***************************************************************************)
(* The plan.                                                               *)
(***************************************************************************)

\* git's three-way merge of lines: each side's additions and removals.
ThreeWay(cur, com, other) ==
    (cur \cap other) \cup (cur \ com) \cup (other \ com)

\* Changes apart merge; changes in one place conflict, which git decides by
\* where the lines are.  A side that changed nothing never conflicts.
Planned(a, b, n) ==
    IF ~Has(a, n) THEN {"none"}
    ELSE IF ~Has(b, n) THEN {"add"}
    ELSE IF note[a][n] = note[b][n] THEN {"same"}
    ELSE IF base[n] = NoNote THEN {"conflict"}
    ELSE IF base[n] \in {note[a][n], note[b][n]} THEN {"merge"}
    ELSE {"merge", "conflict"}

\* One request's merge: planned from what is there now.  Every conflict needs
\* a decision, which is refused before anything is changed.
Begin(a, b, d) ==
    /\ pc = "idle" /\ a # b
    /\ \E p \in [Notes -> Plans] :
         /\ \A n \in Notes : p[n] \in Planned(a, b, n)
         /\ (d = "none") <=> (\A n \in Notes : p[n] # "conflict")
         /\ plan' = p
         /\ left' = {n \in Notes : p[n] # "none"}
                      \cup (IF HasIndex(a) THEN {Index} ELSE {})
         /\ left' # {}
         /\ forgotten' = forgotten \cup
              {t \in Notes \X Facts : p[t[1]] = "conflict"}
    /\ src' = a /\ dst' = b
    /\ chosen' = d
    /\ pc' = "file" /\ touched' = {}
    /\ UNCHANGED <<note, index, base, at, result, missed, changes, kills>>

(***************************************************************************)
(* Carrying it out, file by file, the index last.                          *)
(***************************************************************************)

\* A note the destination lacked is copied, over one it has by now.
AddNote(n) ==
    /\ pc = "file" /\ n \in left \ {Index} /\ plan[n] = "add" /\ Has(src, n)
    /\ note' = [note EXCEPT ![dst][n] = note[src][n]]
    /\ at' = n /\ pc' = "common"
    /\ UNCHANGED <<index, base, src, dst, left, plan, result, touched, chosen,
                   forgotten, missed, changes, kills>>

\* git, asked again, may find a conflict in what was written since; it finds
\* nothing to merge when a note is gone.
Merged(n) ==
    (IF Has(src, n) /\ Has(dst, n)
       THEN {ThreeWay(note[dst][n], base[n], note[src][n])} ELSE {NoNote})
    \cup (IF n \in touched /\ base[n] \notin {note[src][n], note[dst][n]}
             THEN {NoNote} ELSE {})

TextOf(a, n) == IF Has(a, n) THEN note[a][n] ELSE {}

\* What the destination's note is to become.
Results(n) ==
    CASE plan[n] = "merge" -> Merged(n)
      [] plan[n] = "conflict" /\ chosen = "source" -> {note[src][n]}
      [] plan[n] = "conflict" /\ chosen = "merged" -> {TextOf(src, n) \cup TextOf(dst, n)}
      [] OTHER -> {NoNote}

\* A source that is to be taken as it is has to be there.
NeedsSource(n) == plan[n] = "add" \/ (plan[n] = "conflict" /\ chosen = "source")

MergeNote(n) ==
    /\ pc = "file" /\ n \in left \ {Index} /\ plan[n] # "add"
    /\ NeedsSource(n) => Has(src, n)
    /\ result' \in Results(n)
    /\ missed' = IF plan[n] = "merge" /\ result' = NoNote
                 THEN missed \cup {<<n, f>> : f \in TextOf(src, n)} ELSE missed
    /\ at' = n /\ pc' = "write"
    /\ UNCHANGED <<note, index, base, src, dst, left, plan, touched, chosen, forgotten,
                   changes, kills>>

\* The note is backed up, and written into place whole.
WriteNote ==
    /\ pc = "write" /\ (result \in {NoNote, note[dst][at]} \/ Has(dst, at))
    /\ note' = IF result = NoNote THEN note ELSE [note EXCEPT ![dst][at] = result]
    /\ pc' = "common" /\ result' = NoNote
    /\ UNCHANGED <<index, base, src, dst, left, plan, at, touched, chosen, forgotten,
                   missed, changes, kills>>

\* Variant: the common version is the merge's result.
CommonIsMerged ==
    /\ pc = "common"
    /\ base' = [base EXCEPT ![at] = note[dst][at]]
    /\ left' = left \ {at}
    /\ pc' = "file"
    /\ UNCHANGED <<note, index, src, dst, plan, at, result, touched, chosen, forgotten,
                   missed, changes, kills>>

\* Its common version is the source's by then, whatever became of the
\* destination's.
Common ==
    /\ pc = "common" /\ Has(src, at)
    /\ base' = [base EXCEPT ![at] = note[src][at]]
    /\ left' = left \ {at}
    /\ pc' = "file"
    /\ UNCHANGED <<note, index, src, dst, plan, at, result, touched, chosen, forgotten,
                   missed, changes, kills>>

\* The lines of both, without those of notes the destination doesn't have; an
\* index that is missing there is copied, one that is the same is left.
MergedIndexes ==
    IF ~HasIndex(dst) THEN {index[src]}
    ELSE {{n \in index[src] \cup index[dst] : Has(dst, n)}}
           \cup (IF index[src] = index[dst] THEN {index[dst]} ELSE {})

\* (Lines that Claude adds between its read and its write are lost; nothing is
\* said of the index's lines.)
MergeIndex ==
    /\ pc = "file" /\ left = {Index}
    /\ \E i \in MergedIndexes : index' = [index EXCEPT ![dst] = i]
    /\ left' = {}
    /\ UNCHANGED <<note, base, src, dst, plan, at, pc, result, touched, chosen, forgotten,
                   missed, changes, kills>>

Ends == pc' = "idle" /\ left' = {} /\ result' = NoNote /\ touched' = {}

Finish ==
    /\ pc = "file" /\ left = {} /\ Ends
    /\ UNCHANGED <<note, index, base, src, dst, plan, at, chosen, forgotten, missed,
                   changes, kills>>

\* A note it has to read, or to back up, is gone: the move fails.
Fails ==
    /\ \/ pc = "file" /\ \E n \in left \ {Index} : NeedsSource(n) /\ ~Has(src, n)
       \/ pc = "write" /\ result \notin {NoNote, note[dst][at]} /\ ~Has(dst, at)
       \/ pc = "common" /\ ~Has(src, at)
    /\ Ends
    /\ UNCHANGED <<note, index, base, src, dst, plan, at, chosen, forgotten, missed,
                   changes, kills>>

\* A copy that is cut short, into an account or to the common versions, leaves
\* part of the note; everything else is written whole or not at all.
Killed ==
    /\ pc # "idle" /\ kills < MaxKills
    /\ kills' = kills + 1
    /\ \/ UNCHANGED <<note, base>>
       \/ \E n \in left \ {Index} : \E part \in SUBSET TextOf(src, n) :
            /\ pc = "file" /\ plan[n] = "add" /\ Has(src, n)
            /\ note' = [note EXCEPT ![dst][n] = part]
            /\ base' = base
       \/ \E part \in SUBSET TextOf(src, at) :
            /\ pc = "common" /\ Has(src, at)
            /\ base' = [base EXCEPT ![at] = part]
            /\ note' = note
    /\ Ends
    /\ UNCHANGED <<index, src, dst, plan, at, chosen, forgotten, missed, changes>>

Next ==
    \/ \E a \in Accounts, n \in Notes, f \in Facts : Remember(a, n, f) \/ Forget(a, n, f)
    \/ \E a \in Accounts, n \in Notes : Drop(a, n)
    \/ \E a, b \in Accounts, d \in Decisions : Begin(a, b, d)
    \/ \E n \in Notes : AddNote(n) \/ MergeNote(n)
    \/ WriteNote \/ Common \/ MergeIndex \/ Finish
    \/ Fails \/ Killed

Spec == Init /\ [][Next]_vars

(***************************************************************************)
(* Properties.                                                             *)
(***************************************************************************)

\* A merge never takes a fact from an account's note that Claude didn't take
\* out of one, or the user decide about: what only one side has is an addition
\* by the common version, whichever moves were cut short before.  But a fact
\* that Claude writes in a note while a merge has it to do can be missed, by
\* the merge's write or by its common version, and one of a note that turned
\* out to conflict after it was planned: of `missed` nothing is said, since the
\* code lets other sessions write while it merges (memory.rs:207-248).
KeepsFacts ==
    \A a \in Accounts, n \in Notes :
        Has(a, n) => \A f \in note[a][n] :
            <<n, f>> \in forgotten' \cup missed' \/ (Has(a, n)' /\ f \in note'[a][n])

FactsKept == [][KeepsFacts]_vars
================================================================================
