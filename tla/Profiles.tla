------------------------------ MODULE Profiles ------------------------------
(***************************************************************************)
(* The Mac app's profiles (profiles.rs): the list in profiles.json, and    *)
(* what belongs to each profile on disk: its data directory, its launcher  *)
(* in /Applications (launchers/gui.rs) and its wrapper in ~/.local/bin     *)
(* (launchers/cli.rs). Commands (commands.rs) run beside each other and    *)
(* beside the rebuild at startup (lib.rs); most hold STORE_LOCK, every     *)
(* build of a launcher holds BUILDING.  An existing install is imported as *)
(* a profile (migration.rs): copied, its original moved into a backup, and *)
(* moved back when a later step fails.                                     *)
(*                                                                         *)
(* A name stands for a name that validate_name accepts, SlugOf for         *)
(* slugify, a place in /Applications for a name.  Colour, order, last use  *)
(* and the contents of launchers are left out.  A command refused because  *)
(* its wrapper is running changes nothing, and is no step here.            *)
(***************************************************************************)
EXTENDS Naturals, FiniteSets, Functions, TLC

CONSTANTS
    Profiles,       \* ids; a new profile's is one never used before
    Names,
    Originals,      \* the profiles there are at the start: ids to profiles
    Behind,         \* names of those whose launchers another version built
    Shapes,         \* bound: the surfaces new profiles have
    SlugOf,         \* [Names -> slugs]
    Commands,       \* threads that serve the window
    Startup,        \* the thread that rebuilds outdated launchers
    None,
    MaxOps,         \* bound: commands
    MaxFailures     \* bound: steps that fail

VARIABLES
    store,      \* profiles.json: a function from ids to profiles
    dirs,       \* ids with a data directory
    bundles,    \* launchers in /Applications: names to the ids they open
    outdated,   \* names of launchers another version of this app built
    wrappers,   \* wrappers in ~/.local/bin: slugs to the ids they run
    stock,      \* the install to import, by surface: "own", "fresh" or "none"
    backups,    \* what a backup directory holds, by the id imported to
    lock,       \* who holds STORE_LOCK
    building,   \* who holds BUILDING
    cmds,       \* where each thread stands
    ops, failures,
    unsure      \* history: see LaunchersMatch

vars == <<store, dirs, bundles, outdated, wrappers, stock, backups, lock,
          building, cmds, ops, failures, unsure>>
files == <<bundles, outdated, wrappers>>
install == <<stock, backups>>

Surfaces == {"gui", "cli"}
Threads == Commands \cup {Startup}
Slugs == {SlugOf[n] : n \in Names}

\* What the models need of a profile: its name and its surfaces, and
\* whether its launcher is a wrapper with a Dock icon of its own.
Profile == [name : Names, surfaces : SUBSET Surfaces, icon : BOOLEAN]
Install == {"own", "fresh", "none"}

ASSUME ProfilesAssumption ==
    /\ None \notin Profiles /\ None \notin Threads
    /\ MaxOps \in Nat /\ MaxFailures \in Nat
    /\ Shapes \subseteq SUBSET Surfaces

\* The profiles at the start have slugs apart, as every command but an import
\* leaves them, and the launchers another version built are theirs.
ASSUME OriginalsAssumption ==
    /\ DOMAIN Originals \subseteq Profiles /\ Originals \in [DOMAIN Originals -> Profile]
    /\ \A p, q \in DOMAIN Originals :
         SlugOf[Originals[p].name] = SlugOf[Originals[q].name] => p = q
    /\ \A n \in Behind :
         \E p \in DOMAIN Originals : Originals[p].name = n /\ "gui" \in Originals[p].surfaces

Idle == [op |-> "none", at |-> "idle", id |-> None, new |-> None,
         build |-> {}, all |-> <<>>, parked |-> None]

TypeOK ==
    /\ DOMAIN store \subseteq Profiles
    /\ \A p \in DOMAIN store : store[p] \in Profile
    /\ dirs \subseteq Profiles
    /\ DOMAIN bundles \subseteq Names /\ Range(bundles) \subseteq Profiles
    /\ outdated \subseteq DOMAIN bundles
    /\ DOMAIN wrappers \subseteq Slugs /\ Range(wrappers) \subseteq Profiles
    /\ stock \in [Surfaces -> Install]
    /\ backups \in [Profiles -> [Surfaces -> Install]]
    /\ lock \in Threads \cup {None} /\ building \in Threads \cup {None}
    /\ \A c \in Threads : cmds[c].id \in Profiles \cup {None}
    /\ ops \in 0..MaxOps /\ failures \in 0..MaxFailures
    /\ unsure \subseteq Profiles

---------------------------------------------------------------------------
(* Helpers                                                                 *)

\* Variant: only the same name is taken.
NameTaken(all, name, id) == \E p \in DOMAIN all \ {id} : all[p].name = name

\* slug_taken: whether another profile of `all` claims the slug.
SlugTaken(all, name, id) ==
    \E p \in DOMAIN all \ {id} : SlugOf[all[p].name] = SlugOf[name]

\* An id the app has not used: Uuid::new_v4.
Fresh(p) ==
    /\ p \notin DOMAIN store \cup dirs \cup Range(bundles) \cup Range(wrappers) \cup unsure
    /\ \A c \in Threads : p # cmds[c].id /\ p \notin DOMAIN cmds[c].all
    /\ backups[p] = [s \in Surfaces |-> "none"]

Removed(f, x) == [y \in DOMAIN f \ {x} |-> f[y]]
Put(f, x, v) == [y \in DOMAIN f \cup {x} |-> IF y = x THEN v ELSE f[y]]

\* gui::remove and cli::remove of the launchers of profile `r`: for the
\* surfaces `which`, whoever they belong to by now.
RemoveLaunchers(r, which) ==
    /\ bundles' = IF "gui" \in which THEN Removed(bundles, r.name) ELSE bundles
    /\ outdated' = IF "gui" \in which THEN outdated \ {r.name} ELSE outdated
    /\ wrappers' = IF "cli" \in which THEN Removed(wrappers, SlugOf[r.name]) ELSE wrappers

Goto(c, at) == cmds' = [cmds EXCEPT ![c].at = at]

\* The command is over; the store's lock goes with it. The rebuild at
\* startup goes on with its next profile.
Return(c) ==
    /\ cmds' = [cmds EXCEPT ![c] =
         IF @.op = "refresh" THEN [@ EXCEPT !.at = "next", !.id = None, !.new = None, !.build = {}]
                             ELSE Idle]
    /\ lock' = IF lock = c THEN None ELSE lock

Fails == failures < MaxFailures /\ failures' = failures + 1

\* What a command builds first, and what follows once its launchers stand.
First(build) == IF "gui" \in build THEN "gui" ELSE IF "cli" \in build THEN "cli" ELSE "save"

Built(c) ==
    IF cmds[c].op \in {"regenerate", "refresh"}
    THEN Return(c)
    ELSE Goto(c, IF cmds[c].op = "import" THEN "lock" ELSE "save") /\ UNCHANGED lock

Unlocked == {"regenerate", "refresh", "import"}

\* A thread that builds without the store's lock takes the launchers of
\* others; it may also work on a profile that was changed meanwhile.  Others
\* take those of an import that is not saved yet.
Doubt(c, owners) ==
    LET k == cmds[c] IN
    unsure' = unsure
        \cup {p \in owners \ {k.id} : k.op \in Unlocked \/ p \notin DOMAIN store}
        \cup {p \in {k.id} : /\ k.op \in Unlocked \ {"import"}
                             /\ lock # None \/ p \notin DOMAIN store \/ store[p] # k.new}

Owner(f, x) == {f[y] : y \in DOMAIN f \cap {x}}
Owners(r, which) ==
    (IF "gui" \in which THEN Owner(bundles, r.name) ELSE {})
        \cup (IF "cli" \in which THEN Owner(wrappers, SlugOf[r.name]) ELSE {})

\* rollback and rollback_import: what the backup holds goes back where it
\* was, unless something stands there again, and what is left of the backup
\* and of the profile's directory is removed.
GiveBack(id) ==
    /\ stock' = [s \in Surfaces |->
         IF stock[s] = "none" THEN backups[id][s] ELSE stock[s]]
    /\ backups' = [backups EXCEPT ![id] = [s \in Surfaces |-> "none"]]
    /\ dirs' = dirs \ {id}

---------------------------------------------------------------------------
(* Commands                                                                *)

Start(c, op, id, new, build, at) ==
    /\ cmds[c].at = "idle" /\ c \in Commands
    /\ ops < MaxOps /\ ops' = ops + 1
    /\ cmds' = [cmds EXCEPT ![c] =
         [Idle EXCEPT !.op = op, !.at = at, !.id = id, !.new = new, !.build = build]]
    /\ UNCHANGED <<store, dirs, files, install, lock, building, failures, unsure>>

Create(c) ==
    \E p \in Profiles, n \in Names, s \in Shapes, icon \in BOOLEAN :
        /\ Fresh(p)
        /\ Start(c, "create", p, [name |-> n, surfaces |-> s, icon |-> icon], s, "lock")

\* update: the patch is a name, or another shape of the launcher. What it
\* is applied to is only read under the lock.
Update(c) ==
    \E p \in DOMAIN store :
        \/ \E n \in Names : Start(c, "update", p, [store[p] EXCEPT !.name = n], {"name"}, "lock")
        \/ Start(c, "update", p, [store[p] EXCEPT !.icon = ~@], {"icon"}, "lock")

Delete(c) == \E p \in DOMAIN store : Start(c, "delete", p, store[p], {}, "lock")

Toggle(c) ==
    \E p \in DOMAIN store, s \in Surfaces : Start(c, "toggle", p, store[p], {s}, "lock")

\* touch_last_used and reorder: the list is saved as it was loaded, but for
\* what is left out here.
Stamp(c) == \E p \in DOMAIN store : Start(c, "stamp", p, store[p], {}, "lock")

\* regenerate_launchers reads the profile and builds, without the lock.
Regenerate(c) ==
    \E p \in DOMAIN store :
        /\ store[p].surfaces # {}
        /\ Start(c, "regenerate", p, store[p], store[p].surfaces, First(store[p].surfaces))

\* import_existing_install looks for the install first.
Import(c) ==
    \E p \in Profiles, n \in Names, s \in Shapes :
        /\ Fresh(p) /\ s # {}
        /\ \A x \in s : stock[x] # "none"
        /\ Start(c, "import", p, [name |-> n, surfaces |-> s, icon |-> FALSE], s, "copy")

\* refresh_outdated, for the next profile of the list loaded at startup.
Refresh ==
    /\ cmds[Startup].at = "next"
    /\ \E p \in DOMAIN cmds[Startup].all :
         LET k == cmds[Startup]
             r == k.all[p]
             rest == Removed(k.all, p)
         IN cmds' = [cmds EXCEPT ![Startup] =
             IF "gui" \in r.surfaces /\ r.name \in outdated
             THEN [k EXCEPT !.all = rest, !.id = p, !.new = r, !.build = {"gui"}, !.at = "gui"]
             ELSE [k EXCEPT !.all = rest]]
    /\ UNCHANGED <<store, dirs, files, install, lock, building, ops, failures, unsure>>

---------------------------------------------------------------------------
(* Under the lock: load, and what the change is                            *)

\* The profile a command leaves in the list it loaded (update: patched).
Changed(c) ==
    LET k == cmds[c] IN
    IF k.op = "update"
    THEN [store[k.id] EXCEPT !.name = IF "name" \in k.build THEN k.new.name ELSE @,
                             !.icon = IF "icon" \in k.build THEN k.new.icon ELSE @]
    ELSE IF k.op = "toggle"
    THEN [store[k.id] EXCEPT !.surfaces =
             IF k.build \subseteq @ THEN @ \ k.build ELSE @ \cup k.build]
    ELSE IF k.op \in {"create", "import"} THEN k.new ELSE store[k.id]

Refused(c) ==
    LET k == cmds[c] IN
    \/ k.op = "create" /\ SlugTaken(store, k.new.name, k.id)
    \/ k.op \notin {"create", "import"} /\ k.id \notin DOMAIN store
    \/ /\ k.op = "update" /\ k.id \in DOMAIN store
       /\ SlugOf[Changed(c).name] # SlugOf[store[k.id].name]
       /\ SlugTaken(store, Changed(c).name, k.id)

\* What is built before the save: all of a new or changed profile's
\* launchers, the one that is turned on.
ToBuild(c, r) ==
    LET k == cmds[c] IN
    IF k.op \in {"create", "update"} THEN r.surfaces
    ELSE IF k.op = "toggle" THEN k.build \ store[k.id].surfaces ELSE {}

\* What goes before the save: a deleted profile's launchers, the one that is
\* turned off.
ToRemove(c, r) ==
    IF cmds[c].op = "delete" THEN r.surfaces
    ELSE IF cmds[c].op = "toggle" THEN cmds[c].build \ r.surfaces ELSE {}

Load(c) ==
    /\ cmds[c].at = "lock" /\ lock = None
    /\ IF Refused(c)
       THEN Return(c) /\ UNCHANGED <<dirs, files, unsure>>
       ELSE LET r == Changed(c)
                build == ToBuild(c, r)
                off == ToRemove(c, r)
            IN /\ lock' = c
               /\ cmds' = [cmds EXCEPT ![c] = [@ EXCEPT !.new = r, !.all = store,
                    !.build = IF cmds[c].op = "import" THEN cmds[c].build ELSE build,
                    !.at = IF cmds[c].op = "delete" THEN "trash" ELSE First(build)]]
               /\ dirs' = IF cmds[c].op \in {"create", "toggle"} /\ build # {}
                          THEN dirs \cup {cmds[c].id} ELSE dirs
               /\ RemoveLaunchers(r, off)
               /\ Doubt(c, Owners(r, off))
    /\ UNCHANGED <<store, install, building, ops, failures>>

\* delete, after its launchers: the data goes, or the command ends there.
Trash(c) ==
    /\ cmds[c].at = "trash"
    /\ \/ /\ dirs' = dirs \ {cmds[c].id}
          /\ Goto(c, "save")
          /\ UNCHANGED <<lock, failures, unsure>>
       \/ /\ Fails
          /\ Return(c)
          /\ unsure' = unsure \cup {cmds[c].id}
          /\ UNCHANGED dirs
    /\ UNCHANGED <<store, files, install, building, ops>>

---------------------------------------------------------------------------
(* Launchers: gui::generate and cli::generate                              *)

\* The launcher that stands at the place goes: a wrapper's is parked, a
\* script's torn down.
Build(c) ==
    /\ cmds[c].at = "gui" /\ building = None
    /\ building' = c
    /\ LET r == cmds[c].new IN
       /\ cmds' = [cmds EXCEPT ![c] = [@ EXCEPT !.at = "build",
            !.parked = IF r.icon /\ r.name \in DOMAIN bundles THEN bundles[r.name] ELSE None]]
       /\ RemoveLaunchers(r, {"gui"})
       /\ Doubt(c, Owners(r, {"gui"}))
    /\ UNCHANGED <<store, dirs, install, lock, ops, failures>>

BuildEnds(c) ==
    /\ cmds[c].at = "build"
    /\ building' = None
    /\ bundles' = Put(bundles, cmds[c].new.name, cmds[c].id)
    /\ IF "cli" \in cmds[c].build THEN Goto(c, "cli") /\ UNCHANGED lock ELSE Built(c)
    /\ Doubt(c, Owners(cmds[c].new, {"gui"}))
    /\ UNCHANGED <<store, dirs, outdated, wrappers, install, ops, failures>>

\* What a command that builds for a new profile undoes when it fails.
Undo(c) ==
    IF cmds[c].op = "import" THEN GiveBack(cmds[c].id)
    ELSE /\ dirs' = IF cmds[c].op = "create" THEN dirs \ {cmds[c].id} ELSE dirs
         /\ UNCHANGED install

\* A wrapper that was replaced is put back; a script's place stays empty.
BuildFails(c) ==
    /\ cmds[c].at = "build" /\ Fails
    /\ building' = None
    /\ LET k == cmds[c] IN
       /\ bundles' = IF k.parked = None THEN bundles ELSE Put(bundles, k.new.name, k.parked)
       /\ unsure' = unsure \cup ({k.id, k.parked} \ {None})
    /\ Undo(c) /\ Return(c)
    /\ UNCHANGED <<store, outdated, wrappers, ops>>

Cli(c) ==
    /\ cmds[c].at = "cli"
    /\ wrappers' = Put(wrappers, SlugOf[cmds[c].new.name], cmds[c].id)
    /\ Doubt(c, Owners(cmds[c].new, {"cli"}))
    /\ Built(c)
    /\ UNCHANGED <<store, dirs, bundles, outdated, install, building, ops, failures>>

\* The launcher in /Applications goes with it, where the command built one.
CliFails(c) ==
    /\ cmds[c].at = "cli" /\ Fails
    /\ LET k == cmds[c]
           undone == IF k.op \in {"create", "update", "import"} THEN k.build \ {"cli"} ELSE {}
       IN /\ RemoveLaunchers(k.new, undone)
          /\ unsure' = unsure \cup {k.id} \cup Owners(k.new, undone)
    /\ Undo(c) /\ Return(c)
    /\ UNCHANGED <<store, building, ops>>

---------------------------------------------------------------------------
(* The save, and after it                                                  *)

\* What the command saves: the list it loaded, with its one change.
Saved(c) ==
    LET k == cmds[c] IN
    IF k.op = "delete" THEN Removed(k.all, k.id) ELSE Put(k.all, k.id, k.new)

\* An import never asks whether its slug is taken.
Save(c) ==
    /\ cmds[c].at = "save"
    /\ store' = Saved(c)
    /\ IF cmds[c].op = "update" THEN Goto(c, "tidy") /\ UNCHANGED lock ELSE Return(c)
    /\ LET k == cmds[c] IN
       unsure' = unsure \cup
            IF k.op = "import" /\ SlugTaken(k.all, k.new.name, k.id)
            THEN {k.id} \cup {p \in DOMAIN k.all : SlugOf[k.all[p].name] = SlugOf[k.new.name]}
            ELSE {}
    /\ UNCHANGED <<dirs, files, install, building, ops, failures>>

\* create, update and import remove the launchers they built, update also
\* where it built over the profile's own.
SaveFails(c) ==
    /\ cmds[c].at = "save" /\ Fails
    /\ LET k == cmds[c]
           undone == IF k.op \in {"create", "update", "import"} THEN k.build ELSE {}
       IN /\ RemoveLaunchers(k.new, undone)
          /\ unsure' = unsure \cup {k.id} \cup Owners(k.new, undone)
    /\ Undo(c) /\ Return(c)
    /\ UNCHANGED <<store, building, ops>>

\* A renamed profile's former launchers go once the new ones are saved.
Tidy(c) ==
    /\ cmds[c].at = "tidy"
    /\ LET old == cmds[c].all[cmds[c].id]
           new == cmds[c].new
           former == (IF old.name # new.name THEN {"gui"} ELSE {})
                \cup (IF SlugOf[old.name] # SlugOf[new.name] THEN {"cli"} ELSE {})
       IN /\ RemoveLaunchers(old, former \cap old.surfaces)
          /\ Doubt(c, Owners(old, former \cap old.surfaces))
    /\ Return(c)
    /\ UNCHANGED <<store, dirs, install, building, ops, failures>>

---------------------------------------------------------------------------
(* Importing an install                                                    *)

Copy(c) ==
    /\ cmds[c].at = "copy"
    /\ \/ Goto(c, "gui away") /\ dirs' = dirs \cup {cmds[c].id} /\ UNCHANGED <<lock, failures>>
       \/ Fails /\ Return(c) /\ UNCHANGED dirs
    /\ UNCHANGED <<store, files, install, building, ops, unsure>>

\* The original of one surface after the other goes into the backup; when
\* that fails, or there is none any more, what went before comes back.
MoveAway(c, s) ==
    LET id == cmds[c].id
        next == IF s = "gui" THEN "cli away" ELSE First(cmds[c].build)
    IN
    /\ cmds[c].at = (IF s = "gui" THEN "gui away" ELSE "cli away")
    /\ \/ /\ s \notin cmds[c].build
          /\ Goto(c, next)
          /\ UNCHANGED <<dirs, install, lock, failures>>
       \/ /\ s \in cmds[c].build /\ stock[s] # "none"
          /\ stock' = [stock EXCEPT ![s] = "none"]
          /\ backups' = [backups EXCEPT ![id][s] = stock[s]]
          /\ Goto(c, next)
          /\ UNCHANGED <<dirs, lock, failures>>
       \/ /\ s \in cmds[c].build
          /\ IF stock[s] = "none" THEN UNCHANGED failures ELSE Fails
          /\ GiveBack(id) /\ Return(c)
    /\ UNCHANGED <<store, files, building, ops, unsure>>

\* The stock app, or its CLI, is started and makes itself a new directory.
Recreate(s) ==
    /\ stock[s] = "none"
    /\ stock' = [stock EXCEPT ![s] = "fresh"]
    /\ UNCHANGED <<store, dirs, files, backups, lock, building, cmds, ops, failures, unsure>>

---------------------------------------------------------------------------

Begun(all) == [Idle EXCEPT !.op = "refresh", !.at = "next", !.all = all]

\* The app quits, whatever its threads were at, and is started again.
Quit ==
    /\ ops < MaxOps /\ ops' = ops + 1
    /\ cmds' = [c \in Threads |-> IF c = Startup THEN Begun(store) ELSE Idle]
    /\ lock' = None /\ building' = None
    /\ unsure' = (unsure \cup {cmds[c].id : c \in Threads}
                          \cup {cmds[c].parked : c \in Threads}) \ {None}
    /\ UNCHANGED <<store, dirs, files, install, failures>>

WithSurface(s) == {p \in DOMAIN store : s \in store[p].surfaces}

Init ==
    /\ store = Originals
    /\ bundles = AntiFunction([p \in WithSurface("gui") |-> store[p].name])
    /\ outdated = Behind
    /\ wrappers = AntiFunction([p \in WithSurface("cli") |-> SlugOf[store[p].name]])
    /\ cmds = [c \in Threads |-> IF c = Startup THEN Begun(store) ELSE Idle]
    /\ dirs = DOMAIN Originals
    /\ stock = [s \in Surfaces |-> "own"]
    /\ backups = [p \in Profiles |-> [s \in Surfaces |-> "none"]]
    /\ lock = None /\ building = None
    /\ ops = 0 /\ failures = 0 /\ unsure = {}

Next ==
    \/ \E c \in Commands :
        \/ Create(c) \/ Update(c) \/ Delete(c) \/ Toggle(c) \/ Stamp(c)
        \/ Regenerate(c) \/ Import(c)
        \/ Copy(c) \/ Trash(c) \/ Tidy(c) \/ Cli(c) \/ CliFails(c)
        \/ Load(c) \/ Save(c) \/ SaveFails(c)
        \/ \E s \in Surfaces : MoveAway(c, s)
    \/ \E c \in Threads : Build(c) \/ BuildEnds(c) \/ BuildFails(c)
    \/ Refresh \/ Quit
    \/ \E s \in Surfaces : Recreate(s)

Spec == Init /\ [][Next]_vars

---------------------------------------------------------------------------
(* Properties                                                              *)

Settled(p) == p \notin unsure /\ \A c \in Threads : cmds[c].id # p

\* The launchers on disk are those of the profiles in the list: each profile
\* has those of its surfaces, under the name and slug it has now, and no
\* launcher opens a profile that is not listed or has another name. That is
\* for profiles no command is busy with and none has failed on; a thread that
\* builds without the lock, and an import that asks nobody whether its slug
\* is taken, can upset it too (`unsure`).
LaunchersMatch ==
    \A p \in {q \in Profiles : Settled(q)} :
        /\ {n \in DOMAIN bundles : bundles[n] = p} =
               {n \in Names : /\ p \in DOMAIN store /\ "gui" \in store[p].surfaces
                              /\ store[p].name = n}
        /\ {x \in DOMAIN wrappers : wrappers[x] = p} =
               {SlugOf[n] : n \in {m \in Names : /\ p \in DOMAIN store
                                                 /\ "cli" \in store[p].surfaces
                                                 /\ store[p].name = m}}

\* What migration.rs says of an import that fails: its effects are rolled
\* back. Not when the app has made itself a new directory meanwhile: then the
\* original is not put back, and the backup is removed with it.
RollsBack ==
    \A s \in Surfaces : stock[s] = "own" \/ \E p \in Profiles : backups[p][s] = "own"
===============================================================================
