------------------------------- MODULE AppFiles -------------------------------
(***************************************************************************)
(* Files the Mac app changes that are not its own: the shell's rc file it  *)
(* adds the PATH hook to (path_setup.rs), and the configs of a Claude      *)
(* profile that it adds its MCP server to (mcp/install.rs): the desktop    *)
(* app's, written here, and Claude Code's, changed by `claude mcp`.        *)
(*                                                                         *)
(* The hook is added on the app's main thread, so by one call at a time;   *)
(* an install runs off it, so two can run at once, and share a temporary   *)
(* file.  Nobody is locked out: the files' owners write them meanwhile.    *)
(* The app can be killed at any step.                                      *)
(***************************************************************************)
EXTENDS Naturals, FiniteSets

CONSTANTS
  Installs,      \* installs of the MCP server that can run at once
  MaxStarts,     \* bound: installs and hooks added
  MaxEdits,      \* bound: times the files' owners write one
  MaxKills       \* bound: times the app is killed

VARIABLES
  rc,            \* the rc file: the version of the user's text it has, 0 for
                 \* none, whether all of it, and the hook
  backup,        \* the versions that have a backup
  hooking,       \* where the command that adds the hook stands, and what it
                 \* read
  desktop,       \* claude_desktop_config.json
  code,          \* .claude.json
  temp,          \* the desktop config's temporary file
  install,       \* by install, where it stands and what it says it did
  \* What happened, for the properties.
  settled,       \* the newest versions written while the app wasn't at the file
  together,      \* two installs were at the desktop app's config at once
  starts, edits, kills

fileVars == <<rc, backup, hooking, desktop, code, temp, install, settled, together,
              starts, edits, kills>>

(* Versions are numbered as they are written, of whatever file.            *)
Versions == 0..(MaxEdits + 1)
NewVersion == edits + 2

(* Servers a config lists: another one, and this app's, under its old      *)
(* name, by the path of an older copy, and as it is now.                   *)
Servers == {"other", "legacy", "older", "ours"}

(* A config: its servers, the version of what its owner has in it, and     *)
(* whether it can't be read as JSON.                                       *)
Configs == [servers : SUBSET Servers, version : Versions, broken : BOOLEAN]
NoFile  == [servers |-> {}]

Outcomes == {"none", "Added", "AlreadyThere", "Failed"}
Stages   == {"idle", "staging", "writing", "staged", "code", "legacy", "older", "add"}
Progress == [step : Stages, seen : Configs, opened : {"temp", "desktop", "gone"},
             raced : BOOLEAN, desktop : Outcomes, code : Outcomes]

TypeOK ==
  /\ rc \in [version : Versions, whole : BOOLEAN, hook : BOOLEAN]
  /\ backup \subseteq Versions
  /\ hooking \in [step : {"idle", "read", "backedUp", "cut"}, version : Versions,
                  whole : BOOLEAN]
  /\ desktop \in Configs /\ temp \in Configs \cup {NoFile} /\ code \in Configs
  /\ install \in [Installs -> Progress]
  /\ settled \in [rc : Versions, desktop : Versions] /\ together \in BOOLEAN
  /\ starts \in 0..MaxStarts /\ edits \in 0..MaxEdits /\ kills \in 0..MaxKills

(* A file that was emptied, to be written. *)
Empty  == [servers |-> {}, version |-> 0, broken |-> FALSE]
AtRest == [step |-> "idle", seen |-> Empty, opened |-> "temp", raced |-> FALSE,
           desktop |-> "none", code |-> "none"]
NoHook == [step |-> "idle", version |-> 0, whole |-> TRUE]

hookVars    == <<rc, backup, hooking>>
installVars == <<desktop, code, temp, install>>

(* Only this app has this app's servers, in one entry or in two. *)
Init ==
  /\ rc \in [version : {0, 1}, whole : {TRUE}, hook : {FALSE}]
  /\ backup = {}
  /\ hooking = NoHook
  /\ \E s \in {{"other"}, {"other", "legacy"}, {"other", "older"},
               {"other", "legacy", "ours"}} :
       /\ code = [servers |-> s, version |-> 1, broken |-> FALSE]
       /\ desktop \in [servers : {s}, version : {1}, broken : BOOLEAN]
  /\ temp = NoFile /\ install = [i \in Installs |-> AtRest]
  /\ settled = [rc |-> rc.version, desktop |-> 1] /\ together = FALSE
  /\ starts = 0 /\ edits = 0 /\ kills = 0
------------------------------------------------------------------------------
(* install_path_hook: nothing to do when the hook is there. *)
ReadRc ==
  /\ hooking.step = "idle" /\ starts < MaxStarts /\ starts' = starts + 1
  /\ hooking' = [step |-> IF rc.hook THEN "idle" ELSE "read",
                 version |-> rc.version, whole |-> rc.whole]
  /\ UNCHANGED <<rc, backup, settled, together, edits, kills, installVars>>

(* Text is backed up, next to the file and by the time; what is left of it *)
(* after a kill may be backed up too.                                      *)
BackUpRc ==
  /\ hooking.step = "read"
  /\ hooking' = [hooking EXCEPT !.step = "backedUp"]
  /\ backup' = IF hooking.version # 0 /\ hooking.whole
               THEN backup \cup {hooking.version} ELSE backup
  /\ UNCHANGED <<rc, settled, together, starts, edits, kills, installVars>>

(* fs::write empties the file first, whatever it has by now. *)
Emptied ==
  /\ rc' = [rc EXCEPT !.whole = (rc.version = 0)]
  /\ hooking' = [hooking EXCEPT !.step = "cut"]

(* A bug to try: the file is written before it is backed up. *)
CutRead ==
  /\ hooking.step = "read" /\ Emptied
  /\ UNCHANGED <<backup, settled, together, starts, edits, kills, installVars>>

CutRc ==
  /\ hooking.step = "backedUp" /\ Emptied
  /\ UNCHANGED <<backup, settled, together, starts, edits, kills, installVars>>

(* What was read is written, and the hook after it. *)
WriteRc ==
  /\ hooking.step = "cut"
  /\ rc' = [version |-> hooking.version, whole |-> hooking.whole, hook |-> TRUE]
  /\ hooking' = NoHook
  /\ UNCHANGED <<backup, settled, together, starts, edits, kills, installVars>>

HookFails ==
  /\ hooking.step # "idle" /\ hooking' = NoHook
  /\ UNCHANGED <<rc, backup, settled, together, starts, edits, kills, installVars>>

(* The user, or another program, writes the rc file. *)
EditRc ==
  /\ edits < MaxEdits /\ edits' = edits + 1
  /\ rc' = [rc EXCEPT !.version = NewVersion, !.whole = TRUE]
  /\ settled' = IF hooking.step = "idle" THEN [settled EXCEPT !.rc = NewVersion] ELSE settled
  /\ UNCHANGED <<backup, hooking, together, starts, kills, installVars>>
------------------------------------------------------------------------------
Stands(i, step) == install[i].step = step
AtDesktop(i)    == install[i].step \in {"staging", "writing", "staged"}
Goes(i, step)   == install' = [install EXCEPT ![i].step = step]
Says(i, where, outcome, step) ==
  install' = [install EXCEPT ![i].step = step,
                             ![i].code = IF where = "code" THEN outcome ELSE @,
                             ![i].desktop = IF where = "desktop" THEN outcome ELSE @]

Unwritten == UNCHANGED <<hookVars, settled, together, edits, kills>>

(* The entry as it is now is there, and none under the old name. *)
HasServer(config) ==
  "ours" \in config.servers /\ "legacy" \notin config.servers

(* with_server: the servers of this app replaced by one. *)
WithServer(config) ==
  [config EXCEPT !.servers = (@ \ {"legacy", "older"}) \cup {"ours"}]

(* install_everywhere, at a profile. *)
Install(i) ==
  /\ Stands(i, "idle") /\ starts < MaxStarts /\ starts' = starts + 1
  /\ LET others == {j \in Installs \ {i} : ~Stands(j, "idle")}
     IN  install' = [j \in Installs |->
           CASE j = i          -> [AtRest EXCEPT !.step = "staging", !.seen = desktop,
                                                 !.raced = others # {}]
             [] j \in others   -> [install[j] EXCEPT !.raced = TRUE]
             [] OTHER          -> AtRest]
  /\ together' = (together \/ \E j \in Installs \ {i} : AtDesktop(j))
  /\ UNCHANGED <<hookVars, settled, edits, desktop, code, temp, kills>>

(* A config that can't be read as JSON is left alone. *)
LeaveAlone(i) ==
  /\ Stands(i, "staging") /\ install[i].seen.broken
  /\ Says(i, "desktop", "Failed", "code")
  /\ Unwritten /\ UNCHANGED <<desktop, code, temp, starts>>

DesktopHasIt(i) ==
  /\ Stands(i, "staging") /\ ~install[i].seen.broken /\ HasServer(install[i].seen)
  /\ Says(i, "desktop", "AlreadyThere", "code")
  /\ Unwritten /\ UNCHANGED <<desktop, code, temp, starts>>

(* fs::write empties the temporary file, the same for every install. *)
StageDesktop(i) ==
  /\ Stands(i, "staging") /\ ~install[i].seen.broken /\ ~HasServer(install[i].seen)
  /\ temp' = Empty
  /\ install' = [install EXCEPT ![i].step = "writing", ![i].opened = "temp"]
  /\ Unwritten /\ UNCHANGED <<desktop, code, starts>>

(* It writes on in the file it opened, though that was renamed since.      *)
(* (Two that write one file at once may mix their texts: left out.)        *)
WriteTemp(i) ==
  LET text == WithServer(install[i].seen)  file == install[i].opened IN
  /\ Stands(i, "writing")
  /\ temp' = IF file = "temp" THEN text ELSE temp
  /\ desktop' = IF file = "desktop" THEN text ELSE desktop
  /\ Goes(i, "staged")
  /\ Unwritten /\ UNCHANGED <<code, starts>>

(* What another install has open, once the temporary file is the config.   *)
Renamed(m) ==
  IF m.step # "writing" THEN m
  ELSE [m EXCEPT !.opened = IF @ = "temp" THEN "desktop" ELSE "gone"]

(* The rename puts there whatever the file holds by then, and fails when   *)
(* another install has renamed it away.                                    *)
RenameDesktop(i) ==
  /\ Stands(i, "staged") /\ temp # NoFile
  /\ desktop' = temp /\ temp' = NoFile
  /\ install' = [j \in Installs |->
       IF j = i THEN [install[i] EXCEPT !.step = "code", !.desktop = "Added"]
       ELSE Renamed(install[j])]
  /\ Unwritten /\ UNCHANGED <<code, starts>>

WriteFails(i) ==
  /\ AtDesktop(i)
  /\ ~install[i].seen.broken /\ ~HasServer(install[i].seen)
  /\ Says(i, "desktop", "Failed", "code")
  /\ Unwritten /\ UNCHANGED <<desktop, code, temp, starts>>
------------------------------------------------------------------------------
(* A bug to try: an entry of an older copy passes for the server. *)
AnyEntry(config) == config.servers \cap {"ours", "older"} # {}

(* in_claude_code *)
Current(config) == "ours" \in config.servers

(* add_to_claude_code: what .claude.json has is looked up once. *)
LookAtCode(i) ==
  /\ Stands(i, "code")
  /\ install' = [install EXCEPT
       ![i].seen = code,
       ![i].step = IF Current(code) /\ "legacy" \notin code.servers THEN "idle"
                   ELSE IF "legacy" \in code.servers THEN "legacy" ELSE "older",
       ![i].code = IF Current(code) /\ "legacy" \notin code.servers
                     THEN "AlreadyThere" ELSE @]
  /\ Unwritten /\ UNCHANGED <<desktop, code, temp, starts>>

(* `claude mcp remove`, which fails when the entry is not there; then the  *)
(* whole step fails.                                                       *)
RemoveLegacy(i) ==
  /\ Stands(i, "legacy") /\ "legacy" \in code.servers
  /\ code' = [code EXCEPT !.servers = @ \ {"legacy"}]
  /\ IF Current(install[i].seen) THEN Says(i, "code", "Added", "idle") ELSE Goes(i, "older")
  /\ Unwritten /\ UNCHANGED <<desktop, temp, starts>>

(* The entry of an older copy, if there is one; failing is harmless. *)
RemoveOlder(i) ==
  /\ Stands(i, "older")
  /\ code' \in {code, [code EXCEPT !.servers = @ \ {"older", "ours"}]}
  /\ Goes(i, "add")
  /\ Unwritten /\ UNCHANGED <<desktop, temp, starts>>

(* `claude mcp add`, which fails when there is an entry of that name. *)
Add(i) ==
  /\ Stands(i, "add") /\ code.servers \cap {"older", "ours"} = {}
  /\ code' = [code EXCEPT !.servers = @ \cup {"ours"}]
  /\ Says(i, "code", "Added", "idle")
  /\ Unwritten /\ UNCHANGED <<desktop, temp, starts>>

(* Claude is not installed, fails, or is out of time. *)
ClaudeFails(i) ==
  /\ install[i].step \in {"legacy", "older", "add"}
  /\ Says(i, "code", "Failed", "idle")
  /\ Unwritten /\ UNCHANGED <<desktop, code, temp, starts>>
------------------------------------------------------------------------------
(* The app or Claude Code writes its config meanwhile: whatever an install *)
(* under way read of it is old, and what one said before is history.       *)
Raced == install' = [i \in Installs |->
           IF Stands(i, "idle") THEN AtRest ELSE [install[i] EXCEPT !.raced = TRUE]]

EditDesktop ==
  /\ edits < MaxEdits /\ edits' = edits + 1 /\ ~desktop.broken
  /\ desktop' = [desktop EXCEPT !.version = NewVersion]
  /\ settled' = IF \E i \in Installs : AtDesktop(i) THEN settled
                ELSE [settled EXCEPT !.desktop = NewVersion]
  /\ Raced
  /\ UNCHANGED <<hookVars, code, temp, together, starts, kills>>

EditCode ==
  /\ edits < MaxEdits /\ edits' = edits + 1
  /\ \E s \in {{}, {"older"}, {"ours"}} :
       code' = [code EXCEPT !.version = NewVersion, !.servers = (@ \ {"older", "ours"}) \cup s]
  /\ Raced
  /\ UNCHANGED <<hookVars, desktop, temp, settled, together, starts, kills>>

(* The app dies; the file it was writing may be left empty. *)
Kill ==
  /\ kills < MaxKills /\ kills' = kills + 1
  /\ hooking' = NoHook /\ install' = [i \in Installs |-> AtRest]
  /\ UNCHANGED <<rc, backup, desktop, code, temp, settled, together, starts, edits>>

Next ==
  \/ ReadRc \/ BackUpRc \/ CutRc \/ WriteRc \/ HookFails
  \/ \E i \in Installs :
       \/ Install(i) \/ LeaveAlone(i) \/ DesktopHasIt(i) \/ StageDesktop(i)
       \/ WriteTemp(i) \/ RenameDesktop(i) \/ WriteFails(i)
       \/ LookAtCode(i) \/ RemoveLegacy(i) \/ RemoveOlder(i) \/ Add(i) \/ ClaudeFails(i)
  \/ EditRc \/ EditDesktop \/ EditCode \/ Kill

Spec == Init /\ [][Next]_fileVars
------------------------------------------------------------------------------
(* Whatever moment the app is killed at or fails, and however often it     *)
(* tries again, the rc file or a backup of it has all of the text that was *)
(* written while no hook was being added, or newer.  That is all the code  *)
(* ensures: text written between its read and its write is gone, without a *)
(* backup (path_setup.rs:80-126), so nothing is said of it.                *)
TextKept ==
  settled.rc # 0 =>
    (rc.whole /\ rc.version >= settled.rc) \/ \E v \in backup : v >= settled.rc

(* And the desktop app's config is never cut short and never loses what    *)
(* its owner wrote while no install was between its read of it and its     *)
(* rename: a kill while the temporary file is written is harmless.  What   *)
(* was written in between is gone (install.rs:194-213), and installs at    *)
(* once can leave the config cut, since one can rename what another has    *)
(* just emptied: nothing is said of either.                                *)
ConfigKept ==
  ~together => desktop.version >= settled.desktop /\ "other" \in desktop.servers

(* What an install says it added, or found there, is there, once: under an *)
(* old name too, Claude would see the server twice.  Unless somebody else  *)
(* wrote the config, or installed, while it ran.                           *)
AddedIsThere ==
  \A i \in Installs :
    Stands(i, "idle") /\ ~install[i].raced =>
      /\ install[i].desktop \in {"Added", "AlreadyThere"} => HasServer(desktop)
      /\ install[i].code \in {"Added", "AlreadyThere"} =>
           code.servers = {"other", "ours"}
===============================================================================
