--------------------------------- MODULE MCApp ---------------------------------
(***************************************************************************)
(* For TLC, six parts of the Mac app: asking for usage (UsageRefresh), the *)
(* tools Claude has (Tools), opening a host's session in an app            *)
(* (OpenLink), the files of others that it changes (AppFiles), and the two *)
(* parts of a move that a host's server has too: carrying a session's      *)
(* items over (ItemMove) and merging memory (MemoryMerge).  They share     *)
(* nothing that these models keep, so each is explored by itself: a        *)
(* behaviour is one part's, and the others' variables stay as they are.    *)
(***************************************************************************)
EXTENDS UsageRefresh, TLC

CONSTANTS
  Pair, Twin, One, Default, Items, Folders, PlanFiles, Transcript, MaxStops,
  MaxStarts, MaxEdits, FileKills, MaxTurns, MaxWindows, MaxTools, MaxMeanwhile,
  MaxFacts, MaxCuts, None, Off

VARIABLES
  part,
  sess, windows, nextWindow, archives, signedIn, notes, destNewer, tool, typed,
  replaced, used, changes,
  cli, app, icon, process, link, got, turns,
  rc, saved, hooking, desktop, code, temp, install, settled, together, starts, writes,
  kills,
  program, src, dst, backup, archive, act, left, place, after, itemKills,
  note, index, base, from, to, toMerge, mergeStep, plan, at, result, touched, chosen,
  forgotten, missed, edits, cuts

toolVars   == <<sess, windows, nextWindow, archives, signedIn, notes, destNewer,
                tool, typed, replaced, used, changes>>
linkVars   == <<cli, app, icon, process, link, got, turns>>
fileVars   == <<rc, saved, hooking, desktop, code, temp, install, settled, together,
                starts, writes, kills>>
itemVars   == <<program, src, dst, backup, archive, act, left, place, after, itemKills>>
memoryVars == <<note, index, base, from, to, toMerge, mergeStep, plan, at, result,
                touched, chosen, forgotten, missed, edits, cuts>>
allVars    == <<part, vars, toolVars, linkVars, fileVars, itemVars, memoryVars>>

Claude == INSTANCE Tools WITH
  Hosted <- Pair, Local <- Twin, Sessions <- One, Titles <- One, Notes <- One,
  MaxCalls <- MaxTools, MaxChanges <- MaxMeanwhile, call <- tool, calls <- used

(* The lack of one is no kind of call. *)
ASSUME KindsAssumption == None \notin Claude!Kinds

ASSUME ToolsAssumption == MaxWindows \in Nat /\ MaxTools \in Nat /\ MaxMeanwhile \in Nat

Opening == INSTANCE OpenLink WITH
  Managed <- Pair, Accounts <- Twin, desktop <- app

ASSUME TurnsAssumption == MaxTurns \in Nat

Files == INSTANCE AppFiles WITH
  Installs <- Pair, MaxKills <- FileKills, backup <- saved, edits <- writes

ASSUME FilesAssumption == MaxStarts \in Nat /\ MaxEdits \in Nat /\ FileKills \in Nat

Carrying == INSTANCE ItemMove WITH
  Plans <- PlanFiles, MaxKills <- MaxStops, pc <- place, kills <- itemKills

ASSUME CarryingAssumption == Carrying!ItemsAssumption /\ Carrying!KillsAssumption

Merging == INSTANCE MemoryMerge WITH
  Accounts <- Pair, Notes <- One, Facts <- Twin, MaxChanges <- MaxFacts,
  MaxKills <- MaxCuts, src <- from, dst <- to, left <- toMerge, pc <- mergeStep,
  changes <- edits, kills <- cuts

ASSUME FactsAssumption == MaxFacts \in Nat /\ MaxCuts \in Nat

(* Between two accounts: with a third, what is common to two of them is    *)
(* not common to all.                                                      *)
ASSUME MergingAssumption ==
  /\ \A a, b, c \in Pair : a = b \/ b = c \/ a = c
  /\ "absent" \notin Twin \cup One /\ Merging!Index \notin One

NoTools ==
  /\ sess = Off /\ windows = Off /\ nextWindow = Off /\ archives = Off
  /\ signedIn = Off /\ notes = Off /\ destNewer = Off /\ tool = Off /\ typed = Off
  /\ replaced = Off /\ used = Off /\ changes = Off

NoLinks ==
  /\ cli = Off /\ app = Off /\ icon = Off /\ process = Off /\ link = Off
  /\ got = Off /\ turns = Off

NoFiles ==
  /\ rc = Off /\ saved = Off /\ hooking = Off /\ desktop = Off /\ code = Off
  /\ temp = Off /\ install = Off /\ settled = Off /\ together = Off
  /\ starts = Off /\ writes = Off /\ kills = Off

NoItems ==
  /\ program = Off /\ src = Off /\ dst = Off /\ backup = Off /\ archive = Off
  /\ act = Off /\ left = Off /\ place = Off /\ after = Off /\ itemKills = Off

NoMemory ==
  /\ note = Off /\ index = Off /\ base = Off /\ from = Off /\ to = Off
  /\ toMerge = Off /\ mergeStep = Off /\ plan = Off /\ at = Off /\ result = Off
  /\ touched = Off /\ chosen = Off /\ forgotten = Off /\ missed = Off
  /\ edits = Off /\ cuts = Off

AtUsage == part = "usage"
AtTools == part = "tools"
AtLinks == part = "links"
AtFiles == part = "files"
Carries == part = "carrying"
Merges  == part = "merging"

AppInit ==
  /\ Init
  /\ \/ AtUsage /\ NoTools /\ NoLinks /\ NoFiles /\ NoItems /\ NoMemory
     \/ AtTools /\ Claude!Init /\ NoLinks /\ NoFiles /\ NoItems /\ NoMemory
     \/ AtLinks /\ Opening!Init /\ NoTools /\ NoFiles /\ NoItems /\ NoMemory
     \/ AtFiles /\ Files!Init /\ NoTools /\ NoLinks /\ NoItems /\ NoMemory
     \/ Carries /\ Carrying!Init /\ NoTools /\ NoLinks /\ NoFiles /\ NoMemory
     \/ Merges /\ Merging!Init /\ NoTools /\ NoLinks /\ NoFiles /\ NoItems

AppNext ==
  /\ UNCHANGED part
  /\ \/ AtUsage /\ Next /\ UNCHANGED <<toolVars, linkVars, fileVars, itemVars, memoryVars>>
     \/ AtTools /\ Claude!Next /\ UNCHANGED <<vars, linkVars, fileVars, itemVars, memoryVars>>
     \/ AtLinks /\ Opening!Next /\ UNCHANGED <<vars, toolVars, fileVars, itemVars, memoryVars>>
     \/ AtFiles /\ Files!Next /\ UNCHANGED <<vars, toolVars, linkVars, itemVars, memoryVars>>
     \/ Carries /\ Carrying!Next /\ UNCHANGED <<vars, toolVars, linkVars, fileVars, memoryVars>>
     \/ Merges /\ Merging!Next /\ UNCHANGED <<vars, toolVars, linkVars, fileVars, itemVars>>

(* Calls for usage run on, as UsageRefresh says. *)
AppSpec ==
  /\ AppInit /\ [][AppNext]_allVars
  /\ \A c \in Caller : WF_vars(AtUsage /\ Step(c))

(* Accounts, profiles, installs, apps, facts: one is as good as another.   *)
(* None of them is in the part that has the liveness property.             *)
Interchangeable == Permutations(Pair) \cup Permutations(Twin)
------------------------------------------------------------------------------
(* The parts' properties, in the behaviours of each; the ones about usage  *)
(* are UsageRefresh's own.                                                 *)

(* Every part's variables have their types. *)
TypesOK == /\ AtUsage => TypeOK
           /\ AtTools => Claude!TypeOK
           /\ AtLinks => Opening!TypeOK
           /\ AtFiles => Files!TypeOK
           /\ Carries => Carrying!TypeOK
           /\ Merges => Merging!TypeOK

(* Keys go to the session a call names, and a move does with notes what    *)
(* the call says (Tools).                                                  *)
DoneAsTold == AtTools => Claude!KeysFindTheirWindow /\ Claude!MovesAsDecided

(* A link opens in the app it was meant for, or is turned down (OpenLink). *)
LinkGoesRight == AtLinks => Opening!LinkGoesRight

(* What others wrote in the files the app changes, while it wasn't at      *)
(* them, outlives kills and failures at any step; and what an install says *)
(* it added is there (AppFiles).                                           *)
FilesKept == AtFiles => Files!TextKept /\ Files!ConfigKept /\ Files!AddedIsThere

(* A move keeps what MovePromise promises (ItemMove). *)
KeepsPromise == /\ Carries => Carrying!Promise!Init
                /\ [][Carries => Carrying!Keeps]_itemVars

(* A merge takes no fact from a note that nobody took out, but for one     *)
(* that is written while it runs (MemoryMerge).                            *)
FactsKept == [][Merges => Merging!KeepsFacts]_memoryVars
===============================================================================
