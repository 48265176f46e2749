-------------------------------- MODULE MCHost --------------------------------
(***************************************************************************)
(* Parts of a host for TLC: the requests on sessions, moves between        *)
(* accounts among them (AccountSessions), archives and their compression   *)
(* (ServerArchive), and accounts with their sign-ins (HostAccounts).  They *)
(* share nothing that these models keep, so each is explored by itself: a  *)
(* behaviour is one part's, and the others' variables stay as they are.    *)
(***************************************************************************)
EXTENDS MCAccountSessions

CONSTANTS
  Requesters, Sweeper, Stamps, MaxSaid, ArchiveKills,
  AccountNames, MaxMade, MaxLogins, MaxOps, Off

ASSUME ArchivesAssumption ==
  /\ Sweeper \notin Requesters /\ "nobody" \notin Requesters
  /\ "live" \notin Stamps /\ "nowhere" \notin Stamps
  /\ MaxSaid \in Nat \ {0} /\ ArchiveKills \in Nat

ASSUME NamesAssumption ==
  /\ "nowhere" \notin AccountNames /\ "nobody" \notin Worker
  /\ MaxMade \in Nat \ {0} /\ MaxLogins \in Nat /\ MaxOps \in Nat

VARIABLES
  part,
  archFile, archJob, archHolder, archTodo, archSaid, archUsed, archDropped,
  archTwice, archKills,
  folder, trash, signedIn, setUp, session, waiting, login, nameHolder, req,
  filled, missed, made, started, ops

archiveVars == <<archFile, archJob, archHolder, archTodo, archSaid, archUsed,
                 archDropped, archTwice, archKills>>
accountVars == <<folder, trash, signedIn, setUp, session, waiting, login, nameHolder,
                 req, filled, missed, made, started, ops>>
allVars == <<part, vars, archiveVars, accountVars>>

Archives == INSTANCE ServerArchive WITH
  Requests <- Requesters, Workers <- Requesters \cup {Sweeper}, MaxKills <- ArchiveKills,
  file <- archFile, job <- archJob, holder <- archHolder, todo <- archTodo,
  said <- archSaid, used <- archUsed, dropped <- archDropped, twice <- archTwice,
  kills <- archKills

Accounts == INSTANCE HostAccounts WITH
  Names <- AccountNames, Requests <- Worker, holder <- nameHolder

NoArchives ==
  /\ archFile = Off /\ archJob = Off /\ archHolder = Off /\ archTodo = Off
  /\ archSaid = Off /\ archUsed = Off /\ archDropped = Off /\ archTwice = Off
  /\ archKills = Off

NoAccounts ==
  /\ folder = Off /\ trash = Off /\ signedIn = Off /\ setUp = Off /\ session = Off
  /\ waiting = Off /\ missed = Off /\ login = Off /\ nameHolder = Off /\ req = Off /\ filled = Off
  /\ made = Off /\ started = Off /\ ops = Off

Sessions == part = "sessions"
Archived == part = "archives"
Named    == part = "accounts"

HostInit ==
  /\ Init
  /\ \/ Sessions /\ NoArchives /\ NoAccounts
     \/ Archived /\ Archives!Init /\ NoAccounts
     \/ Named /\ Accounts!Init /\ NoArchives

HostNext ==
  /\ UNCHANGED part
  /\ \/ Sessions /\ Next /\ UNCHANGED <<archiveVars, accountVars>>
     \/ Archived /\ Archives!Next /\ UNCHANGED <<vars, accountVars>>
     \/ Named /\ Accounts!Next /\ UNCHANGED <<vars, archiveVars>>

HostSpec == HostInit /\ [][HostNext]_allVars

(* Workers do a request each; a window, an archive and an account's name   *)
(* are as good as the next one.                                            *)
HostInterchangeable == Permutations(Worker) \cup Permutations(Window)
------------------------------------------------------------------------------
(* The parts' properties, in the behaviours of each. *)

(* Every part's variables have their types. *)
TypesOK == /\ Sessions => TypeOK
           /\ Archived => Archives!TypeOK
           /\ Named => Accounts!TypeOK

(* The latest version of a conversation is whole somewhere, whatever was   *)
(* archived, restored and compressed beside each other (ServerArchive).    *)
NeverLost == Archived => Archives!NeverLost

(* No request puts an older version over a live transcript.                *)
LiveNotRolledBack == [][Archived => Archives!LiveStep]_archiveVars

(* Accounts that Claude wrote to stay, in one place each (HostAccounts).   *)
AccountsKept == Named => Accounts!AccountsKept

(* No running session's folder is taken from under it.                     *)
SessionsAtHome == Named => Accounts!SessionsAtHome
===============================================================================
