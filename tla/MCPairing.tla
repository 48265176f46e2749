------------------------------ MODULE MCPairing -------------------------------
(***************************************************************************)
(* For TLC, five parts of how a Mac and a host work together: the codes    *)
(* and clients on the host (PairingStore), what a request passes at its    *)
(* door (Door), the commands that set the host up (Setup), the host's      *)
(* entry on the Mac (RemoteHosts), and what the host says its sessions are *)
(* called (SessionNames).  They share nothing that these models keep: a    *)
(* behaviour is one part's, and the others' variables stay as they are.    *)
(***************************************************************************)
EXTENDS PairingStore, TLC

CONSTANTS Tasks, Addresses, Accounts, Looks, Lone, Me, Other, None, Off,
          PerPeer, Overall, MaxBad, Window, LockedFor, MaxTicks,
          MaxIds, MaxClients, MaxCalls, MaxKeys, MaxCommands, MaxWrites

VARIABLES
  part,
  kind, conn, now, perPeer, overall, failures, locked, tried, guessed, shut,
  entry, keychain, cache, task, held, granted, there, given, crossed, overwritten,
  removing, paired, calls,
  units, states, configs, procs, pins, accepted, spoiled, keys, started, cuts,
  lines, open, version, claude, window, prompt, seen, lists, rename, nameLock, named,
  merged

doorVars  == <<kind, conn, now, perPeer, overall, failures, locked, tried, guessed, shut>>
macVars   == <<entry, keychain, cache, task, held, granted, there, given, crossed,
               overwritten, removing, paired, calls>>
setupVars == <<units, states, configs, procs, pins, accepted, spoiled, keys,
               started, cuts>>
nameVars  == <<lines, open, version, claude, window, prompt, seen, lists, rename,
               nameLock, named, merged>>
allVars   == <<part, vars, doorVars, macVars, setupVars, nameVars>>

HostDoor == INSTANCE Door WITH Peers <- Tasks, Conns <- Addresses

Mac == INSTANCE RemoteHosts WITH clients <- paired

Host == INSTANCE Setup WITH
  Commands <- Lone, Server <- NoProcess, Macs <- Tasks, Builtin <- Looks, Lans <- Addresses,
  kills <- cuts

Naming == INSTANCE SessionNames WITH
  Lists <- Tasks, Rename <- Me, Names <- Lone, Suffixed <- Other,
  cache <- seen, lock <- nameLock

NoDoor ==
  /\ kind = Off /\ conn = Off /\ now = Off /\ perPeer = Off /\ overall = Off /\ failures = Off
  /\ locked = Off /\ tried = Off /\ guessed = Off /\ shut = Off

NoMac ==
  /\ entry = Off /\ keychain = Off /\ cache = Off /\ task = Off /\ held = Off
  /\ granted = Off /\ there = Off /\ given = Off /\ crossed = Off /\ overwritten = Off
  /\ removing = Off
  /\ paired = Off /\ calls = Off

NoSetup ==
  /\ units = Off /\ states = Off /\ configs = Off /\ procs = Off /\ pins = Off
  /\ accepted = Off /\ spoiled = Off /\ keys = Off /\ started = Off /\ cuts = Off

NoNames ==
  /\ lines = Off /\ open = Off /\ version = Off /\ claude = Off /\ window = Off
  /\ prompt = Off /\ seen = Off /\ lists = Off /\ rename = Off /\ nameLock = Off
  /\ named = Off /\ merged = Off

AtStore == part = "store"
AtDoor  == part = "door"
OnMac   == part = "mac"
AtSetup == part = "setup"
Called  == part = "names"

AllInit ==
  /\ Init
  /\ \/ AtStore /\ NoDoor /\ NoMac /\ NoSetup /\ NoNames
     \/ AtDoor /\ HostDoor!Init /\ NoMac /\ NoSetup /\ NoNames
     \/ OnMac /\ Mac!Init /\ NoDoor /\ NoSetup /\ NoNames
     \/ AtSetup /\ Host!Init /\ NoDoor /\ NoMac /\ NoNames
     \/ Called /\ Naming!Init /\ NoDoor /\ NoMac /\ NoSetup

AllNext ==
  /\ UNCHANGED part
  /\ \/ AtStore /\ Next /\ UNCHANGED <<doorVars, macVars, setupVars, nameVars>>
     \/ AtDoor /\ HostDoor!Next /\ UNCHANGED <<vars, macVars, setupVars, nameVars>>
     \/ OnMac /\ Mac!Next /\ UNCHANGED <<vars, doorVars, setupVars, nameVars>>
     \/ AtSetup /\ Host!Next /\ UNCHANGED <<vars, doorVars, macVars, nameVars>>
     \/ Called /\ Naming!Next /\ UNCHANGED <<vars, doorVars, macVars, setupVars>>

AllSpec == AllInit /\ [][AllNext]_allVars

(* No folder and no config is None. *)
ASSUME NoneAssumption == None \notin Host!Folder /\ None \notin Host!Config

(* The door's limits are as it asks. *)
ASSUME DoorAssumption == HostDoor!LimitsAssumption

(* A Mac may be paired from the start, which takes an entry, a client and   *)
(* a key.                                                                  *)
ASSUME BoundsAssumption ==
  /\ MaxIds \in Nat \ {0} /\ MaxClients \in Nat \ {0} /\ MaxKeys \in Nat \ {0}
  /\ MaxCalls \in Nat /\ MaxCommands \in Nat /\ MaxWrites \in Nat

(* The service isn't a command. *)
ASSUME LoneAssumption == NoProcess \notin Lone

(* Threads of the server, commands on the Mac, peers, and lists; and       *)
(* addresses, connections and networks: one is as good as another.         *)
Interchangeable == Permutations(Tasks) \cup Permutations(Addresses)
------------------------------------------------------------------------------
(* The parts' properties, in the behaviours of each. *)

(* Every part's variables have their types. *)
TypesOK == /\ AtStore => TypeOK
           /\ AtDoor => HostDoor!TypeOK
           /\ OnMac => Mac!TypeOK
           /\ AtSetup => Host!TypeOK
           /\ Called => Naming!TypeOK

(* Limits hold however guesses are spread, and nobody is locked out or     *)
(* refused for what another peer did (Door).                               *)
LimitsHold == AtDoor => HostDoor!GuessesBounded /\ HostDoor!LockDeserved

(* What changes the host is done once at most (RemoteHosts). *)
NotDoneTwice == OnMac => Mac!NotDoneTwice

(* A listed host has its token, and the looks the user gave it last        *)
(* (RemoteHosts).                                                          *)
EntriesHold == OnMac => Mac!TokenBelongs /\ Mac!LooksFollow

(* Setting up again, or with another build, keeps the key a Mac pinned and *)
(* the networks the user accepted (Setup).                                 *)
SetupHolds == AtSetup => Host!PinsHeld /\ Host!AcceptedHeld

(* The name given last is written down, and lists show the transcript as   *)
(* it is (SessionNames).                                                   *)
NamesHold == Called => Naming!NameWritten /\ Naming!ListCurrent
===============================================================================
