------------------------------- MODULE Setup -------------------------------
(***************************************************************************)
(* The server's commands on its host (main.rs): `serve`, run by a systemd  *)
(* user service (service.rs), `pair`, `doctor` and `fingerprint`,          *)
(* `clients`, `install-service`, and `setup`, which asks its way through   *)
(* the settings, the service and a pairing code (setup.rs).  Each is a     *)
(* process of its own, and can be killed at any step.  They share the      *)
(* config and the state folder (config.rs), which had another name before  *)
(* the app was renamed, and in the state folder the TLS identity Macs pin  *)
(* (certs.rs).                                                             *)
(*                                                                         *)
(* A key stands for a key pair and its certificate's fingerprint.  Codes,  *)
(* their secrets and their expiry are PairingStore's; the checks for tmux, *)
(* Claude Code and profiles, which only wait or print, are left out.       *)
(***************************************************************************)
EXTENDS Naturals, FiniteSets

CONSTANTS
    Commands,       \* processes started on a terminal
    Server,         \* the service's process
    Macs,           \* Macs that may pair
    Builtin,        \* Tailscale's networks, and the host's WireGuard ones
    Lans,           \* its local networks
    None,
    MaxKeys,        \* bound: identities made
    MaxCommands,    \* bound: commands started
    MaxKills        \* bound: processes killed, steps of systemctl that fail

VARIABLES
    units,      \* the service under its old and its new name
    states,     \* the state folder under each name
    configs,    \* the config folder under each name
    procs,      \* where each process stands
    pins,       \* the key each Mac pinned, 0 for none
    accepted,   \* history: networks the user accepted
    spoiled,    \* history: what happened that the code doesn't survive
    keys, started, kills

vars == <<units, states, configs, procs, pins, accepted, spoiled, keys,
          started, kills>>
bounds == <<keys, started, kills>>

Processes == Commands \cup {Server}
Kinds == {"serve", "pair", "look", "list", "install", "setup"}

\* A certificate file that was emptied to be written.
Emptied == MaxKeys + 1

\* `codes` are the keys that codes handed out name.
Folder == [key : 0..MaxKeys, cert : 0..Emptied, staged : 0..MaxKeys,
           clients : SUBSET Macs, codes : SUBSET (1..MaxKeys)]
NewFolder == [key |-> 0, cert |-> 0, staged |-> 0, clients |-> {}, codes |-> {}]

\* config.toml: `include_default`, and `allow_from`, empty when not set.
Config == [default : BOOLEAN, allow : SUBSET (Builtin \cup Lans)]
NewConfig == [default |-> FALSE, allow |-> {}]

Idle == [kind |-> "none", at |-> "idle", key |-> 0, allow |-> {}, asked |-> {}]
Making == {"stage", "key", "empty", "cert"}

TypeOK ==
    /\ units.old \in {"none", "off", "on", "orphan"} /\ units.new \in {"none", "off", "on"}
    /\ \A n \in {"old", "new"} : /\ states[n] # None => states[n] \in Folder
                                 /\ configs[n] # None => configs[n] \in Config
    /\ \A p \in Processes : /\ procs[p].kind \in Kinds \cup {"none"}
                            /\ procs[p].key \in 0..MaxKeys
                            /\ procs[p].allow \subseteq Builtin \cup Lans
    /\ pins \in [Macs -> 0..MaxKeys]
    /\ accepted \subseteq Lans
    /\ spoiled \subseteq {"early", "race", "torn"}
    /\ keys \in 0..MaxKeys /\ started \in 0..MaxCommands /\ kills \in 0..MaxKills

---------------------------------------------------------------------------
(* Helpers                                                                 *)

\* legacy_active; a unit's file may be gone while its server runs on.
OldRuns == units.old \in {"on", "orphan"}

\* Config::load and from_toml_with: a list that is set is all there is.
Settings == IF configs.new = None THEN NewConfig ELSE configs.new
Allowed(config) == IF config.allow = {} THEN Builtin ELSE config.allow

Goto(p, at) == procs' = [procs EXCEPT ![p].at = at]
Ends(p) == procs' = [procs EXCEPT ![p] = Idle]

\* A kill between a certificate's emptying and its writing.
Torn(p) == IF procs[p].at = "cert" THEN {"torn"} ELSE {}

Kill == kills < MaxKills /\ kills' = kills + 1

---------------------------------------------------------------------------
(* Every command: main.rs's run                                            *)

Start(p, kind) ==
    /\ procs[p].at = "idle"
    /\ procs' = [procs EXCEPT ![p] = [Idle EXCEPT !.kind = kind,
         !.at = IF kind \in {"install", "setup"} THEN "retire" ELSE "check"]]

CommandRuns(p) ==
    /\ p \in Commands
    /\ \E kind \in Kinds \ {"serve"} : Start(p, kind)
    /\ started < MaxCommands /\ started' = started + 1
    /\ UNCHANGED <<units, states, configs, pins, accepted, spoiled, keys, kills>>

\* The service, started, and started again when it fails.
Serve ==
    /\ units.new = "on"
    /\ Start(Server, "serve")
    /\ UNCHANGED <<units, states, configs, pins, accepted, spoiled, bounds>>

\* retire_legacy: the old service is stopped, and its file removed whether
\* or not it did.
StopOld(p) ==
    /\ procs[p].at = "retire"
    /\ \/ /\ units.old \in {"none", "orphan"}
          /\ Goto(p, "check")
          /\ UNCHANGED <<units, kills>>
       \/ /\ units.old \in {"on", "off"}
          /\ units' = [units EXCEPT !.old = "off"]
          /\ Goto(p, "remove")
          /\ UNCHANGED kills
       \/ /\ units.old = "on" /\ Kill
          /\ Goto(p, "remove")
          /\ UNCHANGED units
    /\ UNCHANGED <<states, configs, pins, accepted, spoiled, keys, started>>

RemoveOld(p) ==
    /\ procs[p].at = "remove"
    /\ units' = [units EXCEPT !.old = IF OldRuns THEN "orphan" ELSE "none"]
    /\ Goto(p, "check")
    /\ UNCHANGED <<states, configs, pins, accepted, spoiled, bounds>>

Check(p) ==
    /\ procs[p].at = "check"
    /\ Goto(p, IF OldRuns THEN "load" ELSE "adopt config")
    /\ UNCHANGED <<units, states, configs, pins, accepted, spoiled, bounds>>

\* A folder under its old name is renamed, if none has the new one.
Adopted(folders) ==
    IF folders.new = None THEN [old |-> None, new |-> folders.old] ELSE folders

Adopt(p) ==
    /\ \/ /\ procs[p].at = "adopt config"
          /\ configs' = Adopted(configs)
          /\ Goto(p, "adopt state")
          /\ UNCHANGED states
       \/ /\ procs[p].at = "adopt state"
          /\ states' = Adopted(states)
          /\ Goto(p, "load")
          /\ UNCHANGED configs
    /\ UNCHANGED <<units, pins, accepted, spoiled, bounds>>

Load(p) ==
    /\ procs[p].at = "load"
    /\ procs' = [procs EXCEPT ![p].allow = Allowed(Settings),
         ![p].at = CASE procs[p].kind = "install" -> "unit"
                     [] procs[p].kind = "setup"   -> "default"
                     [] OTHER                     -> "ensure"]
    /\ UNCHANGED <<units, states, configs, pins, accepted, spoiled, bounds>>

---------------------------------------------------------------------------
(* The identity: certs.rs                                                  *)

\* ensure_state_dir; setup asks then whether to pair.
Ensure(p) ==
    /\ procs[p].at = "ensure"
    /\ IF states.new = None
       THEN /\ states' = [states EXCEPT !.new = NewFolder]
            /\ spoiled' = spoiled \cup IF states.old # None THEN {"early"} ELSE {}
       ELSE UNCHANGED <<states, spoiled>>
    /\ \/ procs[p].kind # "list" /\ Goto(p, "identity")
       \/ procs[p].kind \in {"list", "setup"} /\ Ends(p)
    /\ UNCHANGED <<units, configs, pins, accepted, bounds>>

\* load_or_create
LookForIdentity(p) ==
    /\ procs[p].at = "identity"
    /\ IF states.new.key # 0 /\ states.new.cert # 0
       THEN Goto(p, "read") /\ UNCHANGED spoiled
       ELSE /\ Goto(p, "stage")
            /\ spoiled' = spoiled \cup
                 IF \E q \in Processes : procs[q].at \in Making THEN {"race"} ELSE {}
    /\ UNCHANGED <<units, states, configs, pins, accepted, bounds>>

\* The key goes in place whole; the certificate is written where it stays.
Stage(p) ==
    /\ procs[p].at = "stage"
    /\ keys < MaxKeys /\ keys' = keys + 1
    /\ procs' = [procs EXCEPT ![p].key = keys', ![p].at = "key"]
    /\ states' = [states EXCEPT !.new.staged = keys']
    /\ UNCHANGED <<units, configs, pins, accepted, spoiled, started, kills>>

PutKey(p) ==
    /\ procs[p].at = "key"
    /\ IF states.new.staged = 0
       THEN Ends(p) /\ UNCHANGED states
       ELSE /\ states' = [states EXCEPT !.new.key = states.new.staged, !.new.staged = 0]
            /\ Goto(p, "empty")
    /\ UNCHANGED <<units, configs, pins, accepted, spoiled, bounds>>

WriteCert(p) ==
    /\ \/ /\ procs[p].at = "empty"
          /\ states' = [states EXCEPT !.new.cert = Emptied]
          /\ Goto(p, "cert")
       \/ /\ procs[p].at = "cert"
          /\ states' = [states EXCEPT !.new.cert = procs[p].key]
          /\ Goto(p, "read")
    /\ UNCHANGED <<units, configs, pins, accepted, spoiled, bounds>>

\* The server also needs the key to fit (rustls refuses it otherwise), and
\* the port to be free.
ReadIdentity(p) ==
    /\ procs[p].at = "read"
    /\ LET cert == states.new.cert
           serves == cert = states.new.key /\ ~OldRuns
       IN IF cert = Emptied \/ procs[p].kind = "look" \/ (p = Server /\ ~serves)
          THEN Ends(p)
          ELSE procs' = [procs EXCEPT ![p].key = cert,
                 ![p].at = IF p = Server THEN "up" ELSE "issue"]
    /\ UNCHANGED <<units, states, configs, pins, accepted, spoiled, bounds>>

---------------------------------------------------------------------------
(* Pairing, and the service                                                *)

\* pairing_code.rs: the code names the certificate.
Issue(p) ==
    /\ procs[p].at = "issue"
    /\ states' = [states EXCEPT !.new.codes = @ \cup {procs[p].key}]
    /\ IF procs[p].kind = "setup" THEN Goto(p, "wait") ELSE Ends(p)
    /\ UNCHANGED <<units, configs, pins, accepted, spoiled, bounds>>

\* setup waits until the Mac has paired or the code has expired.
Waited(p) ==
    /\ procs[p].at = "wait"
    /\ Ends(p)
    /\ UNCHANGED <<units, states, configs, pins, accepted, spoiled, bounds>>

\* A Mac pairs with the server whose certificate its code names.
Pair(m) ==
    /\ pins[m] = 0
    /\ procs[Server].at = "up" /\ procs[Server].key \in states.new.codes
    /\ pins' = [pins EXCEPT ![m] = procs[Server].key]
    /\ states' = [states EXCEPT !.new.clients = @ \cup {m}]
    /\ UNCHANGED <<units, configs, procs, accepted, spoiled, bounds>>

\* The old server writes where it was started; its key is the first.
PairWithOld(m) ==
    LET old == IF states.old = None THEN NewFolder ELSE states.old IN
    /\ pins[m] = 0 /\ OldRuns
    /\ pins' = [pins EXCEPT ![m] = 1]
    /\ states' = [states EXCEPT !.old = [old EXCEPT !.clients = old.clients \cup {m}]]
    /\ UNCHANGED <<units, configs, procs, accepted, spoiled, bounds>>

\* install: the unit is written, then started, and restarted if it ran.
WriteUnit(p) ==
    /\ procs[p].at = "unit"
    /\ units' = [units EXCEPT !.new = IF @ = "none" THEN "off" ELSE @]
    /\ \/ Goto(p, "start")
       \/ procs[p].kind = "install" /\ Ends(p)     \* --no-start
    /\ UNCHANGED <<states, configs, pins, accepted, spoiled, bounds>>

Restart(p) ==
    /\ procs[p].at = "start"
    /\ units' = [units EXCEPT !.new = "on"]
    /\ procs' = [procs EXCEPT ![Server] = Idle, ![p] =
         IF @.kind = "setup" THEN [@ EXCEPT !.at = "ensure"] ELSE Idle]
    /\ spoiled' = spoiled \cup Torn(Server)
    /\ UNCHANGED <<states, configs, pins, accepted, bounds>>

---------------------------------------------------------------------------
(* setup's questions                                                       *)

\* set_config: the file is read again, and only the one setting changes.
Set(config) ==
    /\ configs' = [configs EXCEPT !.new = config]
    /\ spoiled' = spoiled \cup
         IF configs.new = None /\ configs.old # None THEN {"early"} ELSE {}

AskDefault(p) ==
    /\ procs[p].at = "default"
    /\ \/ ~Settings.default /\ Set([Settings EXCEPT !.default = TRUE])
       \/ UNCHANGED <<configs, spoiled>>
    /\ Goto(p, "network")
    /\ UNCHANGED <<units, states, pins, accepted, bounds>>

\* The networks it asks about are those not accepted when it loads.
LoadNetworks(p) ==
    /\ procs[p].at = "network"
    /\ procs' = [procs EXCEPT ![p].at = "lans", ![p].allow = Allowed(Settings),
                              ![p].asked = Lans \ Allowed(Settings)]
    /\ UNCHANGED <<units, states, configs, pins, accepted, spoiled, bounds>>

\* Variant: each is added to the list that was loaded.
AskLanAfresh(p) ==
    /\ procs[p].at = "lans"
    /\ \E lan \in procs[p].asked :
         /\ procs' = [procs EXCEPT ![p].asked = @ \ {lan}]
         /\ \/ /\ Set([Settings EXCEPT !.allow = procs[p].allow \cup {lan}])
               /\ accepted' = accepted \cup {lan}
            \/ UNCHANGED <<configs, accepted, spoiled>>
    /\ UNCHANGED <<units, states, pins, bounds>>

\* Each one accepted is added to the list setup holds, and that is written.
AskLan(p) ==
    /\ procs[p].at = "lans"
    /\ \E lan \in procs[p].asked :
         \/ /\ procs' = [procs EXCEPT ![p].asked = @ \ {lan}, ![p].allow = @ \cup {lan}]
            /\ Set([Settings EXCEPT !.allow = procs[p].allow \cup {lan}])
            /\ accepted' = accepted \cup {lan}
         \/ /\ procs' = [procs EXCEPT ![p].asked = @ \ {lan}]
            /\ UNCHANGED <<configs, accepted, spoiled>>
    /\ UNCHANGED <<units, states, pins, bounds>>

AskService(p) ==
    /\ procs[p].at = "lans" /\ procs[p].asked = {}
    /\ \E at \in {"unit", "ensure"} : Goto(p, at)
    /\ UNCHANGED <<units, states, configs, pins, accepted, spoiled, bounds>>

---------------------------------------------------------------------------
\* Ctrl-C, a signal or a crash.
Killed(p) ==
    /\ procs[p].at # "idle" /\ Kill
    /\ Ends(p)
    /\ spoiled' = spoiled \cup Torn(p)
    /\ UNCHANGED <<units, states, configs, pins, accepted, keys, started>>

\* A host without the server, or with one under its old name, that one Mac
\* has paired with.
Init ==
    /\ procs = [p \in Processes |-> Idle]
    /\ spoiled = {} /\ started = 0 /\ kills = 0
    /\ \/ /\ units = [old |-> "none", new |-> "none"]
          /\ states = [old |-> None, new |-> None] /\ configs = states
          /\ pins = [m \in Macs |-> 0] /\ accepted = {} /\ keys = 0
       \/ /\ units = [old |-> "on", new |-> "none"]
          /\ \E m \in Macs :
               /\ states = [new |-> None, old |->
                    [NewFolder EXCEPT !.key = 1, !.cert = 1, !.clients = {m}]]
               /\ pins = [n \in Macs |-> IF n = m THEN 1 ELSE 0]
          /\ \E lans \in SUBSET Lans :
               /\ configs = [new |-> None, old |-> [default |-> TRUE, allow |->
                    IF lans = {} THEN {} ELSE Builtin \cup lans]]
               /\ accepted = lans
          /\ keys = 1

Step(p) ==
    \/ CommandRuns(p) \/ StopOld(p) \/ RemoveOld(p) \/ Check(p) \/ Adopt(p) \/ Load(p)
    \/ Ensure(p) \/ LookForIdentity(p) \/ Stage(p) \/ PutKey(p) \/ WriteCert(p)
    \/ ReadIdentity(p) \/ Issue(p) \/ Waited(p) \/ WriteUnit(p) \/ Restart(p)
    \/ AskDefault(p) \/ LoadNetworks(p) \/ AskLan(p) \/ AskService(p) \/ Killed(p)

Next ==
    \/ Serve
    \/ \E p \in Processes : Step(p)
    \/ \E m \in Macs : Pair(m) \/ PairWithOld(m)

Spec == Init /\ [][Next]_vars

---------------------------------------------------------------------------
(* Properties                                                              *)

Knows(m) == procs[Server].key = pins[m] /\ m \in states.new.clients

\* A Mac that paired, with this server or with the one under its old name,
\* finds its certificate and itself known whenever the server is up: however
\* commands follow each other and wherever they are killed.  Left out is what
\* the code does not survive: a command run before the old service is retired
\* makes the new folders, which the old ones then never take the place of
\* ("early": StaysPaired); two processes that make the identity at once mix
\* its halves ("race"); a kill leaves an empty certificate ("torn").
PinsHeld ==
    spoiled = {} /\ procs[Server].at = "up" =>
        \A m \in Macs : pins[m] # 0 => Knows(m)

\* What config.rs and the changelog say of a host that is switched over:
\* "certificate and paired clients included, so a Mac stays paired".
StaysPaired ==
    spoiled \subseteq {"early"} /\ procs[Server].at = "up" =>
        \A m \in Macs : pins[m] # 0 => Knows(m)

\* A network the user accepted stays accepted: whatever setup asks next, and
\* when the config moves to its new name.
AcceptedHeld ==
    spoiled = {} /\ configs.new # None => accepted \subseteq Allowed(configs.new)
============================================================================
