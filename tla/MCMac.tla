-------------------------------- MODULE MCMac ---------------------------------
(***************************************************************************)
(* For TLC, four parts of the Mac app: its profiles (Profiles), opening    *)
(* one (Launch), what its commands do with a session (MacSessions), and    *)
(* the lists it shows of them (SessionLists).  They share nothing that     *)
(* these models keep: a behaviour is one part's, and the others' variables *)
(* stay as they are.                                                       *)
(***************************************************************************)
EXTENDS MCProfiles

CONSTANTS
  Pair,       \* the profiles of the sessions, and of the lists
  Shelves,    \* the archives a profile can have of a session
  One,        \* the command that is at work on a session
  Dock, StockHome, Off,
  AppearLooks, LaunchLooks, SteadyLooks, SettleLooks, MaxOpens, MaxVendor,
  MaxSaid, MaxAsked, MaxCopies

ASSUME OpenersAssumption  == Dock \notin Commands
ASSUME OneAssumption      == \A e, f \in One : e = f
ASSUME StockAssumption    == StockHome \notin Pair

(* launch.rs's looks are 50, 600, 15 and 200. *)
ASSUME LooksAssumption ==
  /\ {AppearLooks, LaunchLooks, SteadyLooks, SettleLooks} \subseteq Nat \ {0}
  /\ AppearLooks <= LaunchLooks /\ SettleLooks <= LaunchLooks

ASSUME BoundsAssumption ==
  /\ MaxVendor \in Nat \ {0} /\ MaxSaid \in Nat \ {0}
  /\ MaxOpens \in Nat /\ MaxAsked \in Nat /\ MaxCopies \in Nat

VARIABLES
  part,
  icon, vendor, wrapper, openers, shims, wrapped, vendorStock, coming, opens,
  clicks, handoffs, beside, crossed,
  live, arch, rec, app, mem, term, cmd, said, asked, safe, dropped, resumed, apart,
  copies, records, made

launchVars  == <<icon, vendor, wrapper, openers, shims, wrapped, vendorStock, coming,
                 opens, clicks, handoffs, beside, crossed>>
sessionVars == <<live, arch, rec, app, mem, term, cmd, said, asked,
                 safe, dropped, resumed, apart>>
listVars    == <<copies, records, made>>
allVars == <<part, vars, launchVars, sessionVars, listVars>>

Opening == INSTANCE Launch WITH
  Openers <- Commands, stock <- vendorStock

OnSessions == INSTANCE MacSessions WITH
  Profiles <- Pair, Stamps <- Shelves, Commands <- One

Shown == INSTANCE SessionLists WITH Stock <- StockHome, Managed <- Pair

NoOpening ==
  /\ icon = Off /\ vendor = Off /\ wrapper = Off /\ openers = Off /\ shims = Off
  /\ wrapped = Off /\ vendorStock = Off /\ coming = Off /\ opens = Off
  /\ clicks = Off /\ handoffs = Off /\ beside = Off /\ crossed = Off

NoSessions ==
  /\ live = Off /\ arch = Off /\ rec = Off /\ app = Off /\ mem = Off /\ term = Off
  /\ cmd = Off /\ said = Off /\ asked = Off /\ safe = Off /\ dropped = Off
  /\ resumed = Off /\ apart = Off

NoLists == copies = Off /\ records = Off /\ made = Off

Listing  == part = "profiles"
Opens    == part = "opening"
Sessions == part = "sessions"
Lists    == part = "lists"

MacInit ==
  /\ Init
  /\ \/ Listing /\ NoOpening /\ NoSessions /\ NoLists
     \/ Opens /\ Opening!Init /\ NoSessions /\ NoLists
     \/ Sessions /\ OnSessions!Init /\ NoOpening /\ NoLists
     \/ Lists /\ Shown!Init /\ NoOpening /\ NoSessions

MacNext ==
  /\ UNCHANGED part
  /\ \/ /\ Listing /\ Next
        /\ UNCHANGED <<launchVars, sessionVars, listVars>>
     \/ /\ Opens /\ Opening!Next
        /\ UNCHANGED <<vars, sessionVars, listVars>>
     \/ /\ Sessions /\ OnSessions!Next
        /\ UNCHANGED <<vars, launchVars, listVars>>
     \/ /\ Lists /\ Shown!Next
        /\ UNCHANGED <<vars, launchVars, sessionVars>>

MacSpec == MacInit /\ [][MacNext]_allVars
------------------------------------------------------------------------------
(* The parts' properties, in the behaviours of each. *)

(* Every part's variables have their types. *)
TypesOK == /\ Listing => TypeOK
           /\ Opens => Opening!TypeOK
           /\ Sessions => OnSessions!TypeOK
           /\ Lists => Shown!TypeOK

(* No open whose look still holds leaves two instances on one data         *)
(* directory, and no wrapper that it started asks for another (Launch).    *)
OneAtATime == Opens => Opening!OneAtATime /\ Opening!AsksOnce

(* A command that nobody goes on with the session under never loses the    *)
(* latest of it (MacSessions).                                             *)
LatestKept == Sessions => OnSessions!LatestKept

(* Between commands no app lists a session without a transcript            *)
(* (MacSessions).                                                          *)
HalvesTogether == Sessions => OnSessions!HalvesTogether

(* No session gets lost between the lists of two homes (SessionLists).     *)
ListsAgree == Lists => Shown!ListsAgree
===============================================================================
