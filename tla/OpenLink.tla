------------------------------- MODULE OpenLink -------------------------------
(***************************************************************************)
(* Opening a host session's Remote Control conversation in a Claude app on *)
(* the Mac (remote/open_in_claude.rs), by `open -a <bundle> claude://...`. *)
(* An app is a profile's or the stock install's (Default), each with data  *)
(* of its own; several can run from the stock bundle, and then macOS hands *)
(* the link to any of them.  Who an app is signed in as is read from files *)
(* (accounts.rs): the CLI's, and for the stock install the app's.  An      *)
(* account stands for its email.                                           *)
(***************************************************************************)
EXTENDS Naturals, FiniteSets

CONSTANTS
  Managed,       \* the Claude profiles with a desktop app
  Default,       \* the stock install
  Accounts,
  None,
  MaxTurns       \* bound: sign-ins, sign-outs and turns of a Dock icon

Apps == Managed \cup {Default}

Stock == Default      \* the vendor's bundle; a wrapper goes by its profile

VARIABLES
  cli,           \* by app, whom its .claude.json names
  desktop,       \* by app, what its data says of its sign-in
  icon,          \* the profiles that open from a wrapper of their own
  process,       \* by app, the bundle its main process runs from
  link,          \* the open under way
  got,           \* the app the link went to, when one did
  turns

linkVars == <<cli, desktop, icon, process, link, got, turns>>

Steps == {"idle", "find", "look", "start", "share"}
Opens == [step : Steps, email : Accounts \cup {None}, prefer : Apps \cup {None},
          app : Apps \cup {None}, seen : [Apps -> Apps \cup {None}], crossed : BOOLEAN]

TypeOK ==
  /\ cli \in [Apps -> Accounts \cup {None}]
  /\ desktop \in [Apps -> Accounts \cup {"absent", "unsure", "out"}]
  /\ icon \subseteq Managed
  /\ process \in [Apps -> Apps \cup {None}]
  /\ link \in Opens
  /\ got \in Apps \cup {None, "web"}
  /\ turns \in 0..MaxTurns

Nowhere == [a \in Apps |-> None]

Idle == [step |-> "idle", email |-> None, prefer |-> None, app |-> None,
         seen |-> Nowhere, crossed |-> FALSE]
------------------------------------------------------------------------------
(* accounts.rs: whom an app is signed in as; None when that is no one or   *)
(* can't be told.  The stock CLI's file outlives an import, so it counts   *)
(* only when the app agrees, or there is no app.                           *)
StockAccount ==
  IF desktop[Default] = "absent" \/ cli[Default] = desktop[Default]
    THEN cli[Default] ELSE None

Account(a) == IF a = Default THEN StockAccount ELSE cli[a]

(* matching: the app asked from when it is signed in with the email, else  *)
(* the first profile that is, else the stock app.                          *)
Candidates(email, prefer) ==
  LET same == {a \in Apps : Account(a) = email}
  IN  IF prefer \in same THEN {prefer}
      ELSE IF same \cap Managed # {} THEN same \cap Managed ELSE same

(* The processes seen that run from the bundle of `a`. *)
From(seen, bundle) == {a \in Apps : seen[a] = bundle}

Several(apps) == \E a, b \in apps : a # b
------------------------------------------------------------------------------
Init ==
  /\ \E w \in Accounts \cup {None} : cli = [a \in Apps |-> w]
  /\ \E d \in {"absent", "out"} \cup Accounts : desktop = [a \in Apps |-> d]
  /\ icon \in SUBSET Managed
  /\ process = Nowhere /\ link = Idle /\ got = None /\ turns = 0

Disturbs == link' = IF link.step = "idle" THEN Idle ELSE [link EXCEPT !.crossed = TRUE]

(* A sign-in or a sign-out, by the CLI or by the app of `a`; the app may   *)
(* say neither.                                                            *)
SignInCli(a) ==
  /\ turns < MaxTurns /\ turns' = turns + 1
  /\ \E w \in (Accounts \cup {None}) \ {cli[a]} : cli' = [cli EXCEPT ![a] = w]
  /\ Disturbs
  /\ UNCHANGED <<desktop, icon, process, got>>

SignInApp(a) ==
  /\ turns < MaxTurns /\ turns' = turns + 1
  /\ \E d \in (Accounts \cup {"out", "unsure"}) \ {desktop[a]} :
       desktop' = [desktop EXCEPT ![a] = d]
  /\ Disturbs
  /\ UNCHANGED <<cli, icon, process, got>>

(* The bundle an open of `a` starts. *)
Bundle(a) == IF a \in icon THEN a ELSE Stock

(* The user opens an app, or ai-profiles does, and quits it. *)
Starts(a) ==
  /\ process[a] = None
  /\ process' = [process EXCEPT ![a] = Bundle(a)]
  /\ Disturbs
  /\ UNCHANGED <<cli, desktop, icon, got, turns>>

Quits(a) ==
  /\ process[a] # None
  /\ process' = [process EXCEPT ![a] = None]
  /\ Disturbs
  /\ UNCHANGED <<cli, desktop, icon, got, turns>>

(* A profile gets a Dock icon of its own, or loses it. *)
TurnIcon(p) ==
  /\ turns < MaxTurns /\ turns' = turns + 1
  /\ icon' = IF p \in icon THEN icon \ {p} ELSE icon \cup {p}
  /\ UNCHANGED <<cli, desktop, process, link, got>>
------------------------------------------------------------------------------
OpenInClaude ==
  /\ link.step = "idle"
  /\ \E e \in Accounts \cup {None}, p \in Apps \cup {None} :
       link' = [Idle EXCEPT !.step = "find", !.email = e, !.prefer = p]
  /\ got' = None
  /\ UNCHANGED <<cli, desktop, icon, process, turns>>

OnTheWeb == got' = "web" /\ link' = Idle

Find ==
  /\ link.step = "find"
  /\ LET found == IF link.email = None THEN {} ELSE Candidates(link.email, link.prefer)
     IN  \/ found = {} /\ OnTheWeb
         \/ \E a \in found :
              /\ link' = [link EXCEPT !.step = "look", !.app = a, !.prefer = None]
              /\ UNCHANGED got
  /\ UNCHANGED <<cli, desktop, icon, process, turns>>

(* One look at the process list; a profile's app that isn't in it is       *)
(* opened first, and waited for with more looks until the deadline.        *)
Look ==
  /\ link.step = "look"
  /\ link' = [link EXCEPT
       !.seen = process,
       !.step = IF link.app = Default \/ process[link.app] # None THEN "share" ELSE "start"]
  /\ UNCHANGED <<cli, desktop, icon, process, got, turns>>

StartProfile ==
  /\ link.step = "start"
  /\ process' = [process EXCEPT ![link.app] = IF @ = None THEN Bundle(link.app) ELSE @]
  /\ link' = [link EXCEPT !.step = "look", !.seen = Nowhere]
  /\ UNCHANGED <<cli, desktop, icon, got, turns>>

DidntStart ==
  /\ link.step = "start"
  /\ OnTheWeb
  /\ UNCHANGED <<cli, desktop, icon, process, turns>>

(* A bug to try: the stock app is only checked for a second process. *)
TwoShare(a, seen) ==
  Several(From(seen, IF a = Default THEN Stock ELSE seen[a]))

(* Whether other apps run from the bundle that is to get the link. *)
Shared(a, seen) ==
  IF a = Default
    THEN Several(From(seen, Stock)) \/ ~(From(seen, Stock) \subseteq {Default})
    ELSE Several(From(seen, seen[a]))

NotAlone ==
  /\ link.step = "share" /\ Shared(link.app, link.seen)
  /\ OnTheWeb
  /\ UNCHANGED <<cli, desktop, icon, process, turns>>

(* `open -a`: macOS gives the link to an app that runs from the bundle, or *)
(* starts it: the wrapper as its profile, the vendor's as the stock app.   *)
HandOver ==
  /\ link.step = "share" /\ ~Shared(link.app, link.seen)
  /\ LET bundle == IF link.app = Default THEN Stock ELSE link.seen[link.app]
         there  == From(process, bundle)
     IN  \E a \in IF there = {} THEN {bundle} ELSE there :
           /\ got' = a
           /\ process' = [process EXCEPT ![a] = IF @ = None THEN bundle ELSE @]
  /\ link' = [link EXCEPT !.step = "idle", !.seen = Nowhere]
  /\ UNCHANGED <<cli, desktop, icon, turns>>

OpenFails ==
  /\ link.step = "share" /\ ~Shared(link.app, link.seen)
  /\ link' = Idle
  /\ UNCHANGED <<cli, desktop, icon, process, got, turns>>

Next ==
  \/ \E a \in Apps : SignInCli(a) \/ SignInApp(a) \/ Starts(a) \/ Quits(a)
  \/ \E p \in Managed : TurnIcon(p)
  \/ OpenInClaude \/ Find \/ Look \/ StartProfile \/ DidntStart
  \/ NotAlone \/ HandOver \/ OpenFails

Spec == Init /\ [][Next]_linkVars
------------------------------------------------------------------------------
Went == got \in Apps /\ link.step = "idle" /\ link # Idle /\ ~link.crossed

(* A link that went to an app went to that of the profile it was meant     *)
(* for, whose sign-in has the session's email, never to another profile    *)
(* that happens to run from the same bundle: unless an app started or      *)
(* quit, or somebody signed in, while it was being opened.                 *)
LinkGoesRight == Went => got = link.app /\ Account(got) = link.email
===============================================================================
