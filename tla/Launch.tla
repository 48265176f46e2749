------------------------------- MODULE Launch -------------------------------
(***************************************************************************)
(* Opening a profile's desktop app (launch.rs): an app does not keep to    *)
(* one instance per data directory, so an open looks for one before it     *)
(* starts one, through the profile's wrapper if it has one, rebuilt when   *)
(* it is behind the vendor's app, and through the stock app when that does *)
(* not work out.  The wrapper's executable is a shim (shim/src/main.rs)    *)
(* that becomes the vendor's binary, or hands the launch back to           *)
(* ai-profiles when the vendor has moved on.                               *)
(*                                                                         *)
(* Opens come from the window, the MCP server and a shim, each in a        *)
(* process of its own; one profile is modelled, its name and its data      *)
(* directory left out, and its wrapper stands for the vendor's version it  *)
(* was built from.                                                         *)
(***************************************************************************)
EXTENDS Naturals, FiniteSets

CONSTANTS
    Openers,        \* processes that open the profile
    Dock,           \* what starts a wrapper without asking ai-profiles
    AppearLooks, LaunchLooks, SteadyLooks, SettleLooks,
    MaxOpens,       \* bound: opens and clicks
    MaxVendor       \* bound: versions of the vendor's app

VARIABLES
    icon,       \* the profile's distinct_dock_icon
    vendor,     \* the installed version of the vendor's app
    wrapper,    \* the version the wrapper was built from; 0 when there is none
    openers,    \* where each opener stands, and its Watch
    shims,      \* who started the shims that run
    wrapped,    \* instances that run from the wrapper
    stock,      \* instances of the stock app on the profile's data
    coming,     \* instances `open` was asked for that don't show up yet
    opens, clicks,
    \* What happened, for the properties.
    handoffs,   \* opens that a wrapper asked for
    beside,     \* the Dock started a wrapper beside what runs, or comes, and both are there
    crossed     \* something started past an open's look, or the vendor's app
                \* changed past it

vars == <<icon, vendor, wrapper, openers, shims, wrapped, stock, coming,
          opens, clicks, handoffs, beside, crossed>>
instances == <<shims, wrapped, stock, coming>>

Ats == {"idle", "find", "route", "rebuild", "check", "open", "watch", "stock", "settle"}
\* The app takes less than LaunchLooks to show up, and is watched SteadyLooks then.
Watches == [looks : 0..(LaunchLooks + SteadyLooks - 2), anything : BOOLEAN, main : BOOLEAN, row : 0..SteadyLooks]
NoWatch == [looks |-> 0, anything |-> FALSE, main |-> FALSE, row |-> 0]
Versions == 1..MaxVendor

TypeOK ==
    /\ icon \in BOOLEAN
    /\ vendor \in Versions /\ wrapper \in Versions \cup {0}
    /\ openers \in [Openers -> [at : Ats, from : Versions \cup {0}, watch : Watches]]
    /\ shims \subseteq Openers \cup {Dock}
    /\ wrapped \in Nat /\ stock \in Nat /\ coming \in Nat
    /\ opens \in 0..MaxOpens /\ clicks \in 0..MaxOpens /\ handoffs \in Nat
    /\ beside \in BOOLEAN /\ crossed \in BOOLEAN

---------------------------------------------------------------------------
Free == [at |-> "idle", from |-> 0, watch |-> NoWatch]
Idle(o) == openers[o].at = "idle"
Goto(o, at) == openers' = [openers EXCEPT ![o].at = at]
Return(o) == openers' = [openers EXCEPT ![o] = Free]

\* An opener but `o` goes by a look of before, and won't look again.
PastLook(o) ==
    \E p \in Openers \ {o} :
        openers[p].at \in {"route", "rebuild", "check", "open", "watch", "stock"}

\* find_running_pid: the app on the profile's data, wrapper or stock.
MainRuns == wrapped + stock > 0

\* runs_from: the shim, or the app, inside the wrapper.
AnyRuns == shims # {} \/ wrapped > 0

\* version_drifted, should_hand_off.
Drifted == wrapper # vendor

---------------------------------------------------------------------------
(* open_profile                                                            *)

Open(o) ==
    /\ Idle(o) /\ opens + clicks < MaxOpens
    /\ opens' = opens + 1
    /\ Goto(o, "find")
    /\ UNCHANGED <<icon, vendor, wrapper, instances, clicks, handoffs, beside, crossed>>

\* focus_or_launch: a running instance is brought forward and that is all.  A
\* shim, or an app that is yet to come, is not one.
Find(o) ==
    /\ openers[o].at = "find"
    /\ IF MainRuns THEN Return(o) ELSE Goto(o, "route")
    /\ crossed' = (crossed \/ (~MainRuns /\ (coming > 0 \/ shims # {})))
    /\ UNCHANGED <<icon, vendor, wrapper, instances, opens, clicks, handoffs, beside>>

\* route, on what wrapper::state says.
Route(o) ==
    /\ openers[o].at = "route"
    /\ \/ /\ ~icon
          /\ \/ Goto(o, "settle") /\ coming' = coming + 1
             \/ Return(o) /\ UNCHANGED coming
       \/ /\ icon
          /\ Goto(o, IF Drifted THEN "rebuild" ELSE "open")
          /\ UNCHANGED coming
    /\ crossed' = (crossed \/ (coming' # coming /\ PastLook(o)))
    /\ UNCHANGED <<icon, vendor, wrapper, shims, wrapped, stock, opens, clicks, handoffs, beside>>

\* gui::generate takes seconds: what it clones is the app of its beginning.
\* A failed build puts the old wrapper back, and one that ends well may have
\* left it.
Rebuild(o) ==
    /\ openers[o].at = "rebuild"
    /\ \/ /\ openers[o].from = 0
          /\ openers' = [openers EXCEPT ![o].from = vendor]
          /\ UNCHANGED wrapper
       \/ /\ openers[o].from # 0
          /\ wrapper' \in {wrapper, openers[o].from}
          /\ openers' = [openers EXCEPT ![o] = [@ EXCEPT !.at = "check", !.from = 0]]
       \/ /\ openers' = [openers EXCEPT ![o] = [@ EXCEPT !.at = "stock", !.from = 0]]
          /\ UNCHANGED wrapper
    /\ UNCHANGED <<icon, vendor, instances, opens, clicks, handoffs, beside, crossed>>

\* rebuild_did_not_take: a wrapper that is still behind is not opened.
DidNotTake == Drifted

Check(o) ==
    /\ openers[o].at = "check"
    /\ Goto(o, IF DidNotTake THEN "stock" ELSE "open")
    /\ UNCHANGED <<icon, vendor, wrapper, instances, opens, clicks, handoffs, beside, crossed>>

\* `open` of a bundle that runs only brings it forward.
OpenWrapper(o) ==
    /\ openers[o].at = "open"
    /\ \/ /\ wrapper # 0
          /\ shims' = IF AnyRuns THEN shims ELSE {o}
          /\ Goto(o, "watch")
       \/ /\ Goto(o, "stock")
          /\ UNCHANGED shims
    /\ crossed' = (crossed \/ (shims' # shims /\ PastLook(o)))
    /\ UNCHANGED <<icon, vendor, wrapper, wrapped, stock, coming, opens, clicks, handoffs, beside>>

\* One more look of a Watch at what runs.
Looked(w) ==
    [looks |-> w.looks + 1,
     anything |-> w.anything \/ MainRuns \/ AnyRuns,
     main |-> w.main \/ MainRuns,
     row |-> IF MainRuns THEN w.row + 1 ELSE 0]

\* Variant: a wrapper that never gets to be the app is waited for on and on.
StartedUp(w) == MainRuns /\ w.row >= SteadyLooks

Started(w) ==
    IF MainRuns THEN w.row >= SteadyLooks
    ELSE ~w.main /\ AnyRuns /\ w.looks >= LaunchLooks

\* Variant: what takes its time is given up.
TooSlow(w) == ~MainRuns /\ (w.main \/ w.looks >= AppearLooks)

\* The app was there and is gone, the shim was there and is gone, or nothing
\* ever showed up.
Failed(w) ==
    /\ ~MainRuns
    /\ w.main \/ (w.anything /\ ~AnyRuns) \/ (~w.anything /\ w.looks >= AppearLooks)

Watch(o) ==
    /\ openers[o].at = "watch"
    /\ LET w == Looked(openers[o].watch) IN
       IF Failed(w) THEN openers' = [openers EXCEPT ![o] = [Free EXCEPT !.at = "stock"]]
       ELSE IF Started(w) THEN Return(o)
       ELSE openers' = [openers EXCEPT ![o].watch = w]
    /\ UNCHANGED <<icon, vendor, wrapper, instances, opens, clicks, handoffs, beside, crossed>>

\* open_stock: nobody waits for it to show up.
Stock(o) ==
    /\ openers[o].at = "stock"
    /\ Return(o)
    /\ coming' \in {coming, coming + 1}
    /\ crossed' = (crossed \/ (coming' # coming /\ PastLook(o)))
    /\ UNCHANGED <<icon, vendor, wrapper, shims, wrapped, stock, opens, clicks, handoffs, beside>>

\* wait_until_up, after a script launcher.
Settle(o) ==
    /\ openers[o].at = "settle"
    /\ LET w == Looked(openers[o].watch) IN
       IF MainRuns \/ w.looks >= SettleLooks THEN Return(o)
       ELSE openers' = [openers EXCEPT ![o].watch.looks = w.looks]
    /\ UNCHANGED <<icon, vendor, wrapper, instances, opens, clicks, handoffs, beside, crossed>>

---------------------------------------------------------------------------
(* The shim                                                                *)

\* It hands the launch to a process of ai-profiles, and is gone.
HandOff(x, o) ==
    /\ x \in shims /\ Drifted /\ Idle(o)
    /\ shims' = shims \ {x}
    /\ Goto(o, "find")
    /\ handoffs' = handoffs + 1
    /\ beside' = FALSE
    /\ UNCHANGED <<icon, vendor, wrapper, wrapped, stock, coming, opens, clicks, crossed>>

\* It becomes the app; also when it is behind and can't hand over.
Become(x) ==
    /\ x \in shims
    /\ shims' = shims \ {x}
    /\ wrapped' = wrapped + 1
    /\ UNCHANGED <<icon, vendor, wrapper, openers, stock, coming, opens, clicks, handoffs,
                   beside, crossed>>

Break(x) ==
    /\ x \in shims
    /\ shims' = shims \ {x}
    /\ beside' = FALSE
    /\ UNCHANGED <<icon, vendor, wrapper, openers, wrapped, stock, coming, opens, clicks,
                   handoffs, crossed>>

---------------------------------------------------------------------------
(* Around it                                                               *)

\* The Dock only sees whether the wrapper runs, and a shim doesn't look for
\* another instance.
Click ==
    /\ icon /\ wrapper # 0 /\ ~AnyRuns
    /\ opens + clicks < MaxOpens
    /\ clicks' = clicks + 1
    /\ shims' = {Dock}
    /\ beside' = (stock + coming > 0)
    /\ crossed' = (crossed \/ PastLook(Dock))
    /\ UNCHANGED <<icon, vendor, wrapper, openers, wrapped, stock, coming, opens, handoffs>>

Appear ==
    /\ coming > 0
    /\ coming' = coming - 1
    /\ stock' = stock + 1
    /\ UNCHANGED <<icon, vendor, wrapper, openers, shims, wrapped, opens, clicks, handoffs,
                   beside, crossed>>

\* The user quits the app, or it goes away by itself.
Gone ==
    /\ \/ wrapped > 0 /\ wrapped' = wrapped - 1 /\ UNCHANGED stock
       \/ stock > 0 /\ stock' = stock - 1 /\ UNCHANGED wrapped
    /\ beside' = FALSE
    /\ UNCHANGED <<icon, vendor, wrapper, openers, shims, coming, opens, clicks, handoffs, crossed>>

VendorUpdates ==
    /\ vendor < MaxVendor
    /\ vendor' = vendor + 1
    /\ crossed' = (crossed \/ shims # {} \/ PastLook(Dock))
    /\ UNCHANGED <<icon, wrapper, openers, instances, opens, clicks, handoffs, beside>>

Init ==
    /\ icon \in BOOLEAN
    /\ vendor = 1
    /\ wrapper \in {0, 1}
    /\ openers = [o \in Openers |-> Free]
    /\ shims = {} /\ wrapped = 0 /\ stock = 0 /\ coming = 0
    /\ opens = 0 /\ clicks = 0 /\ handoffs = 0
    /\ beside = FALSE /\ crossed = FALSE

Next ==
    \/ \E o \in Openers :
        \/ Open(o) \/ Find(o) \/ Route(o) \/ Rebuild(o) \/ Check(o) \/ OpenWrapper(o)
        \/ Watch(o) \/ Stock(o) \/ Settle(o)
        \/ \E x \in Openers \cup {Dock} : HandOff(x, o)
    \/ \E x \in Openers \cup {Dock} : Become(x) \/ Break(x)
    \/ Click \/ Appear \/ Gone \/ VendorUpdates

Spec == Init /\ [][Next]_vars

---------------------------------------------------------------------------
(* Properties                                                              *)

\* launch.rs:1-9 has it that an app is started exactly once on a data
\* directory.  What the code gives: opens, two at once included, never leave two
\* instances there, for an open does not start what runs and does not give up a
\* wrapper that is still starting.  It is not given when something starts, or
\* the vendor's app changes, between an open's look and its own start
\* (`crossed`), nor against the Dock: a shim (shim/src/main.rs) doesn't look,
\* and its app comes beside the stock one that a failing wrapper had an open
\* start (`beside`), for as long as both are there.
OneAtATime == crossed \/ wrapped + stock <= IF beside THEN 2 ELSE 1

\* A wrapper that an open starts never asks for another open: only one that
\* was started from the Dock does, once, so that no rebuild that doesn't take
\* has a wrapper ask again and again.
AsksOnce == crossed \/ handoffs <= clicks
=============================================================================
