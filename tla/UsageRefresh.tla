---------------------------- MODULE UsageRefresh ----------------------------
(***************************************************************************)
(* How the Mac app asks Anthropic for one Claude profile's usage           *)
(* (get_profile_usage): through a cache of answers and a lock for each     *)
(* access token (quota.rs), and, when the token is turned down, by running *)
(* claude so that it renews it (refresh.rs), after which a token that      *)
(* didn't change is given up for dead (usage/mod.rs).                      *)
(*                                                                         *)
(* Calls run together on the async runtime.  Tokens are numbered in the    *)
(* order they are stored; claude, run by the user, stores new ones too.    *)
(***************************************************************************)
EXTENDS Naturals

CONSTANTS
  Caller,     \* calls of get_profile_usage that may run at once
  NoCaller,   \* the holder of a free lock
  MaxTokens,  \* bound: tokens ever stored
  MaxCalls    \* bound: calls made

ASSUME CallerAssumption == NoCaller \notin Caller
ASSUME BoundsAssumption == MaxTokens \in Nat \ {0} /\ MaxCalls \in Nat

Token == 1 .. MaxTokens
NoToken == 0

VARIABLES
  pc,           \* where each call is
  using,        \* the token it asks with
  before,       \* the token that was stored before it had claude renew it
  again,        \* it asks for the second time
  slot,         \* who holds each token's lock
  cache,        \* what is cached for each token
  lock,         \* who holds the profile's refresh lock
  recent,       \* a refresh was attempted within the last minute
  dead,         \* the tokens given up
  stored,       \* the token in the Keychain or the credentials file
  newest,       \* the last one stored so far
  accepted,     \* the tokens Anthropic accepts
  renewable,    \* claude can renew the stored token
  calls,        \* calls made so far
  spawns,       \* history: claudes run since a refresh was last allowed
  refused,      \* history: tokens that Anthropic has turned down
  overtaking    \* history: tokens stored while a call was on with another

callVars    == <<pc, using, before, again>>
appVars     == <<slot, cache, lock, recent, dead>>
claudeVars  == <<stored, newest, accepted, renewable>>
historyVars == <<spawns, refused, overtaking>>
vars == <<callVars, appVars, claudeVars, calls, historyVars>>
------------------------------------------------------------------------------
Init ==
  /\ pc = [c \in Caller |-> "idle"]
  /\ using = [c \in Caller |-> NoToken]
  /\ before = [c \in Caller |-> NoToken]
  /\ again = [c \in Caller |-> FALSE]
  /\ slot = [t \in Token |-> NoCaller]
  /\ cache = [t \in Token |-> "nothing"]
  /\ lock = NoCaller
  /\ recent = FALSE
  /\ dead = {}
  /\ stored = 1
  /\ newest = 1
  /\ accepted = {1}
  /\ renewable = TRUE
  /\ calls = 0
  /\ spawns = 0
  /\ refused = {}
  /\ overtaking = {}

Goto(c, place) == pc' = [pc EXCEPT ![c] = place]

(* What reading the stored token may give: the Keychain may refuse. *)
Read == {stored, NoToken}

(* A new token is stored. *)
Store ==
  /\ newest < MaxTokens
  /\ newest' = newest + 1
  /\ stored' = newest + 1
  /\ accepted' = accepted \cup {newest + 1}
  /\ overtaking' = IF \E c \in Caller : pc[c] \in {"slot", "fetch", "refused"}
                   THEN overtaking \cup {newest + 1} ELSE overtaking
------------------------------------------------------------------------------
(* fetch_quota_cached *)

Call(c) ==
  /\ pc[c] = "idle" /\ calls < MaxCalls
  /\ calls' = calls + 1
  /\ using' = [using EXCEPT ![c] = NoToken]
  /\ before' = [before EXCEPT ![c] = NoToken]
  /\ again' = [again EXCEPT ![c] = FALSE]
  /\ Goto(c, "read")
  /\ UNCHANGED <<appVars, claudeVars, historyVars>>

(* No token, a dead one, or a cached answer: nothing is asked. *)
ReadToken(c) ==
  /\ pc[c] = "read"
  /\ \E t \in Read :
       /\ using' = [using EXCEPT ![c] = t]
       /\ IF t = NoToken \/ t \in dead \/ (t # NoToken /\ cache[t] # "nothing")
          THEN Goto(c, "idle") ELSE Goto(c, "slot")
  /\ UNCHANGED <<before, again, appVars, claudeVars, calls, historyVars>>

(* The token's lock; another call may have had the answer meanwhile. *)
TakeSlot(c) ==
  /\ pc[c] = "slot" /\ slot[using[c]] = NoCaller
  /\ IF cache[using[c]] # "nothing"
     THEN Goto(c, "idle") /\ UNCHANGED slot
     ELSE Goto(c, "fetch") /\ slot' = [slot EXCEPT ![using[c]] = c]
  /\ UNCHANGED <<using, before, again, cache, lock, recent, dead, claudeVars, calls, historyVars>>

(* Anthropic answers: with the usage, that it limits the rate, or with     *)
(* another error, which isn't kept.                                        *)
Fetched(c) ==
  /\ \/ /\ using[c] \in accepted
        /\ cache' = [cache EXCEPT ![using[c]] = "usage"]
     \/ cache' = [cache EXCEPT ![using[c]] = "limited"]
     \/ UNCHANGED cache
  /\ Goto(c, "idle")
  /\ UNCHANGED refused

(* ...or turns the token down, which is worth one refresh. *)
TurnedDown(c) ==
  /\ using[c] \notin accepted
  /\ refused' = refused \cup {using[c]}
  /\ Goto(c, IF again[c] THEN "idle" ELSE "refused")
  /\ UNCHANGED cache

(* Variant: the lock is kept when there is no usage to cache. *)
FetchKeepingSlot(c) ==
  /\ pc[c] = "fetch"
  /\ Fetched(c) \/ TurnedDown(c)
  /\ slot' = IF cache' = cache THEN slot ELSE [slot EXCEPT ![using[c]] = NoCaller]
  /\ UNCHANGED <<using, before, again, lock, recent, dead, claudeVars, calls, spawns, overtaking>>

(* Variant: any error is worth a refresh. *)
FetchForbidden(c) ==
  /\ pc[c] = "fetch"
  /\ \/ Fetched(c) \/ TurnedDown(c)
     \/ Goto(c, "refused") /\ UNCHANGED <<cache, refused>>
  /\ slot' = [slot EXCEPT ![using[c]] = NoCaller]
  /\ UNCHANGED <<using, before, again, lock, recent, dead, claudeVars, calls, spawns, overtaking>>

Fetch(c) ==
  /\ pc[c] = "fetch"
  /\ Fetched(c) \/ TurnedDown(c)
  /\ slot' = [slot EXCEPT ![using[c]] = NoCaller]
  /\ UNCHANGED <<using, before, again, lock, recent, dead, claudeVars, calls, spawns, overtaking>>
------------------------------------------------------------------------------
(* build_with_cli_refresh and try_refresh *)

(* The stored token is read again, to tell whether it changes. *)
ReadBefore(c) ==
  /\ pc[c] = "refused"
  /\ \E t \in Read : before' = [before EXCEPT ![c] = t]
  /\ Goto(c, "refresh")
  /\ UNCHANGED <<using, again, appVars, claudeVars, calls, historyVars>>

(* Variant: whether one was attempted just now isn't asked again. *)
TakeRefreshUnchecked(c) ==
  /\ pc[c] = "refresh" /\ lock = NoCaller
  /\ lock' = c /\ recent' = TRUE /\ spawns' = spawns + 1
  /\ Goto(c, "claude")
  /\ UNCHANGED <<using, before, again, slot, cache, dead, claudeVars, calls, refused, overtaking>>

(* The profile's refresh lock.  If one was attempted while this call       *)
(* waited, or just before, it is skipped.                                  *)
TakeRefresh(c) ==
  /\ pc[c] = "refresh" /\ lock = NoCaller
  /\ IF recent
     THEN Goto(c, "look") /\ UNCHANGED <<lock, recent, spawns>>
     ELSE lock' = c /\ recent' = TRUE /\ spawns' = spawns + 1 /\ Goto(c, "claude")
  /\ UNCHANGED <<using, before, again, slot, cache, dead, claudeVars, calls, refused, overtaking>>

(* claude is run: it may renew the token; or there is no claude, it takes  *)
(* too long, or can't renew it.                                            *)
RunClaude(c) ==
  /\ pc[c] = "claude"
  /\ \/ renewable /\ Store
     \/ UNCHANGED <<stored, newest, accepted, overtaking>>
  /\ lock' = NoCaller
  /\ Goto(c, "look")
  /\ UNCHANGED <<using, before, again, slot, cache, recent, dead, renewable, calls, spawns, refused>>

(* Variant: that there is no token is taken for a token. *)
LookUnread(c) ==
  /\ pc[c] = "look"
  /\ \E t \in Read :
       IF t = before[c]
       THEN dead' = dead \cup {t} /\ Goto(c, "idle") /\ UNCHANGED again
       ELSE again' = [again EXCEPT ![c] = TRUE] /\ Goto(c, "read") /\ UNCHANGED dead
  /\ UNCHANGED <<using, before, slot, cache, lock, recent, claudeVars, calls, historyVars>>

(* The token after up to a second: the same as before is given up for      *)
(* dead, with another the usage is asked once more.                        *)
Look(c) ==
  /\ pc[c] = "look"
  /\ \E t \in Read :
       IF t = before[c]
       THEN dead' = dead \cup ({t} \ {NoToken}) /\ Goto(c, "idle") /\ UNCHANGED again
       ELSE again' = [again EXCEPT ![c] = TRUE] /\ Goto(c, "read") /\ UNCHANGED dead
  /\ UNCHANGED <<using, before, slot, cache, lock, recent, claudeVars, calls, historyVars>>
------------------------------------------------------------------------------
(* Time, Anthropic, and the user's own claude *)

CacheExpires(t) ==
  /\ cache[t] # "nothing"
  /\ cache' = [cache EXCEPT ![t] = "nothing"]
  /\ UNCHANGED <<callVars, slot, lock, recent, dead, claudeVars, calls, historyVars>>

BackoffEnds ==
  /\ recent
  /\ recent' = FALSE
  /\ spawns' = 0
  /\ UNCHANGED <<callVars, slot, cache, lock, dead, claudeVars, calls, refused, overtaking>>

TokenExpires(t) ==
  /\ t \in accepted
  /\ accepted' = accepted \ {t}
  /\ UNCHANGED <<callVars, appVars, stored, newest, renewable, calls, historyVars>>

RenewalDies ==
  /\ renewable
  /\ renewable' = FALSE
  /\ UNCHANGED <<callVars, appVars, stored, newest, accepted, calls, historyVars>>

(* The user signs in, or uses claude and it renews its token. *)
SignIn ==
  /\ Store
  /\ renewable' = TRUE
  /\ UNCHANGED <<callVars, appVars, calls, spawns, refused>>

RenewElsewhere ==
  /\ renewable /\ Store
  /\ UNCHANGED <<callVars, appVars, renewable, calls, spawns, refused>>

Step(c) ==
  \/ ReadToken(c) \/ TakeSlot(c) \/ Fetch(c) \/ ReadBefore(c) \/ TakeRefresh(c) \/ RunClaude(c)
  \/ Look(c)

Next ==
  \/ \E c \in Caller : Call(c) \/ Step(c)
  \/ \E t \in Token : CacheExpires(t) \/ TokenExpires(t)
  \/ BackoffEnds \/ RenewalDies \/ SignIn \/ RenewElsewhere

Spec == Init /\ [][Next]_vars

(* Calls run on: requests, claude and the waits between all end by a       *)
(* timeout, and the async locks are handed on in turn.                     *)
FairSpec == Spec /\ \A c \in Caller : WF_vars(Step(c))
------------------------------------------------------------------------------
(* Properties *)

TypeOK ==
  /\ pc \in [Caller -> {"idle", "read", "slot", "fetch", "refused", "refresh", "claude", "look"}]
  /\ using \in [Caller -> Token \cup {NoToken}]
  /\ before \in [Caller -> Token \cup {NoToken}]
  /\ again \in [Caller -> BOOLEAN]
  /\ slot \in [Token -> Caller \cup {NoCaller}]
  /\ cache \in [Token -> {"nothing", "usage", "limited"}]
  /\ lock \in Caller \cup {NoCaller}
  /\ recent \in BOOLEAN
  /\ dead \in SUBSET Token
  /\ newest \in Token
  /\ stored \in Token
  /\ accepted \in SUBSET Token
  /\ renewable \in BOOLEAN
  /\ calls \in 0 .. MaxCalls
  /\ spawns \in Nat
  /\ refused \in SUBSET Token
  /\ overtaking \in SUBSET Token

(* "Each token makes at most one upstream call per window" (quota.rs:143): *)
(* no call asks with a token that an answer is cached for, or that another *)
(* one is asking with.                                                     *)
AskedOnce ==
  \A c \in Caller : pc[c] = "fetch" =>
    /\ cache[using[c]] = "nothing"
    /\ \A d \in Caller \ {c} : ~(pc[d] = "fetch" /\ using[d] = using[c])

(* Refreshes of a profile don't race: one claude at a time, and one in the *)
(* minute from the start of an attempt, however many calls are turned down *)
(* (refresh.rs:92-100).                                                    *)
RefreshesApart ==
  /\ spawns <= 1
  /\ \A c, d \in Caller : pc[c] = "claude" /\ pc[d] = "claude" => c = d

(* A token is given up for dead only once Anthropic has turned it down, or *)
(* if it was stored while a call was on with the one before it.            *)
DeadForAReason == dead \subseteq refused \cup overtaking

(* The same, inductively: why AskedOnce, RefreshesApart and DeadForAReason *)
(* hold.  Whoever asks holds the token's lock, whoever runs claude the     *)
(* profile's; a call that was turned down was so with the token that is    *)
(* stored still, or with one that has been overtaken.                      *)
AskerHolds ==
  \A c \in Caller : pc[c] = "fetch" => slot[using[c]] = c /\ cache[using[c]] = "nothing"

RefresherHolds ==
  /\ \A c \in Caller : pc[c] = "claude" => lock = c
  /\ spawns \in {0, 1}
  /\ ~recent => spawns = 0

TokensFollowed ==
  /\ \A c \in Caller : pc[c] \in {"slot", "fetch", "refused"} =>
       using[c] \in Token /\ stored \in {using[c]} \cup overtaking
  /\ \A c \in Caller : pc[c] = "refused" => using[c] \in refused
  /\ \A c \in Caller : pc[c] \in {"refresh", "claude", "look"} =>
       before[c] \in {NoToken} \cup refused \cup overtaking

UsageInv == TypeOK /\ AskerHolds /\ RefresherHolds /\ TokensFollowed /\ DeadForAReason

(* A token is given up for dead only once Anthropic has turned it down: a  *)
(* new one "is seen as a fresh, untracked credential and polling resumes   *)
(* automatically" (dead_credentials.rs:10-12).                             *)
DeadWasRefused == dead \subseteq refused

(* Every call is answered. *)
CallsAnswered == \A c \in Caller : pc[c] # "idle" ~> pc[c] = "idle"
=============================================================================
