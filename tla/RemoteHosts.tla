------------------------------ MODULE RemoteHosts ------------------------------
(***************************************************************************)
(* The remote host of a Mac: its entry in remote-hosts.json, its token in  *)
(* the Keychain, and the requests sent to it (src/remote).  Commands are   *)
(* tasks that run at once; a list's load, change and save hold one lock,   *)
(* and nothing is held across a request.  The lock is the app's own: the   *)
(* MCP server, a process of its own, notes addresses in the same list.  An *)
(* address may be out of reach, belong to someone else, or lose the answer *)
(* of what the host did, and the app may quit at any step.                 *)
(*                                                                         *)
(* There is one host.  The host's side is external here: what it grants    *)
(* this Mac, and which accounts it has.                                    *)
(***************************************************************************)
EXTENDS Naturals, FiniteSets, Functions

CONSTANTS
    Tasks,      \* commands that run at once
    MaxIds,     \* bound on the entries there ever are
    Addresses,  \* the host's addresses
    Accounts,   \* names of the host's accounts
    Looks,      \* colors of profiles, labels of hosts
    MaxClients, \* bound on the clients the host grants
    MaxCalls    \* bound on the commands

NoOne == "none"
Ids == 1..MaxIds
Clients == 1..MaxClients
NoToken == 0
Tokens == Clients \cup {NoToken}
Maybe(S) == S \cup {NoOne}

\* An entry, and one that isn't in the list.
Entry == [client : Clients, good : Addresses, label : Maybe(Looks),
          colors : [Accounts -> Maybe(Looks)]]
NoEntry == [client |-> NoToken]
NoList == [i \in Ids |-> NoEntry]

VARIABLES
    entry,      \* the list
    keychain,   \* the tokens kept
    cache,      \* the tokens read once
    task,       \* the commands under way
    held,       \* the list as the MCP server read it, to write it back
    granted,    \* the clients the host knows
    there,      \* the accounts the host has
    \* What happened, for the properties.
    given,      \* the label and the colors the user gave last
    crossed,    \* commands that change the same thing ran at once, or what
                \* one did on the host was never heard of or seen to
    overwritten, \* the MCP server wrote back a list that had changed
    removing,   \* entries whose removal began
    clients, calls

vars == <<entry, keychain, cache, task, held, granted, there, given, crossed,
          overwritten, removing, clients, calls>>

(***************************************************************************)
(* The requests: how each is sent, and whether the address that answered   *)
(* is noted.                                                               *)
(***************************************************************************)

\* What reads is a GET; a POST or a DELETE does something.
Reading == [reads |-> TRUE, notes |-> TRUE]
Doing == [reads |-> FALSE, notes |-> TRUE]
Unnoted == [reads |-> FALSE, notes |-> FALSE]

ListingRequests ==
    [info |-> Reading, accounts |-> Reading, sessions |-> Reading, dirs |-> Reading]
SessionRequests ==
    [new_session |-> Doing, resume |-> Doing, stop |-> Doing,
     rename_session |-> Doing, restart |-> Doing]
MoveRequests ==
    [transfer_plan |-> Reading, transfer |-> Doing, transfer_progress |-> Reading,
     merge_memory |-> Doing]
ArchiveRequests ==
    [archive |-> Doing, archived |-> Reading, restore |-> Doing,
     delete_archive |-> Doing]
SignInRequests ==
    [logout |-> Doing, start_login |-> Doing, submit_login |-> Doing,
     cancel_login |-> Unnoted]
WindowRequests == [window_screen |-> Reading, window_keys |-> Doing]

Requests ==
    Range(ListingRequests) \cup Range(SessionRequests) \cup Range(MoveRequests)
      \cup Range(ArchiveRequests) \cup Range(SignInRequests) \cup Range(WindowRequests)

\* Those that change the accounts the host has.
AccountRequests == [create |-> Doing, rename |-> Doing, delete |-> Doing]
AccountOps == DOMAIN AccountRequests

Ops == {"request", "pair", "remove"} \cup AccountOps
Steps == {"idle", "token", "cache", "send", "note", "look", "keep", "keepCache",
          "giveBack", "list", "deleteToken", "deleteEntry"}

Idle == [pc |-> "idle", op |-> "request", how |-> Reading, id |-> 0,
         host |-> NoEntry, token |-> NoToken, left |-> {}, by |-> NoOne, done |-> 0,
         from |-> NoOne, to |-> NoOne]

TypeOK ==
    /\ entry \in [Ids -> Entry \cup {NoEntry}] /\ held \in [Ids -> Entry \cup {NoEntry}]
    /\ keychain \in [Ids -> Tokens] /\ cache \in [Ids -> Tokens]
    /\ \A t \in Tasks :
         /\ task[t].pc \in Steps /\ task[t].op \in Ops /\ task[t].id \in Ids \cup {0}
         /\ task[t].left \subseteq Addresses /\ task[t].token \in Tokens
         /\ task[t].by \in Maybe(Addresses)
         /\ task[t].done \in 0..Cardinality(Addresses)
    /\ granted \subseteq Clients /\ there \subseteq Accounts
    /\ crossed \in BOOLEAN /\ overwritten \in BOOLEAN /\ removing \subseteq Ids
    /\ clients \in 0..MaxClients /\ calls \in 0..MaxCalls

NewLooks == [label |-> NoOne, colors |-> [a \in Accounts |-> NoOne]]

\* The app has just started, paired with the host before or not.
Init ==
    /\ clients \in {0, 1}
    /\ \E a \in Addresses :
         entry = [i \in Ids |->
             IF i = 1 /\ clients = 1
             THEN [client |-> 1, good |-> a, label |-> NoOne, colors |-> NewLooks.colors]
             ELSE NoEntry]
    /\ keychain = [i \in Ids |-> IF entry[i] = NoEntry THEN NoToken ELSE 1]
    /\ cache = [i \in Ids |-> NoToken]
    /\ task = [t \in Tasks |-> Idle]
    /\ held = NoList /\ overwritten = FALSE
    /\ granted = 1..clients
    /\ \E a \in Accounts : there = {a}
    /\ given = NewLooks
    /\ crossed = FALSE /\ removing = {}
    /\ calls = 0

Listed(i) == entry[i] # NoEntry
Free(t) == task[t].pc = "idle" /\ calls < MaxCalls
Others(t, ops) == \E o \in Tasks \ {t} : task[o].pc # "idle" /\ task[o].op \in ops
Set(t, r) == task' = [task EXCEPT ![t] = r]
Goto(t, step) == task' = [task EXCEPT ![t].pc = step]
End(t) == Set(t, Idle)

(***************************************************************************)
(* Commands begin.                                                         *)
(***************************************************************************)

\* connect: the entry, and its token from memory or the Keychain.
Connected(t, op, how, i) ==
    [Idle EXCEPT !.pc = IF cache[i] = NoToken THEN "token" ELSE "send", !.op = op,
                 !.how = how, !.id = i, !.host = entry[i], !.token = cache[i],
                 !.left = Addresses]

Request(t, i) ==
    /\ Free(t) /\ Listed(i)
    /\ \E how \in Requests : Set(t, Connected(t, "request", how, i))
    /\ calls' = calls + 1
    /\ UNCHANGED <<entry, keychain, cache, granted, there, given, crossed,
                   removing, clients, held, overwritten>>

Account(t, i, op, a, b) ==
    /\ Free(t) /\ Listed(i)
    /\ IF op = "rename" THEN a # b ELSE a = b
    /\ Set(t, [Connected(t, op, AccountRequests[op], i) EXCEPT !.from = a, !.to = b])
    /\ crossed' = (crossed \/ Others(t, AccountOps \cup {"pair", "remove"}))
    /\ calls' = calls + 1
    /\ UNCHANGED <<entry, keychain, cache, granted, there, given, removing,
                   clients, held, overwritten>>

\* A new entry's id is a new one: here, the next.
UnusedYet(i) ==
    /\ ~Listed(i) /\ keychain[i] = NoToken /\ i \notin removing
    /\ \A o \in Tasks : task[o].pc # "idle" => task[o].id # i

Unused(i) == UnusedYet(i) /\ \A j \in Ids : UnusedYet(j) => i <= j

\* pair: an entry with the code's certificate is refreshed, as it was now.
Pair(t, i) ==
    /\ Free(t) /\ clients < MaxClients
    /\ IF \E j \in Ids : Listed(j) THEN Listed(i) ELSE Unused(i)
    /\ Set(t, [Idle EXCEPT !.pc = "send", !.op = "pair", !.how = Doing, !.id = i,
                           !.host = entry[i], !.left = Addresses])
    /\ crossed' = (crossed \/ Others(t, AccountOps \cup {"pair", "remove"}))
    /\ calls' = calls + 1
    /\ UNCHANGED <<entry, keychain, cache, granted, there, given, removing,
                   clients, held, overwritten>>

Remove(t, i) ==
    /\ Free(t) /\ Listed(i)
    /\ Set(t, Connected(t, "remove", Unnoted, i))
    /\ removing' = removing \cup {i}
    /\ crossed' = (crossed \/ Others(t, AccountOps \cup {"pair", "remove"}))
    /\ calls' = calls + 1
    /\ UNCHANGED <<entry, keychain, cache, granted, there, given, clients, held,
                   overwritten>>

\* rename and set_profile_color: one change of the list.  The accounts shown
\* are those the host has.
Label(i, l) ==
    /\ Listed(i) /\ calls < MaxCalls
    /\ entry' = [entry EXCEPT ![i].label = l]
    /\ given' = [given EXCEPT !.label = l]
    /\ crossed' = (crossed \/ \E o \in Tasks : task[o].op = "pair")
    /\ calls' = calls + 1
    /\ UNCHANGED <<keychain, cache, task, granted, there, removing, clients, held,
                   overwritten>>

Color(i, a, c) ==
    /\ Listed(i) /\ a \in there /\ calls < MaxCalls
    /\ entry' = [entry EXCEPT ![i].colors[a] = c]
    /\ given' = [given EXCEPT !.colors[a] = c]
    /\ crossed' = (crossed \/ \E o \in Tasks : task[o].op = "pair" \/ task[o].to = a)
    /\ calls' = calls + 1
    /\ UNCHANGED <<keychain, cache, task, granted, there, removing, clients, held,
                   overwritten>>

(***************************************************************************)
(* The token.                                                              *)
(***************************************************************************)

\* Without one a command fails; a removal goes on.
Tokenless(t) ==
    /\ task[t].pc = "token" /\ keychain[task[t].id] = NoToken
    /\ IF task[t].op = "remove" THEN Goto(t, "deleteToken") ELSE End(t)
    /\ UNCHANGED <<entry, keychain, cache, granted, there, given, crossed, removing,
                   clients, calls, held, overwritten>>

ReadToken(t) ==
    /\ task[t].pc = "token" /\ keychain[task[t].id] # NoToken
    /\ Set(t, [task[t] EXCEPT !.token = keychain[task[t].id], !.pc = "cache"])
    /\ UNCHANGED <<entry, keychain, cache, granted, there, given, crossed, removing,
                   clients, calls, held, overwritten>>

CacheToken(t) ==
    /\ task[t].pc \in {"cache", "keepCache"}
    /\ cache' = [cache EXCEPT ![task[t].id] = task[t].token]
    /\ Goto(t, IF task[t].pc = "cache" THEN "send" ELSE "list")
    /\ UNCHANGED <<entry, keychain, granted, there, given, crossed, removing,
                   clients, calls, held, overwritten>>

(***************************************************************************)
(* Sending: each address in turn, the one that last answered first.        *)
(***************************************************************************)

Trying(t, a) ==
    /\ task[t].pc = "send" /\ a \in task[t].left
    /\ task[t].host # NoEntry /\ task[t].host.good \in task[t].left =>
         a = task[t].host.good

\* Where a command goes that gets no answer: a removal does without.
Fail(t) == IF task[t].op = "remove" THEN Goto(t, "deleteToken") ELSE End(t)

\* The next address, or none is left: offline.
Continue(t, a, r) ==
    IF task[t].left = {a} THEN Fail(t)
    ELSE Set(t, [r EXCEPT !.left = @ \ {a}])

\* Out of reach.
Unreachable(t, a) ==
    /\ Trying(t, a)
    /\ Continue(t, a, task[t])
    /\ UNCHANGED <<entry, keychain, cache, granted, there, given, crossed, removing,
                   clients, calls, held, overwritten>>

\* Someone else's certificate, or the host's refusal: the search is over.
Refused(t, a) ==
    /\ Trying(t, a)
    /\ Fail(t)
    /\ UNCHANGED <<entry, keychain, cache, granted, there, given, crossed, removing,
                   clients, calls, held, overwritten>>

\* What the host does for a command (external).
HostDoes(t) ==
    LET op == task[t].op  from == task[t].from  to == task[t].to
    IN  /\ op = "pair" => clients < MaxClients
        /\ op # "pair" => task[t].token \in granted
        /\ op = "create" => from \notin there
        /\ op \in {"rename", "delete"} => from \in there
        /\ op = "rename" => to \notin there
        /\ clients' = IF op = "pair" THEN clients + 1 ELSE clients
        /\ granted' = CASE op = "pair" -> granted \cup {clients + 1}
                        [] op = "remove" -> granted \ {task[t].token}
                        [] OTHER -> granted
        /\ there' = CASE op = "create" -> there \cup {from}
                      [] op = "rename" -> (there \ {from}) \cup {to}
                      [] op = "delete" -> there \ {from}
                      [] OTHER -> there
        /\ given' = CASE op \in {"create", "delete"} -> [given EXCEPT !.colors[from] = NoOne]
                      [] op = "rename" -> [given EXCEPT !.colors[to] = given.colors[from],
                                                        !.colors[from] = NoOne]
                      [] OTHER -> given

Answered(t, a) ==
    /\ Trying(t, a)
    /\ HostDoes(t)
    /\ Set(t, [task[t] EXCEPT
                 !.done = @ + 1,
                 !.left = {}, !.by = a,
                 !.token = IF task[t].op = "pair" THEN clients + 1 ELSE @,
                 !.pc = IF task[t].op = "pair" THEN "keep"
                        ELSE IF task[t].op = "remove" THEN "deleteToken"
                        ELSE IF task[t].how.notes THEN "note" ELSE "idle"])
    /\ UNCHANGED <<entry, keychain, cache, crossed, removing, calls, held,
                   overwritten>>

\* Variant: the next address is always tried.
LostTriesOn(t, a) ==
    /\ Trying(t, a)
    /\ \/ HostDoes(t) /\ crossed' = (crossed \/ task[t].op \in AccountOps)
          /\ Continue(t, a, [task[t] EXCEPT !.done = @ + 1])
       \/ /\ Continue(t, a, task[t])
          /\ UNCHANGED <<granted, there, given, clients, crossed>>
    /\ UNCHANGED <<entry, keychain, cache, removing, calls, held, overwritten>>

\* The answer doesn't come.  What only reads is sent to the next address;
\* anything else isn't sent again, as the host may have done it.
Lost(t, a) ==
    /\ Trying(t, a)
    /\ \/ HostDoes(t) /\ crossed' = (crossed \/ task[t].op \in AccountOps)
          /\ IF task[t].how.reads
             THEN Continue(t, a, [task[t] EXCEPT !.done = @ + 1]) ELSE Fail(t)
       \/ /\ IF task[t].how.reads THEN Continue(t, a, task[t]) ELSE Fail(t)
          /\ UNCHANGED <<granted, there, given, clients, crossed>>
    /\ UNCHANGED <<entry, keychain, cache, removing, calls, held, overwritten>>

(***************************************************************************)
(* After the answer.                                                       *)
(***************************************************************************)

\* remember, in the entry as it is now.
Note(t) ==
    LET i == task[t].id IN
    /\ task[t].pc = "note"
    /\ entry' = IF Listed(i) /\ task[t].host.good # task[t].by
                THEN [entry EXCEPT ![i].good = task[t].by] ELSE entry
    /\ IF task[t].op \in {"rename", "delete"} THEN Goto(t, "look") ELSE End(t)
    /\ UNCHANGED <<keychain, cache, granted, there, given, crossed, removing,
                   clients, calls, held, overwritten>>

\* The profile goes with a deleted account, and its look with a renamed one.
Carried(colors, from, to) ==
    IF from = to THEN [colors EXCEPT ![from] = NoOne]
    ELSE IF colors[from] = NoOne THEN colors
    ELSE [colors EXCEPT ![to] = colors[from], ![from] = NoOne]

Look(t) ==
    LET i == task[t].id IN
    /\ task[t].pc = "look"
    /\ entry' = IF Listed(i)
                THEN [entry EXCEPT ![i].colors = Carried(@, task[t].from, task[t].to)]
                ELSE entry
    /\ End(t)
    /\ UNCHANGED <<keychain, cache, granted, there, given, crossed, removing,
                   clients, calls, held, overwritten>>

\* Variant: that the token can't be kept goes unseen.
KeepUnseen(t) ==
    /\ task[t].pc = "keep"
    /\ keychain' \in {keychain, [keychain EXCEPT ![task[t].id] = task[t].token]}
    /\ Goto(t, "keepCache")
    /\ UNCHANGED <<entry, cache, granted, there, given, crossed, removing, clients,
                   calls, held, overwritten>>

\* A new pairing's token is kept before its entry is; a token that can't be
\* is given back, if the host is still there.
Keep(t) ==
    /\ task[t].pc = "keep"
    /\ \/ /\ keychain' = [keychain EXCEPT ![task[t].id] = task[t].token]
          /\ Goto(t, "keepCache")
       \/ /\ Goto(t, "giveBack")
          /\ UNCHANGED keychain
    /\ UNCHANGED <<entry, cache, granted, there, given, crossed, removing, clients,
                   calls, held, overwritten>>

GiveBack(t) ==
    /\ task[t].pc = "giveBack"
    /\ granted' \in {granted, granted \ {task[t].token}}
    /\ End(t)
    /\ UNCHANGED <<entry, keychain, cache, there, given, crossed, removing,
                   clients, calls, held, overwritten>>

\* The entry is added, or overwritten with what it was as the pairing began
\* and what the host answered.
Paired(t, l) ==
    [client |-> task[t].token, good |-> task[t].by, label |-> l,
     colors |-> IF task[t].host = NoEntry THEN NewLooks.colors ELSE task[t].host.colors]

Save(t) ==
    LET i == task[t].id
        kept == IF task[t].host = NoEntry THEN NoOne ELSE task[t].host.label
    IN
    /\ task[t].pc = "list"
    /\ task[t].host = NoEntry \/ Listed(i)
    /\ \E l \in Looks \cup {kept} :
         /\ entry' = [entry EXCEPT ![i] = Paired(t, l)]
         /\ given' = IF task[t].host = NoEntry THEN [NewLooks EXCEPT !.label = l]
                     ELSE IF l # kept THEN [given EXCEPT !.label = l] ELSE given
    /\ End(t)
    /\ UNCHANGED <<keychain, cache, granted, there, crossed, removing, clients,
                   calls, held, overwritten>>

\* The list can't be written, or the entry is gone.
SaveFails(t) ==
    /\ task[t].pc \in {"list", "look", "deleteEntry"}
    /\ End(t)
    /\ crossed' = (crossed \/ task[t].pc = "look")
    /\ UNCHANGED <<entry, keychain, cache, granted, there, given, removing,
                   clients, calls, held, overwritten>>

(***************************************************************************)
(* A removal, whether or not the host could be told.                       *)
(***************************************************************************)

\* `security` may not run at all, once the token is out of memory.
DeleteToken(t) ==
    LET i == task[t].id IN
    /\ task[t].pc = "deleteToken"
    /\ cache' = [cache EXCEPT ![i] = NoToken]
    /\ \/ keychain' = [keychain EXCEPT ![i] = NoToken] /\ Goto(t, "deleteEntry")
       \/ UNCHANGED keychain /\ End(t)
    /\ UNCHANGED <<entry, granted, there, given, crossed, removing, clients, calls,
                   held, overwritten>>

DeleteEntry(t) ==
    LET i == task[t].id IN
    /\ task[t].pc = "deleteEntry"
    /\ entry' = [entry EXCEPT ![i] = NoEntry]
    /\ given' = NewLooks
    /\ End(t)
    /\ UNCHANGED <<keychain, cache, granted, there, crossed, removing, clients,
                   calls, held, overwritten>>

(***************************************************************************)
(* Beside the commands.                                                    *)
(***************************************************************************)

\* The app quits, and is opened again: tokens were in memory.
Quit ==
    /\ \E t \in Tasks : task[t].pc # "idle"
    /\ task' = [t \in Tasks |-> Idle]
    /\ cache' = [i \in Ids |-> NoToken]
    /\ crossed' = (crossed \/ \E t \in Tasks : task[t].pc \in {"note", "look"}
                                             /\ task[t].op \in AccountOps)
    /\ UNCHANGED <<entry, keychain, granted, there, given, removing, clients,
                   calls, held, overwritten>>

\* The MCP server's requests note the address that answered as the app's do,
\* holding a lock the app doesn't: it reads the list, and writes it back.
McpReads ==
    /\ calls < MaxCalls
    /\ held = NoList /\ \E i \in Ids : Listed(i)
    /\ held' = entry
    /\ calls' = calls + 1
    /\ UNCHANGED <<entry, keychain, cache, task, granted, there, given, crossed,
                   overwritten, removing, clients>>

\* But for an address noted, one list is the other.
SameBut(list, other) ==
    \A i \in Ids :
        /\ list[i] = NoEntry <=> other[i] = NoEntry
        /\ list[i] # NoEntry => /\ list[i].client = other[i].client
                                /\ list[i].label = other[i].label
                                /\ list[i].colors = other[i].colors

McpNotes(i, a) ==
    /\ held[i] # NoEntry /\ held[i].good # a
    /\ entry' = [held EXCEPT ![i].good = a]
    /\ held' = NoList
    /\ overwritten' = (overwritten \/ ~SameBut(held, entry))
    /\ UNCHANGED <<keychain, cache, task, granted, there, given, crossed, removing,
                   clients, calls>>

Next ==
    \/ \E t \in Tasks, i \in Ids :
         \/ Request(t, i)
         \/ \E op \in AccountOps, a, b \in Accounts : Account(t, i, op, a, b)
         \/ Pair(t, i)
         \/ Remove(t, i)
    \/ \E i \in Ids, l \in Looks : Label(i, l)
    \/ \E i \in Ids, a \in Accounts, c \in Looks : Color(i, a, c)
    \/ \E t \in Tasks, a \in Addresses :
         Unreachable(t, a) \/ Refused(t, a) \/ Answered(t, a) \/ Lost(t, a)
    \/ \E t \in Tasks :
         \/ Tokenless(t) \/ ReadToken(t) \/ CacheToken(t)
         \/ Note(t) \/ Look(t)
         \/ Keep(t) \/ GiveBack(t) \/ Save(t) \/ SaveFails(t)
         \/ DeleteToken(t) \/ DeleteEntry(t)
    \/ Quit
    \/ McpReads
    \/ \E i \in Ids, a \in Addresses : McpNotes(i, a)

Spec == Init /\ [][Next]_vars

(***************************************************************************)
(* Properties.                                                             *)
(***************************************************************************)

\* A request that changes something on the host is carried out once at most,
\* whatever becomes of its answer and however many addresses are tried.
NotDoneTwice ==
    \A t \in Tasks : ~task[t].how.reads => task[t].done <= 1

\* An entry has a token, its own client's or that of a later pairing which the
\* list couldn't be told of: a pairing keeps the token before the entry, and
\* only a removal takes one away, whoever quits and whatever the MCP server
\* writes back.
TokenBelongs ==
    \A i \in Ids : ~crossed /\ Listed(i) /\ i \notin removing =>
        keychain[i] # NoToken /\ keychain[i] >= entry[i].client

\* The label and colors the user gave last are shown, on the accounts they
\* were given to, whatever else was answered meanwhile and whatever addresses
\* the MCP server noted; an account that is deleted leaves none to the next of
\* its name.  That "two commands can't each drop the other's change"
\* (hosts.rs:62) is so within the app only: what was changed between the
\* server's read and its write is gone, an entry just added too, so nothing is
\* said of a list that was overwritten.  (The two also write one temporary
\* file; that its text may mix is left out.)
LooksFollow ==
    ~crossed /\ ~overwritten /\ (\A t \in Tasks : task[t].op \in {"request", "remove"}) =>
        \A i \in Ids : Listed(i) =>
            /\ entry[i].label = given.label
            /\ \A a \in there : entry[i].colors[a] = given.colors[a]
===============================================================================
