# Remote Control Conductor in TLA+

Specifications of the parts of this repository that are hard to get right and hard to test: the
threads of the server that share accounts, tmux windows and files; commands, of the server and of
the Mac app, that write the same files and can be killed halfway; and the Mac app's calls that share
tokens and meet a host over answers that get lost. Each module is translated from the source under
`src/apps/ai-profiles/src-tauri/`; paths below start there.

`PROJECT.json` lists the components, the runs, the lines each definition stands for, the hazards
with the properties that cover them, a mutant for each property that shows it can fail, and the
theorems. To check a run: `tlc -config MCHost.cfg MCHost`; to check proofs: `tlapm HostProofs.tla`.

## The system

Two programs and a library.

* `server/` runs on each host. Its HTTPS API starts, stops and moves Claude sessions in tmux
  windows, signs accounts in and out, and pairs clients. Every request runs on a blocking thread of
  its own; threads share one `Mutex` per account (`account_lock`), the kept answers of
  `claude agents`, the sign-ins under way, and the files of the state folder, which the server's own
  command line (`setup`, `pair`, `revoke`) writes too.
* `src/` is the Mac app (Tauri): profiles, their usage and launchers, local sessions, and a client of
  the hosts. Its commands run together on an async runtime; its MCP server and its command line are
  processes of their own that use the same files.
* `core/` is what both use: sessions on disk, transcripts, memory files, pairing codes, wire types.

How they interact: routes call sessions, launch and moves with the account's lock held; a stop, a
sign-out and a background task call `remember`; an accepted sign-in starts a thread of
`resume_pending`, which calls `resume_held` under the lock, session by session; the compression of
old archives takes no lock; the command line and the server meet in the state folder; the app's
remote client meets the server only over HTTPS; the app's usage calls meet the user's `claude` only in
the stored token; what the app does with a session meets the desktop apps only in files they keep in
memory and write back.

### Components

| Component | State | Operations | Hard about it | Correct when | Modules |
|---|---|---|---|---|---|
| Session requests (`server/src/routes.rs`, `launch.rs`, `sessions.rs`, `agents.rs`, `tmux.rs`) | account locks; windows and their tags; Claude's registry; answers kept for 2 s | new, resume, stop, restart, transfer, rename, archive, restore, delete, answer a prompt | Claude registers, exits and is opened by its user at any moment; an answer may be stale; windows at a prompt are in no registry; kill between opening and tagging | no second copy of a session as far as tags and lists tell; every request is answered; a prompt is answered only as asked | AccountSessions, TrustPrompt |
| Moves (`moves.rs`, `core/src/session_move.rs`, `core/src/memory.rs`) | transcripts, side files, memory and archives of two accounts | plan, stop, back up, copy, archive or delete the source's, merge memory | two locks; failure or kill halfway, then again; what runs changes after the plan; other sessions write memory meanwhile | a conversation is never lost, a fact neither; nothing the server starts disturbs a move | AccountSessions, ItemMove, MovePromise, MemoryMerge |
| Archives (`routes.rs`, `moves.rs`, `core/src/session_move.rs`) | live transcript, archive folders, part files | archive, restore, delete, compress | the compression at startup runs beside requests without their lock | the latest version is whole somewhere; no restore overwrites a live one with an older | ArchiveFiles, ServerArchive |
| Pairing (`store.rs`, `core/src/pairing.rs`) | `pending-pairings.json`, `clients.json`, `state.lock` | `add_pending`, `redeem`, `revoke` | processes read and rewrite whole files; a redeem writes two; kill or failure in between | a code works once, and until it is used or expires; a revoked client stays out | PairingPromise, PairingStore |
| Sign-outs and what waits (`routes.rs`, `revive.rs`) | `pending-resume.json`, running sessions | sign out (stopping sessions), accept a sign-in, resume what waits | the resumer works beside new sign-outs and takes the lock per session only; nobody looks whether the file was written | what was stopped comes back at the next sign-in; nothing left running when signed out | SignOut |
| Accounts and sign-ins (`accounts.rs`, `login.rs`) | folders, names, trash; two sign-ins at most | create, rename, delete; start, submit, cancel, expire | requests look an account up before its lock; sign-ins start without it; a session at a prompt is in no registry; Claude makes folders anew | an account is in one place; no session's folder is taken from under it | HostAccounts |
| Coming back after a reboot (`revive.rs`, `main.rs`) | `running.json`, the boot id | `remember`, `revive` | remember is called by requests while revive runs; one temporary name; kills | what ran before a reboot runs again | Revive |
| The door (`limits.rs`, `serve.rs`) | sliding windows, lockouts, 256 slots | accept, allow, fail, check a token | boundaries; guesses spread over peers and connections | a guesser gets the stated number of tries; nobody is locked out for another | Door |
| Setup (`setup.rs`, `service.rs`, `certs.rs`, `config.rs`, `main.rs`) | units, config, state folder under two names, TLS identity | serve, pair, doctor, clients, install-service, setup | every command is a process that may be killed; a switch to new names in any order | a paired Mac finds the key it pinned; accepted networks stay | Setup |
| Session names (`rename.rs`, `sessions.rs`, `core/src/transcript.rs`) | transcript lines, registry, a cache | rename, list | appends beside Claude's writes; keys typed into a window; a cache by time and size | the name given last is the one written; lists show the file as it is | SessionNames |
| Remote hosts (`src/remote/`) | `remote-hosts.json`, Keychain, a token cache | send over several addresses, pair, remove, label, color; open a link | an answer lost after the host acted; three places to keep in step; a list changed while a request is out, or by the MCP server, another process | a change is carried out at most once; a host in the list has its token and the looks given last | RemoteHosts, OpenLink |
| Usage (`src/usage/`) | cache and lock per token, refresh lock and last attempt, dead tokens | `get_profile_usage` | calls at once; the stored token changes between any two reads | one request and one claude at a time; only a token that was turned down is given up | UsageRefresh |
| Sessions on the Mac (`src/sessions/`) | profiles' session files, the desktop apps' records, archives | move, archive, restore, delete, list | apps list and drop sessions in memory, write as they quit, and are opened at any moment; no lock | nothing is lost, no record without its transcript, every session in a list | MacSessions, SessionLists |
| Profiles (`src/profiles.rs`, `migration.rs`, `launchers/`) | `profiles.json`, launchers, wrappers, data folders | create, edit, delete, rebuild, import | commands beside each other and the rebuild; failures halfway | a launcher for each profile that should have one and for no other | Profiles |
| Opening an app (`src/launch.rs`, `shim/`) | processes, the wrapper, the vendor's app | open | no one-instance rule; a click in the Dock looks at nothing; the vendor updates meanwhile | opens never leave two instances on one data folder | Launch |
| MCP server (`src/mcp/`, `path_setup.rs`) | others' config files; the host's lists | the tools; install; PATH hook | a listed window is another's by the time of the call; files of others, no lock | done as told; others' text from before a change stays | Tools, AppFiles |
| User interface, website | | | views over the commands | | none |

## How the modules are put together

A component's module is a plain state machine: its state as variables, one action per handler step
(the code between two places where another thread, process, Claude or the user may come in), and its
properties. Parameters and bounds are CONSTANTS. Definitions whose comment begins with *Variant* are
in no next-state relation: they are the code with a plausible mistake, which the mutants put in place
of the original.

Components that share nothing the models keep are explored side by side by one run: the MC module
declares the variables of all, a variable `part` that says whose behaviour this is and never
changes, and gives the others' variables the value `Off`. Where a component shares state with
another, they are one module (AccountSessions has requests, moves, windows and kept answers;
ServerArchive EXTENDS ArchiveFiles; SignOut has the sign-out, sign-in and resumer).

| MC module | Parts |
|---|---|
| `MCHost` (EXTENDS `MCAccountSessions`) | AccountSessions, ServerArchive, HostAccounts |
| `MCServed` (EXTENDS `SignOut`) | SignOut; AccountSessions under fairness; TrustPrompt |
| `MCPairing` (EXTENDS `PairingStore`) | PairingStore, Door, RemoteHosts, Setup, SessionNames |
| `MCApp` (EXTENDS `UsageRefresh`) | UsageRefresh, Tools, OpenLink, AppFiles, ItemMove, MemoryMerge |
| `MCMac` (EXTENDS `MCProfiles`) | Profiles, Launch, MacSessions, SessionLists |
| `MCRevive` | Revive |

Two abstract specifications are implemented: `PairingPromise` by PairingStore (`Promise ==
INSTANCE PairingPromise`, with `clients` the file itself and the rest history variables moved by the
writes), and `MovePromise` by ItemMove (`Promise == INSTANCE MovePromise` with what is kept, what the
source has and what the destination has as state functions of the items, backups and archives).

## From code to actions

**AccountSessions.** `pc`, `job`, `target`, `todo`, `opened` are a request thread's locals; `holder`
is `Shared::account_lock`; `tmux` is what `Tmux` lists; `outside` are sessions a user opened in a
terminal; `transcripts` and `archived` are the account's project folder; `answer` is the cache of
`agents.rs`. Handler entry and locks: `Begin`, `TakeLock`, `TakeSecondLock`, `Finish`. `stop_held`:
`StopRunning`, `StopFails`, and where nothing runs `StopNotRunning`, `LookAgain`, `ListWaiting`,
`CloseWaiting`, its looks and its kill each a step. `resume_held`: `Find`, `FindTagged`. A window's
`tags` are those tmux took: setting one fails unseen, and a list of windows that fails reads as none,
after which a session is `blind` (history).
`launch::start`: `OpenWindow`, `OpenFails`, `TagWindow`, `Settle`. Moves: `PlanMove`, `PlanAgain`,
`CopySession`, `TakeOut`. External: `Register`, `Write`, `Exit`, `CloseExited`, `OpenOutside`,
`CloseOutside`. A session is copied whole here; ItemMove has the items.

**TrustPrompt.** `settle`'s watch over a window: what Claude draws, what a capture shows of it, what
someone attached types, and the keys the server sends. One assumption of the code is kept as it is:
a capture catches Claude drawing at most once before one finds a complete screen.

**ItemMove, MovePromise.** Items are the transcript, folders and plan files with their versions; a
host copies every item it replaces or removes into the backup and then applies item by item, the Mac
moves a replaced item into the backup and puts the new one in place. Every step can fail, the program
be killed, and the move asked for again. Each move has a backup folder of its own, named by the second,
in which the `remove_any` before a copy finds nothing (two moves within one second are left out).

**MemoryMerge.** A note is the set of facts it states; `base` are the versions last in common, kept
per project. A note is read and merged (`MergeNote`), written (`WriteNote`) or copied (`AddNote`), and
its common version copied (`Common`) in steps of their own, and Claude in other sessions of both
accounts writes notes at any step; `missed` are facts written in a note a merge has still to do.
Claude's merge of two notes counts as a decision of the user's.

**ArchiveFiles, ServerArchive.** Files of one session by place and kind (plain, gzipped, part file);
open files follow renames, and opening a part file truncates it under another writer. Claude takes no
lock and writes the live transcript at any step. `twice` says that two workers compressed one archive
at once, which ends what is promised of it.

**PairingStore.** A step is a read, a write by rename or taking the file lock; any can fail, either
process can be killed anywhere. The time a code is checked at is read under the lock, so `Expire` may
come between any two steps and `ReadPending` decides.

**SignOut.** `waiting` is `pending-resume.json`; `running` is what `sessions::running` reports and
`atPrompt` are windows that wait, which it doesn't. `Rewrite` is `update_pending`: the
list may be taken for empty when it can't be read and stay as it was when it can't be written, and
nobody is told; `lost` and `kept` are what such failures left out or left in, `owed`, `raced`, `late`
history too. Starting or stopping a session is one step here.

**HostAccounts.** A folder is an account's; a request looks it up, waits for the name's lock, and
goes on with the path. A session that `settle` leaves at a prompt is `waiting`, in no registry, when
its request frees the lock, and registers or ends later; `missed` are accounts it registered in after a
rename or delete had looked. Sign-ins are claude children with a folder of their own.

**Revive.** `file` and `tmp` are `running.json` and its temporary, `handle` the one of the two a
thread's open file is called by now; a list written over is `"broken"`, as `serde_json` finds it.

**Door.** Time is `now`, in ticks. A queue of instants is the set of the attempts it counts, each
with its peer, its tick and a number that tells it from the peer's others of that tick; what is too
old is dropped when the queue is next looked at, as in `limits.rs`. `locked` is when a peer's lock
ends. `tried` and `guessed` are history: the attempts that were let through.

**Setup.** A command of the server is a process; a key stands for a key pair and its certificate's
fingerprint. `spoiled` says that something happened the code doesn't survive: an identity made by two
processes at once (`"race"`), a kill between emptying and writing `cert.pem` (`"torn"`), or a new
folder made while the old service still ran (`"early"`).

**SessionNames.** Of a transcript's lines those that name the session; every write gives the file a
new version, which is what the cache of lists compares. A rename of a stopped session looks at the last
byte (`LookAtEnd`) and appends in a later step (`AppendName`); Claude writes, or is cut short, between.
`merged` says that the name's line was joined to a cut one.

**RemoteHosts.** A command is a task with its step: token, send over the addresses, note which
answered, change the list. The app can be quit between any two (`Quit`). The MCP server, another process, reads
the list and writes it back with the address that answered (`McpReads`, `McpNotes`), without the app's
lock. `given` is what the user gave last; `crossed` says that two commands that change the entry ran at
once, or that the answer of a rename or deletion was lost; `overwritten`, that the MCP server wrote over
what the app wrote since it read.

**UsageRefresh.** `slot` and `cache` are `ClaudeQuotaCache`, `lock` and `recent` `RefreshRegistry`,
`dead` `DeadCredentialRegistry`, `stored` the token in the Keychain. Tokens are numbers in the order
they are stored.

**Profiles, Launch, MacSessions, SessionLists.** Commands with `STORE_LOCK` and `BUILDING` and the
steps between; an open with its looks at processes before and after it starts one, beside other opens,
clicks in the Dock (the shim of a wrapper looks at nothing) and updates; a session's transcript, records
and archives beside desktop apps that list and drop it in memory (`mem`), write that to disk (`rec`) at
any step and as they quit, and are opened at any step; and which home lists a session. In Launch
`crossed` says that something started, or the vendor's app changed, between an open's look and its own
start, `beside` that a Dock click came beside a stock instance; in MacSessions `apart` says that an app
kept a record past a command's last look, `resumed` that someone went on with the session under one.

**Tools, OpenLink, AppFiles.** A tool's call from the list it looks its session up in to the request;
a link that macOS gives to any app of one bundle; and files of other programs, read, changed and
written back in steps of their own (emptied, then written; the config through a temporary file that
installs share), with edits by their owners between any two steps, and kills. `settled` are the newest
versions written while the app wasn't at the file.

## Runs

| Run | Bounds | Asks | States |
|---|---|---|---|
| `host` | 2 accounts, a session of the first, 2 requests on 2 threads, 2 windows, terminals of the user's, lists and tags that fail at any time, 1 kill; 1 archiving thread and the sweeper, 2 archives, 2 versions, 1 kill; 3 names, 3 accounts made, 3 sign-ins, 4 requests | `OneCopy`, `SessionKept`, `MoveUndisturbed`, `NeverLost`, `LiveNotRolledBack`, `AccountsKept`, `SessionsAtHome` | 1.66 million |
| `served` | 2 sessions, 1 sign-out thread and 1 resumer, 2 sign-outs, 2 sign-ins, 1 start, 1 failure of the list or kill; 2 restarts or moves of one session, windows kept after exit; 2 redraws, 2 keys typed | `ApartHeld`, `NothingLeftRunning`, `LetGoAtLast`, `RequestsAnswered`, `SettledRight` | 293 thousand |
| `pairing` | 2 codes, 2 clients, 2 threads, 1 command, 1 kill; 2 addresses, 2 accounts, 3 commands, and writes of the MCP server, of which 2 commands at once, 2 pairings; 2 Macs, 3 keys, 2 commands one at a time, 1 kill; 2 lists, 2 writes; 2 peers, 2 connections, 2 attempts each and 3 in all, 1 bad token, a window of 2 ticks, a lock of 3, 5 ticks | `Implements`, `LimitsHold`, `NotDoneTwice`, `EntriesHold`, `SetupHolds`, `NamesHold` | 2.06 million |
| `app` | 2 calls at once and 3 in all, 2 tokens; 2 windows, 1 tool call, 3 changes meanwhile; 2 profiles, 2 apps; 2 starts of installs or hooks, 1 edit, 1 kill; 3 items, 1 stop; 2 accounts, 1 note, 2 facts, 4 changes, 2 kills | `RefreshesApart`, `DeadForAReason`, `CallsAnswered`, `DoneAsTold`, `LinkGoesRight`, `FilesKept`, `KeepsPromise`, `FactsKept` | 727 thousand |
| `revive` | 2 sessions of 2 accounts, 1 requester, 2 boots, 1 stop, 1 start, 1 kill | `ApartComesBack`, `TriedAtLast` | 820 thousand |
| `mac` | 4 profiles of 3 names with 2 slugs, 2 commands beside the startup's, 1 failure; 3 opens, 2 versions of the vendor's app, looks of 2, 3, 2 and 2; 1 session, 2 profiles, 2 versions, 2 commands; 2 homes, 2 copies | `LaunchersMatch`, `OneAtATime`, `LatestKept`, `HalvesTogether`, `ListsAgree` | 791 thousand |
| `move_to_self`, `sign_out_raced`, `revive_rewritten`, `usage_overtaken`, `import_rolls_back`, `stays_paired` | smaller | one property each, which fails | |

Every passing run also has its type invariant (`TypesOK`, in `revive` `TypeOK`).

Why the bounds are enough to be worth something: every interleaving of two threads on one resource is
in them, with a further request after, and a kill at every step; with two sessions one is back, or
stopped, while the other is still to come; two codes and two clients are the least in which one
rewriting can drop another's; two accounts of different names lock in both orders; three names let one
account's name go to another while a third request still has the path. Where symmetry is declared, its
sets appear in the modules as sets only and are of one kind in every part that uses them; `served` and
`revive`, with liveness, declare none, and in `app` the part with liveness uses none of the symmetric
sets. Deadlock is not checked: requests, sign-ins and calls are bounded in number, so a behaviour may
end, and a request that waits forever is what the liveness properties ask about. `host` leaves out
windows kept after Claude exits, which are in `served`, and requests for new sessions, which with a second
session, failing lists and failing tags are more than TLC gets through in time: the theorems about
AccountSessions have them, in any number.

### Fairness

Weak fairness of each thread's or call's own step, in `Revive` also of the server being started again
(`Restart=on-failure` in `service.rs`, and the unit is enabled at boot), and of nothing else: no
request has to arrive, no Claude to register or end, no cache to expire. The code justifies it because
each step is a computation or a wait with a limit (SIGTERM's and SIGKILL's grace, `settle`'s time, the
HTTP client's timeout, `REFRESH_TIMEOUT`), and threads are scheduled by the system. A thread at a lock
is fairly served: tokio's locks are handed on in order; `std::sync::Mutex` is not, but as requests are
finite in the model it is free in the end for whoever still waits. That claim, that a waiter isn't
overtaken forever by an endless stream of requests, is not made.

## What the failing runs show

* `move_to_self`: `transfer_session` locks source and destination before anything refuses a move of
  an account to itself (`server/src/routes.rs:1042`), so such a request locks one `std` mutex twice
  and its thread, and all later requests of the account, wait forever.
* `sign_out_raced`: `resume_pending` looks whether a session runs without the lock and removes its
  entry afterwards; a sign-out that holds and stops the session in between loses it
  (`server/src/revive.rs:206`). `ApartHeld` is what remains true.
* `revive_rewritten`: `remember` replaces `running.json` by what runs now, whoever calls it. A request
  that stops a session after a reboot, before the others are back, takes those off the list
  (`server/src/revive.rs:53`). `ApartComesBack` is what remains true.
* `usage_overtaken`: the token that a refresh is compared with is read after the request was turned
  down (`src/usage/mod.rs:174`), so a token stored meanwhile can be given up for dead though nothing
  turned it down. `DeadForAReason` is what remains true.
* `import_rolls_back`: a failed import renames the backup back, ignores whether that worked, and
  removes the backup (`src/commands.rs:1049`): with a folder made anew in the meantime, the only copy
  is gone.
* `stays_paired`: with the service under the old name active, a command other than `install-service`
  makes the new state folder, and the old one is then never moved there (`server/src/main.rs:107`).

Smaller things met while modelling, that no run is about:

* a stop can answer "not running" though a Claude registered while it looked (`routes.rs:834`);
* a resume opens a second window beside one that lost or never got its tag (`launch.rs:104`: a kill
  before, a failure that is passed over, or a window of `new`), and when tmux can't list the windows
  (`tmux.rs:133`), against "point at it rather than start a second copy" (`routes.rs:875`); `OneCopy`
  says that it does in no other case;
* `pending-resume.json` is written with failures passed over (`revive.rs:143`), and a sign-out stops the
  sessions all the same, against "Written down before anything stops" (`routes.rs:1374`); `ApartHeld`
  holds of what no such failure lost;
* a session left at a prompt is in no registry, so a rename or delete can take its account's folder from
  under it (`launch.rs:189`, `routes.rs:352`, `routes.rs:403`); `SessionsAtHome` leaves those out;
* a rename that meets a line Claude cut after its look at the file's end is joined to it and gone
  (`rename.rs:49-66`); `NamesHold` leaves those out;
* the MCP server writes `remote-hosts.json` without the app's lock and can drop a host or a label just
  written (`hosts.rs:62`, "so two commands can't each drop the other's change"); the looks of such lists
  are left out of `EntriesHold`;
* what others write in an rc file or a desktop config between the app's read and its write is gone
  (`path_setup.rs:79-126`, `mcp/install.rs:194-213`); `FilesKept` is about what was there before;
* a fact that another session writes in a note while a merge has it to do can be lost
  (`core/src/memory.rs:207-248`); `FactsKept` leaves those out;
* an app opened past a move's or archive's last look, or with the session in memory only, writes its
  record back under a transcript that went (`sessions/transfer.rs:195`, `sessions/archive.rs:97`), so
  "only while the app that owns them is closed" (`sessions/mod.rs:10-11`) isn't ensured;
  `HalvesTogether` leaves those out;
* "Nothing may be running in it" of a rename (`server/src/accounts.rs:215`) leaves out sign-ins; a
  rename doesn't change the names in `pending-resume.json`, `running.json` and window tags
  (`routes.rs:371`); windows kept after Claude exits answer "already running" (`routes.rs:891`);
* two sign-ins can start beside two others (`login.rs:102`), and an abandoned one is dropped only when
  someone looks (`login.rs:83`);
* memory between three accounts can lose a fact, as the versions in common are of the last two
  (`core/src/memory.rs:14`); `FactsKept` is for two;
* two workers that compress one archive at once can leave it short
  (`core/src/session_move.rs:301`, "the archive is still whole"); `NeverLost` is until then;
* a label or color changed while a pairing or a rename is out can be overwritten
  (`src/remote/mod.rs:130`, `hosts.rs:62`); `EntriesHold` is until two such commands cross;
* a start between an open's look and its own start, by another open or by the user, and a click in the
  Dock beside a stock instance (`shim/src/main.rs:52`), leave two instances on one data folder
  (`src/launch.rs:1` says "exactly once"); `OneAtATime` leaves the first out and counts two in the second;
* `finish_sign_in` reports the profile it was told though the sign-in may be another account's
  (`src/mcp/tools.rs:1215`); `restart_outdated` can bring back a session stopped between its list and
  its request (`tools.rs:898`); `switch_account` leaves the account signed out if `start_login` fails;
* two installs at once can leave the server missing though one said Added (`src/mcp/install.rs`);
* for a managed profile only the CLI's `.claude.json` is looked at, not the app
  (`src/remote/open_in_claude.rs:155`);
* two processes making the identity at once, and a kill between emptying and writing `cert.pem`
  (`certs.rs:46`), leave a server no Mac trusts; setup says a network is accepted but the running
  server keeps its config unless it is reinstalled; two setups at once lose an accepted network;
* a rename's keys can land in a message begun between the capture and the typing (`rename.rs:12`);
* an import never asks `slug_taken`.


## Proofs

TLC explores the bounds above; the theorems hold for every value of the constants that the modules'
assumptions allow: any number of threads, sessions, accounts, clients, items, kills, ticks. What a model
calls a bound is a constant of the MC module too, so that no theorem is about the few calls or changes
TLC explores; only the requests that `MCServed` puts beside the sign-outs are 2 on 2 accounts, and those
`AccountSessionsProofs` has in any number. The assumptions say that the sets of the model are what they
stand for (no thread is also "no thread", bounds are natural numbers, accounts are numbers as they are
locked in order), and of the profiles there are at the start that their slugs differ, as every command
but an import leaves them, and that launchers of another version are theirs (`OriginalsAssumption`); TLC
evaluates them on every run. Two of them speak of numbers in the code: a peer has fewer attempts at
pairing than all peers together and a lock lasts a window at least (`DoorAssumption`: 3 to 5 attempts,
60 to 300 seconds in `routes.rs`), and an open waits no longer for a first sign of the app, or for a
script, than for the app (`LooksAssumption`: 50 and 200 looks to 600 in `launch.rs`). Of the code beyond
what the actions say, two things are assumed and named where they are: that a capture catches Claude
drawing at most once (TrustPrompt), and in `SetupAlwaysHolds` that commands on the terminal run one at a
time (`OneCommand`).

Each argument is an inductive invariant: the property as the run states it seldom is one, because the
step that would break it is excluded by what a thread knows from earlier steps. The invariants below say
that knowledge. TLC checked each before it was proved. A proof has one lemma per action, which carries
the conjuncts the action can disturb, and ends in one temporal step; where MC modules put parts side by
side, a last theorem carries the part's invariant to the run's own specification.

| Module | Theorems | Inductive invariant, and why it is needed |
|---|---|---|
| `AccountSessionsProofs` | `TypeCorrect`, `LocksAlwaysHeld`, `OneCopyAlways`, `SessionNeverLost`, `MovesUndisturbed` | `JobsInOrder` (a request at a step has the targets that step reads), `LocksHeld` (past its lock steps it holds the lower and the higher account), `OwnWindow` (the window a thread opened and didn't tag yet is of its account, and nobody else's to tag), `NoneYet` (who has looked and not found a session, where lists didn't fail, still wouldn't find one that carries its tag): a stale answer is harmless because the one who acts on it has the lock |
| `ArchiveProofs` | `NeverLostAlways`, `LiveNeverRolledBack` | `ArchiveShape` (who holds the lock and works on what; what each file holds; a session moves to a fresh archive; a restore puts a whole conversation where there is none) and, until two workers compress one archive at once, `ArchiveKept`: one version per archive, a compressor that has removed the plain file had written the other whole, and the latest version is elsewhere than in the archive being taken apart |
| `HostProofs` | `AccountsAlwaysKept`, `SessionsAlwaysAtHome`, `HostTypesAlways`, `HostKeepsSessions` | `AccountsInv`: requests under way have names, one folder is in one place, what runs runs in a folder that is there, who is past the lock holds its name's, and a name seen quiet stays quiet while the lock is held, but for what was at a prompt then (`Loud`) |
| `ServedProofs` | `ApartAlwaysHeld`, `NothingEverLeftRunning`, `ServedKeepsSignOuts`, `AlwaysSettledRight` | Sign-outs: an idle resumer holds nothing, what a sign-out saw waits still or is lost to a failed write, what is owed is not running, nothing let go is owed. Prompt: a window is bare at first, the last capture is what was shown unless Claude redrew, keys were pressed on what was seen whole |
| | `TypesAlwaysOK` | the sign-outs' and the prompt's own, and of the requests the one of `AccountSessionsProofs`, whose lemmas `Proved == INSTANCE AccountSessionsProofs` gives here once the instance's assumptions are shown |
| `ReviveProofs` | `ReviveInvAlways`, `ReviveTypesAlways`, `ApartAlwaysComesBack`, `StoppedAlwaysStays` | `ReviveInv`: overlapping `remember`s are known to overlap, one by itself writes what it saw, what was noted is listed, what was stopped is in no list |
| `PairingProofs` | `CodesAlwaysKept`, `StoreImplementsPromise`, `PairingKeepsPromise` | `Inv`: for each of issuing, redeeming and revoking, what the process knows of the file it will write over, which nobody else changes while it has the lock |
| | `PinsAlwaysHeld`, `SetupAlwaysHolds` | `SetupInv`: which command is at which step; where the folders are, under the old name or the new; one identity; the key a Mac pinned is the one drawn. For any number of commands it gives `PinsHeld`; the networks need `OneCommand`, as two setups at once do lose one |
| | `NamesAlwaysHold` | `NamesInv`: the last line that names the session does so as was last asked, but where a name was joined to a cut line (`merged`), and a reader's answer is at least as new as what it saw of the file before it read |
| | `LimitsAlwaysHold` | `DoorInv`: what was let through in the window is what everyone's queue counts (`AllFit`), and a peer's part of it is in the peer's own queue (`PeerFits`), so that room in a queue means as few attempts; of a peer's guesses `MaxBad` at most are counted, each other one locked it out for longer than the window lasts, and those others and the connections that are past the check are together no more than there are connections (`GuessesFit`); who was refused for everyone's limit has others' attempts to blame (`NotRefusedFor`) |
| | `NotDoneTwiceAlways`, `EntriesAlwaysHold` | `MacInv`: what each step of a command implies for what the host has done and what is listed; while no two changing commands have crossed and the list wasn't written over, at most one of them is under way, a host is listed once, the token is there before the entry and goes after it, and the colors shown are the given ones or become them when the answered rename or deletion is written down. `ClaimsFit` is what holds of tokens in a list the MCP server wrote over too: whatever client it lists, now or in what the server has read, no later token went before it |
| | `TypesAlwaysOK` | the parts' invariants together, and of RemoteHosts `Spent`: an address that a task has sent to isn't sent to again, without which the count of what a host did has no bound |
| `AppProofs` | `UsageInvAlways`, `AskedOnceAlways`, `RefreshesAlwaysApart`, `DeadAlwaysForAReason` | `UsageInv`: who asks holds the token's slot, who refreshes holds the profile's lock, a token followed the one it replaced |
| | `MovesKeepPromise` | `CarryInv`: items are applied in the order of the plan, a host's backup has each replaced item first, deletions come after all are moved. With it every step of ItemMove is a step of MovePromise or leaves what it speaks of alone |
| | `FilesAlwaysKept` | `FilesInv`: the newest text from while no hook was being added is in the file, in what a hook has read, or in a backup before the file is cut (`RcSafe`); one install at a time holds what is newest of the desktop config, in what it read or in the temporary file (`Holds`); an install that nobody raced knows what is there (`Knows`) |
| | `LinksAlwaysGoRight` | `LinkInv`: apps an answer lists are in the bundle, and the one chosen is signed in as asked |
| | `FactsAlwaysKept` | `MergeInv`: the base is common to both accounts (`CommonToAll`), a plan still to be carried out fits what is there (`PlanHolds`), a result that is worked out says what both notes say (`ResultHolds`), and a note that is over says what the source's says before that becomes the base, each but for facts forgotten or missed; for two accounts (between three, a fact can be lost: see above) |
| | `AlwaysDoneAsTold` | `ToolsInv`: what a call was given, whom it aims at, and that what the host does settles as the list said while windows didn't change |
| | `AppTypesAlways` | the parts' types together |
| `MacProofs` | `ListsAlwaysAgree` | the type invariant: each list is worked out from the folders alone |
| | `OneAtATimeAlways` | `OpenInv`: until a start crosses one, what each opener's last look at the processes still says (`Knows`), that one thing runs, starts or is asked for, or the stock instance and what the Dock put beside it (`OneThing`), and how many looks it has had (`LooksCounted`), for any numbers of looks, the code's among them |
| | `LatestAlwaysKept`, `HalvesAlwaysTogether` | `SessionsInv`: a command is at a step of what it was asked (`StepsFit`); what its last look found of archives and transcripts is still so, until someone goes on with the session under it (`FilesKnown`); where it takes the session away, the app of that profile runs without it in memory or on disk, until one keeps its record (`AppsKnown`); where a record has no transcript, the command that takes or brings both is between the two (`TogetherBut`) |
| | `LaunchersAlwaysMatch` | `ProfInv`: which launchers a profile is due follows from the list the holder of the lock loaded (its old ones, but those the change takes) and from what each thread has built by the step it is at (`Due`); the list on disk is the loaded one until the save; ids of new profiles are nobody else's; two profiles with one slug are both marked (`SlugsApart`), so that a launcher in the way of another's build is of somebody marked; while a launcher is built its place is empty |
| | `MacTypesAlways` | the parts' invariants together |

Models changed as they were proved about. Door's queues were sequences of ages that a tick shifted and
filtered; as sets of attempts at a time, which say the same of the code, their limits can be counted.
`Launch!Watches` had no more looks than `LaunchLooks`, which is so of the numbers TLC is given and not
of the code's: an app that shows up at the last look is watched for `STEADY_LOOKS` from there.
`RemoteHosts!Answered` and `Tools!Found` were CASE expressions whose arms overlapped, which leaves the
value open; they now test in the order the code does, and the Mac's modules use disjuncts and IF.
`Profiles!Load` forgot, of an import that gets the lock, which launchers it had built; the code removes
them when the save fails (`commands.rs:1026`). An import is now of one surface at least, as
`migration.rs:113` has it: without that the model had imports that build nothing, and `ProfInv` no step
for them to be at. And that a listed host has a token isn't inductive by itself: a host may also be on
the account's list while its removal is under way. The theorems on sessions of the Mac are about one
command at a time (`OneAssumption`, as in `mac`): commands take no lock, and two moves of one session at
once are the user's to avoid.

What stays with TLC, and why:

* `RequestsAnswered`, `LetGoAtLast`, `TriedAtLast`, `CallsAnswered`: liveness under fairness, which
  these provers have no rules for.

Every other property of the passing runs is the conclusion of a theorem. The failing runs refute what
they ask, on instances where it shows.

## Not modelled

* Contents and formats: certificates, icons and bundles (`launchers/icons.rs`), plists, wording,
  transcripts' text and the parsing of Claude's answers, except where a property is about them.
* `app_state.rs`: synchronous commands on the main thread that write by temporary and rename.
* The user interface and the website: views over the commands.
* Usage of Codex accounts (`usage/codex*`) and the history of usage: reads of others' files.
* SSH hints, the doctor's advice, updates of the app itself.
* Claude, tmux, launchd, systemd, macOS: only as the code uses them, as actions marked external.
* What Claude decides when it merges two notes.

## What is left

1. The rename of an account and what of it `pending-resume.json` and `running.json` still call by the
   old name, as part of SignOut and Revive.
