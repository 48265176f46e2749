---------------------------- MODULE SessionNames ----------------------------
(***************************************************************************)
(* What a session is called on a host.  Its transcript says it             *)
(* (transcript.rs), and while it runs also the registry entry Claude       *)
(* keeps; a list shows both, from a cache of parsed transcripts            *)
(* (sessions.rs, routes.rs).  A rename (rename.rs) writes the title of a   *)
(* stopped session itself, and types `/rename` into the window of a        *)
(* running one.  Lists take no lock; a rename and the server's own start   *)
(* of a session hold the account's.                                        *)
(*                                                                         *)
(* One session.  Of a transcript's lines only those that name it count     *)
(* here; a write also changes the file's time and size, its version.       *)
(***************************************************************************)
EXTENDS Naturals, Sequences, FiniteSetsExt

CONSTANTS
    Lists, Rename,  \* requests
    Names,
    Suffixed,       \* the name Claude settles on when another session has one
    None,
    MaxWrites       \* bound: writes to the transcript

VARIABLES
    lines,      \* the transcript's lines
    open,       \* whether its last line was cut short
    version,    \* its modification time and size: how often it was written
    claude,     \* the running process and its registry entry
    window,     \* whether a window the server opened for the session is open
    prompt,     \* Claude's input box; `other` when there is more to it
    cache,      \* TranscriptCache: the version it knows, and the one it parsed
    lists, rename, lock,
    named,      \* history: the name given last
    merged      \* and whether it went after a line cut short that nobody saw

vars == <<lines, open, version, claude, window, prompt, cache, lists, rename,
          lock, named, merged>>
file == <<lines, open, version>>

Kinds == {"custom", "ai", "cut", "lost"}
AnyName == Names \cup {Suffixed, None}
Line == [kind : Kinds, name : AnyName]

\* What read_transcript finds: a later line wins, one cut short is skipped.
Latest(kind) ==
    LET at == {i \in DOMAIN lines : lines[i].kind = kind}
    IN IF at = {} THEN None ELSE lines[Max(at)].name

Stopped == [up |-> FALSE, ours |-> FALSE, name |-> None]
Empty == [other |-> FALSE, new |-> None, sent |-> FALSE]
NotAsked == [at |-> "idle", stamp |-> 0, info |-> 0]
NoRename == [at |-> "idle", name |-> None, before |-> None, answer |-> None, whole |-> TRUE]

TypeOK ==
    /\ lines \in Seq(Line) /\ Len(lines) <= MaxWrites
    /\ open \in BOOLEAN /\ version \in 0..MaxWrites
    /\ claude \in [up : BOOLEAN, ours : BOOLEAN, name : AnyName]
    /\ window \in BOOLEAN
    /\ prompt \in [other : BOOLEAN, new : AnyName, sent : BOOLEAN]
    /\ cache \in [stamp : 0..MaxWrites, info : 0..MaxWrites]
    /\ \A l \in Lists : lists[l].info \in 0..MaxWrites
    /\ rename.name \in AnyName /\ rename.answer \in AnyName
    /\ lock \in BOOLEAN
    /\ named \in AnyName /\ merged \in BOOLEAN

---------------------------------------------------------------------------
(* The transcript                                                          *)

Write(line) ==
    /\ version < MaxWrites /\ version' = version + 1
    /\ lines' = Append(lines, line)
    /\ open' = (line.kind = "cut")

WriteName(name) ==
    /\ Write([kind |-> "custom", name |-> name])
    /\ named' = name /\ merged' = FALSE

---------------------------------------------------------------------------
(* Claude, and whoever uses it                                             *)

\* The server opens a window, where Claude may ask something first; or the
\* session is resumed elsewhere.
OpenWindow ==
    /\ ~claude.up /\ ~window /\ ~lock
    /\ window' = TRUE
    /\ UNCHANGED <<file, claude, prompt, cache, lists, rename, lock, named, merged>>

\* Claude begins a line of its own. A session without a name is called
\* after its folder, one that has been named keeps its name.
Register ==
    /\ ~claude.up
    /\ claude' = [up |-> TRUE, ours |-> window, name |-> Latest("custom")]
    /\ open' = FALSE
    /\ prompt' = Empty
    /\ UNCHANGED <<lines, version, window, cache, lists, rename, lock, named, merged>>

\* Claude names it itself, or is asked to where the server isn't (in the
\* Claude app, or by /rename).
Title ==
    /\ claude.up
    /\ \E name \in Names :
         \/ /\ Write([kind |-> "ai", name |-> name])
            /\ UNCHANGED <<claude, named, merged>>
         \/ /\ WriteName(name)
            /\ claude' = [claude EXCEPT !.name = name]
    /\ UNCHANGED <<window, prompt, cache, lists, rename, lock>>

\* Someone types there, or Claude works or asks something, and then no more.
Use ==
    /\ claude.up /\ ~prompt.sent
    /\ prompt' = IF prompt.other THEN Empty ELSE [prompt EXCEPT !.other = TRUE]
    /\ UNCHANGED <<file, claude, window, cache, lists, rename, lock, named, merged>>

\* Claude takes what was sent: the command, alone in its box, or something
\* else it became part of.
TakeSent ==
    /\ claude.up /\ prompt.sent
    /\ prompt' = Empty
    /\ \/ /\ prompt.other \/ prompt.new = None
          /\ UNCHANGED <<file, claude, named, merged>>
       \/ \E name \in {prompt.new, Suffixed} \ {None} :
              /\ prompt.new # None
              /\ WriteName(name)
              /\ claude' = [claude EXCEPT !.name = name]
    /\ UNCHANGED <<window, cache, lists, rename, lock>>

\* It ends, or dies while it writes.
End ==
    /\ claude.up
    /\ claude' = Stopped /\ window' = FALSE /\ prompt' = Empty
    /\ \/ UNCHANGED file
       \/ Write([kind |-> "cut", name |-> None])
    /\ UNCHANGED <<cache, lists, rename, lock, named, merged>>

---------------------------------------------------------------------------
(* Listing sessions                                                        *)

GotoList(l, at) == lists' = [lists EXCEPT ![l].at = at]
NotListing == <<file, claude, window, prompt, rename, lock, named, merged>>

\* Its time and size are looked up first.
Ask(l) ==
    /\ lists[l].at = "idle"
    /\ lists' = [lists EXCEPT ![l] = [NotAsked EXCEPT !.at = "look", !.stamp = version]]
    /\ UNCHANGED <<NotListing, cache>>

\* A transcript that hasn't changed since it was parsed isn't read again.
Look(l) ==
    /\ lists[l].at = "look"
    /\ IF cache.stamp = lists[l].stamp
       THEN lists' = [lists EXCEPT ![l].info = cache.info, ![l].at = "answer"]
       ELSE GotoList(l, "read")
    /\ UNCHANGED <<NotListing, cache>>

\* Variant: the time and size are those after it was read.
ReadThenStat(l) ==
    \/ /\ lists[l].at = "read"
       /\ lists' = [lists EXCEPT ![l].info = version, ![l].at = "keep"]
       /\ UNCHANGED <<NotListing, cache>>
    \/ /\ lists[l].at = "keep"
       /\ cache' = [stamp |-> version, info |-> lists[l].info]
       /\ GotoList(l, "answer")
       /\ UNCHANGED NotListing

Read(l) ==
    \/ /\ lists[l].at = "read"
       /\ lists' = [lists EXCEPT ![l].info = version, ![l].at = "keep"]
       /\ UNCHANGED <<NotListing, cache>>
    \/ /\ lists[l].at = "keep"
       /\ cache' = [stamp |-> lists[l].stamp, info |-> lists[l].info]
       /\ GotoList(l, "answer")
       /\ UNCHANGED NotListing

Answer(l) ==
    /\ lists[l].at = "answer"
    /\ lists' = [lists EXCEPT ![l] = NotAsked]
    /\ UNCHANGED <<NotListing, cache>>

---------------------------------------------------------------------------
(* Renaming one                                                            *)

NotRenaming == <<window, cache, lists>>

Refuse ==
    /\ rename' = NoRename /\ lock' = FALSE
    /\ UNCHANGED <<file, claude, prompt, named, merged>>

\* In a window the server opened, and only when Claude is idle; a stopped
\* session unless its window waits.
AskRename ==
    /\ rename.at = "idle" /\ ~lock
    /\ \E name \in Names :
         LET at == CASE ~claude.up /\ ~window       -> "append"
                     [] claude.up /\ claude.ours   -> "screen"
                     [] OTHER                      -> "refuse"
         IN /\ lock' = TRUE
            /\ rename' = [NoRename EXCEPT !.at = at, !.name = name, !.before = claude.name]
    /\ UNCHANGED <<file, claude, prompt, named, merged, NotRenaming>>

RefuseRename ==
    /\ rename.at = "refuse" \/ (rename.at = "screen" /\ prompt # Empty)
    /\ Refuse
    /\ UNCHANGED NotRenaming

\* rename_stopped looks whether the last line is whole, which it is taken for
\* where it can't be read.
LookAtEnd ==
    /\ rename.at = "append"
    /\ \E whole \in {~open, TRUE} :
         rename' = [rename EXCEPT !.at = "write", !.whole = whole]
    /\ UNCHANGED <<file, claude, prompt, lock, named, merged, NotRenaming>>

\* What goes after a line that was cut short is lost with it.
Lose(name) ==
    /\ Write([kind |-> "lost", name |-> name])
    /\ named' = name

\* Variant: no line is ended first.
AppendBlindly ==
    /\ rename.at = "write"
    /\ \/ IF open THEN Lose(rename.name) /\ merged' = rename.whole
          ELSE WriteName(rename.name)
       \/ UNCHANGED <<file, named, merged>>
    /\ rename' = NoRename /\ lock' = FALSE
    /\ UNCHANGED <<claude, prompt, NotRenaming>>

\* The name is added at the end, which someone may have written to since; a
\* line that was cut short then is ended first.  Or it can't be written.
AppendName ==
    /\ rename.at = "write"
    /\ \/ IF open /\ rename.whole THEN Lose(rename.name) /\ merged' = TRUE
          ELSE WriteName(rename.name)
       \/ UNCHANGED <<file, named, merged>>
    /\ rename' = NoRename /\ lock' = FALSE
    /\ UNCHANGED <<claude, prompt, NotRenaming>>

\* rename_live: the box was empty when the screen was read; the command is
\* typed into whatever it holds now, and sent.
Type ==
    /\ rename.at = "screen" /\ prompt = Empty
    /\ rename' = [rename EXCEPT !.at = "type"]
    /\ UNCHANGED <<file, claude, prompt, lock, named, merged, NotRenaming>>

Keys ==
    \/ /\ rename.at = "type"
       /\ prompt' = IF claude.up THEN [prompt EXCEPT !.new = rename.name] ELSE prompt
       /\ rename' = [rename EXCEPT !.at = "enter"]
       /\ UNCHANGED <<file, claude, lock, named, merged, NotRenaming>>
    \/ /\ rename.at = "enter"
       /\ prompt' = IF claude.up THEN [prompt EXCEPT !.sent = TRUE] ELSE prompt
       /\ rename' = [rename EXCEPT !.at = "poll"]
       /\ UNCHANGED <<file, claude, lock, named, merged, NotRenaming>>

\* The name Claude settled on, or none in time.
Poll ==
    /\ rename.at = "poll"
    /\ \/ /\ claude.up /\ claude.name # None
          /\ claude.name = rename.name \/ claude.name # rename.before
          /\ rename' = [rename EXCEPT !.at = "done", !.answer = claude.name]
          /\ UNCHANGED <<file, claude, prompt, lock, named, merged>>
       \/ Refuse
    /\ UNCHANGED NotRenaming

AnswerRename ==
    /\ rename.at = "done"
    /\ Refuse
    /\ UNCHANGED NotRenaming

---------------------------------------------------------------------------
Init ==
    /\ lines = <<>> /\ open = FALSE /\ version = 0 /\ named = None /\ merged = FALSE
    /\ claude = Stopped /\ window = FALSE /\ prompt = Empty
    /\ cache = [stamp |-> 0, info |-> 0]
    /\ lists = [l \in Lists |-> NotAsked]
    /\ rename = NoRename /\ lock = FALSE

Next ==
    \/ OpenWindow \/ Register \/ Title \/ Use \/ TakeSent \/ End
    \/ \E l \in Lists : Ask(l) \/ Look(l) \/ Read(l) \/ Answer(l)
    \/ AskRename \/ RefuseRename \/ LookAtEnd \/ AppendName \/ Type \/ Keys \/ Poll \/ AnswerRename

Spec == Init /\ [][Next]_vars

---------------------------------------------------------------------------
(* Properties                                                              *)

\* The transcript says the name given last, by whom ever and whether the
\* session ran or not; a write cut short before a rename began takes no name
\* with it.  One cut short between the rename's look at the last line and its
\* write does, and any when it can't look (rename.rs:49-66): such a name is
\* gone, though it was said to be given, until one is written next.
NameWritten == ~merged => Latest("custom") = named

\* What a list says of a transcript is never older than the file it found,
\* whichever lists fill the cache and whatever is written while they read.
ListCurrent == \A l \in Lists : lists[l].at = "answer" => lists[l].info >= lists[l].stamp
=============================================================================
