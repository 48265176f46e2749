-------------------------------- MODULE Tools ---------------------------------
(***************************************************************************)
(* The tools the Mac app's MCP server gives Claude (mcp/tools.rs): each    *)
(* call names a profile and a session, looks the session up in a list of   *)
(* them, and then asks the host (or, for a profile on the Mac, the app's   *)
(* own code) to do something to it.  Between the list and the request, and *)
(* between a move's plan and the move, anything can happen: people use the *)
(* sessions, the app and tmux meanwhile.                                   *)
(*                                                                         *)
(* What the host does with a request is modelled elsewhere; here only what *)
(* the next look at it tells.  One call at a time: whatever another would  *)
(* do is among what happens meanwhile.  A session's id and its prefixes    *)
(* are one.                                                                *)
(***************************************************************************)
EXTENDS Naturals, FiniteSets

CONSTANTS
  Hosted,        \* the accounts of a host that is paired
  Local,         \* the Claude profiles on the Mac
  Sessions,      \* their ids
  Titles,
  Notes,         \* memory notes of the project
  None,
  MaxWindows,    \* bound: windows tmux numbers before it starts over
  MaxCalls,      \* bound: calls
  MaxChanges     \* bound: things that happen meanwhile

Places == Hosted \cup Local

VARIABLES
  sess,          \* by place and session: whether it is there, its title,
                 \* whether it runs, and on the version before an update
  windows,       \* tmux's windows: whom each is tagged for, who runs in it
  nextWindow,    \* the number of the next one
  archives,      \* by place, the sessions with an archive
  signedIn,      \* the accounts that are signed in
  notes,         \* the notes both ends of a move changed, by who did last
  destNewer,     \* whether the copy at the destination went on
  call,          \* the call under way
  typed,         \* what the last call that typed typed into
  replaced,      \* the notes that the last move wrote over at the destination
  calls, changes

toolVars == <<sess, windows, nextWindow, archives, signedIn, notes, destNewer,
              call, typed, replaced, calls, changes>>

Numbers == 0..(MaxWindows - 1)

OnHosts == {"resume", "restart", "outdated", "stop", "rename", "read", "send",
            "new", "switch"}
OnAccounts == {"outdated", "new", "switch"}
OnArchives == {"restore", "delete"}
Kinds   == OnHosts \cup OnArchives \cup {"move", "archive"}

Sides   == {"source", "destination"}
Choices == Sides \cup {"newer", "merged"}

Closed == [tag |-> None, at |-> None, session |-> None]

Calls == [step : {"idle", "list", "plan", "act"}, kind : Kinds \cup {None},
          at : Places \cup {None}, to : Places \cup {None},
          ref : Sessions \cup Titles \cup {None}, ids : SUBSET Sessions,
          window : Numbers \cup {None}, choices : [Notes -> Choices \cup {None}],
          replaceNewer : BOOLEAN, decided : [Notes -> Sides \cup {"merged", None}],
          newer : [Notes -> Sides \cup {None}], moved : BOOLEAN, edited : SUBSET Notes]

TypeOK ==
  /\ sess \in [Places -> [Sessions ->
       [here : BOOLEAN, title : Titles \cup {None}, runs : BOOLEAN, old : BOOLEAN]]]
  /\ windows \in [Numbers -> [tag : Hosted \cup {"user", None}, at : Hosted \cup {None},
                              session : Sessions \cup {None}]]
  /\ nextWindow \in 0..MaxWindows
  /\ archives \in [Places -> SUBSET Sessions] /\ signedIn \subseteq Hosted
  /\ notes \in [Notes -> Sides \cup {None}] /\ destNewer \in BOOLEAN
  /\ call \in Calls
  /\ typed \in [tag : Hosted \cup {"user", None}, at : Hosted \cup {None},
                session : Sessions \cup {None}] \cup {None}
  /\ replaced \subseteq Notes
  /\ calls \in 0..MaxCalls /\ changes \in 0..MaxChanges

(* ids: the sessions looked up; decided: what the plan makes of the        *)
(* choices.  History: newer, the side of each note that was, to the plan;  *)
(* moved, whether windows or who runs in them changed since the call       *)
(* began; edited, the notes changed since then.                            *)
NoChoices == [n \in Notes |-> None]
Idle == [step |-> "idle", kind |-> None, at |-> None, to |-> None, ref |-> None,
         ids |-> {}, window |-> None, choices |-> NoChoices, replaceNewer |-> FALSE,
         decided |-> NoChoices, newer |-> NoChoices, moved |-> FALSE, edited |-> {}]
------------------------------------------------------------------------------
Listed(p) == {s \in Sessions : sess[p][s].here}

(* refs::session: the one with that id, or the only one of that title. *)
Found(p, ref, listed) ==
  LET titled == {s \in listed : sess[p][s].title = ref}
  IN  IF ref \in listed THEN {ref} ELSE IF Cardinality(titled) = 1 THEN titled ELSE {}

(* The windows in which a session runs. *)
WindowsOf(p, s) == {w \in Numbers : windows[w].at = p /\ windows[w].session = s}

InPlace(p, s, here, runs) ==
  [sess EXCEPT ![p][s] = [@ EXCEPT !.here = here, !.runs = runs, !.old = FALSE]]

Shut(p, s) == [w \in Numbers |-> IF w \in WindowsOf(p, s) THEN Closed ELSE windows[w]]

(* Claude in a new window of the server's, after `before`. *)
InNewWindow(before, p, s) ==
  /\ nextWindow < MaxWindows /\ nextWindow' = nextWindow + 1
  /\ windows' = [before EXCEPT ![nextWindow] = [tag |-> p, at |-> p, session |-> s]]

Init ==
  /\ \E home \in Places, t \in [Sessions -> Titles \cup {None}] :
       sess = [p \in Places |-> [s \in Sessions |->
                [here |-> p = home, title |-> t[s], runs |-> FALSE, old |-> FALSE]]]
  /\ windows = [w \in Numbers |-> Closed] /\ nextWindow = 0
  /\ archives = [p \in Places |-> {}] /\ signedIn = Hosted
  /\ notes \in [Notes -> Sides \cup {None}] /\ destNewer = FALSE
  /\ call = Idle /\ typed = None /\ replaced = {}
  /\ calls = 0 /\ changes = 0
------------------------------------------------------------------------------
(* What a call is given.  `target`: a host's tools refuse a profile on the *)
(* Mac; `move_ends`: a move stays on the Mac or on the host.               *)
world == <<sess, windows, nextWindow, archives, signedIn, notes, destNewer>>
seen  == <<typed, replaced, calls, changes>>

Call(kind, at) ==
  /\ call.step = "idle" /\ calls < MaxCalls /\ calls' = calls + 1
  /\ kind \in OnHosts => at \in Hosted
  /\ \E ref \in Sessions \cup Titles \cup {None} :
       /\ ref = None <=> kind \in OnAccounts
       /\ call' = [Idle EXCEPT !.step = IF kind \in {"new", "switch"} THEN "act" ELSE "list",
                               !.kind = kind, !.at = at, !.ref = ref]
  /\ UNCHANGED <<world, typed, replaced, changes>>

CallMove(at, to) ==
  /\ call.step = "idle" /\ at # to /\ calls < MaxCalls /\ calls' = calls + 1
  /\ at \in Hosted <=> to \in Hosted
  /\ \E ref \in Sessions \cup Titles, replaceNewer \in BOOLEAN,
        choices \in [Notes -> Choices \cup {None}] :
       call' = [Idle EXCEPT !.step = "list", !.kind = "move", !.at = at, !.to = to,
                            !.ref = ref, !.choices = choices, !.replaceNewer = replaceNewer]
  /\ UNCHANGED <<world, typed, replaced, changes>>

GiveUp == call' = Idle /\ UNCHANGED <<world, seen>>

(* remote_session, local_session_id: a restart wants a running session,    *)
(* window_of one that runs in a window.                                    *)
Refused(p, s) ==
  \/ call.kind = "restart" /\ ~sess[p][s].runs
  \/ call.kind \in {"read", "send"} /\ (~sess[p][s].runs \/ WindowsOf(p, s) = {})

List ==
  /\ call.step = "list" /\ call.kind \notin {"outdated"} \cup OnArchives
  /\ LET p == call.at  found == Found(p, call.ref, Listed(p))
     IN  IF found = {} \/ \E s \in found : Refused(p, s)
           THEN GiveUp
           ELSE /\ call' = [call EXCEPT
                     !.step = IF call.kind = "move" THEN "plan" ELSE "act",
                     !.ids = found,
                     !.window = IF call.kind \in {"read", "send"}
                                  THEN CHOOSE w \in WindowsOf(p, CHOOSE s \in found : TRUE) : TRUE
                                  ELSE None]
                /\ UNCHANGED <<world, seen>>

(* restart_outdated: the running sessions that wait on an update. *)
ListOutdated ==
  /\ call.step = "list" /\ call.kind = "outdated"
  /\ call' = [call EXCEPT !.step = "act",
       !.ids = {s \in Listed(call.at) : sess[call.at][s].runs /\ sess[call.at][s].old}]
  /\ UNCHANGED <<world, seen>>

(* archived_of, pick_archive: of the archives, the sessions to look in. *)
ListArchived ==
  /\ call.step = "list" /\ call.kind \in OnArchives
  /\ LET found == Found(call.at, call.ref, archives[call.at])
     IN  IF found = {} THEN GiveUp
         ELSE /\ call' = [call EXCEPT !.step = "act", !.ids = found]
              /\ UNCHANGED <<world, seen>>
------------------------------------------------------------------------------
Conflicts == {n \in Notes : notes[n] # None}
Chosen(choices) == {n \in Notes : choices[n] # None}

(* A bug to try: `newer` settled the wrong way round. *)
OlderSide(n) == CHOOSE side \in Sides : side # notes[n]

(* `newer` is settled by the plan. *)
NewerSide(n) == notes[n]

(* decisions: one for every conflict, and none for anything else. *)
Decided(choices) ==
  [n \in Notes |-> IF choices[n] = "newer" THEN NewerSide(n) ELSE choices[n]]

Plan ==
  /\ call.step = "plan"
  /\ IF (destNewer /\ ~call.replaceNewer) \/ Chosen(call.choices) # Conflicts
       THEN GiveUp
       ELSE /\ call' = [call EXCEPT !.step = "act", !.decided = Decided(call.choices),
                                   !.newer = notes, !.edited = {}]
            /\ UNCHANGED <<world, seen>>

(* The host, or the app, plans again: it refuses a newer copy and a note   *)
(* nothing was decided for.  The source exits first; what is left of it is *)
(* archived, deleted or kept; on a host it comes back at the destination.  *)
Move ==
  /\ call.step = "act" /\ call.kind = "move"
  /\ ~(destNewer /\ ~call.replaceNewer) /\ Conflicts \subseteq Chosen(call.decided)
  /\ \E s \in call.ids, kept \in BOOLEAN, archived \in BOOLEAN, resume \in BOOLEAN :
       LET gone == [sess EXCEPT ![call.at][s] = [@ EXCEPT !.here = kept, !.runs = FALSE,
                                                          !.old = FALSE]]
           comes == resume /\ call.to \in Hosted
       IN  /\ sess[call.at][s].here
           /\ ~sess[call.to][s].runs
           /\ sess' = [gone EXCEPT ![call.to][s] =
                         [sess[call.at][s] EXCEPT !.runs = comes, !.old = FALSE]]
           /\ archives' = IF archived /\ ~kept
                            THEN [archives EXCEPT ![call.at] = @ \cup {s}] ELSE archives
           /\ IF comes THEN InNewWindow(Shut(call.at, s), call.to, s)
                       ELSE windows' = Shut(call.at, s) /\ UNCHANGED nextWindow
  /\ replaced' = {n \in Conflicts : call.decided[n] = "source"}
  /\ notes' = [n \in Notes |-> IF n \in replaced' THEN None ELSE notes[n]]
  /\ call' = [call EXCEPT !.step = "idle"]
  /\ UNCHANGED <<signedIn, destNewer, typed, calls, changes>>
------------------------------------------------------------------------------
(* Any request can fail: the host is away, or refuses it. *)
Fail ==
  /\ call.step \in {"list", "plan", "act"}
  /\ GiveUp

Act(kind) == call.step = "act" /\ call.kind = kind

(* The sessions of the call that are left to do. *)
DidOne(s) ==
  call' = IF call.ids = {s} THEN Idle ELSE [call EXCEPT !.ids = @ \ {s}]

Resume ==
  /\ Act("resume")
  /\ \E s \in call.ids :
       /\ sess[call.at][s].here /\ DidOne(s)
       /\ IF sess[call.at][s].runs THEN UNCHANGED <<sess, windows, nextWindow>>
          ELSE /\ sess' = InPlace(call.at, s, TRUE, TRUE)
               /\ InNewWindow(windows, call.at, s)
  /\ UNCHANGED <<archives, signedIn, notes, destNewer, seen>>

(* One at a time; the session exits if it still runs, and comes back. *)
Restart ==
  /\ Act("restart") \/ Act("outdated")
  /\ \E s \in call.ids :
       /\ sess[call.at][s].here /\ DidOne(s)
       /\ sess' = InPlace(call.at, s, TRUE, TRUE)
       /\ InNewWindow(Shut(call.at, s), call.at, s)
  /\ UNCHANGED <<archives, signedIn, notes, destNewer, seen>>

AllRestarted == Act("outdated") /\ call.ids = {} /\ GiveUp

Stop ==
  /\ Act("stop")
  /\ \E s \in call.ids :
       /\ sess' = InPlace(call.at, s, sess[call.at][s].here, FALSE) /\ DidOne(s)
       /\ windows' = Shut(call.at, s)
  /\ UNCHANGED <<nextWindow, archives, signedIn, notes, destNewer, seen>>

Rename ==
  /\ Act("rename")
  /\ \E s \in call.ids, t \in Titles :
       sess' = [sess EXCEPT ![call.at][s].title = t] /\ DidOne(s)
  /\ UNCHANGED <<windows, nextWindow, archives, signedIn, notes, destNewer, seen>>

New ==
  /\ Act("new")
  /\ \E s \in Sessions \ UNION {Listed(p) \cup archives[p] : p \in Places}, t \in Titles :
       /\ sess' = [sess EXCEPT ![call.at][s] =
                    [here |-> TRUE, title |-> t, runs |-> TRUE, old |-> FALSE]]
       /\ InNewWindow(windows, call.at, s)
  /\ call' = Idle
  /\ UNCHANGED <<archives, signedIn, notes, destNewer, seen>>

(* A bug to try: any window of that number will do. *)
AnyWindow(at, w) == windows[w] # Closed

(* our_window: one this server opened for the account. *)
OurWindow(at, w) == windows[w].tag = at

Read ==
  /\ Act("read") /\ OurWindow(call.at, call.window)
  /\ GiveUp

(* window_keys: the keys go to the window's pane, whoever runs in it. *)
WindowKeys(w) == typed' = windows[w]

Send ==
  /\ Act("send") /\ OurWindow(call.at, call.window)
  /\ WindowKeys(call.window)
  /\ call' = [call EXCEPT !.step = "idle"]
  /\ UNCHANGED <<world, replaced, calls, changes>>

ArchiveSession ==
  /\ Act("archive")
  /\ \E s \in call.ids :
       /\ sess[call.at][s].here /\ ~sess[call.at][s].runs
       /\ sess' = InPlace(call.at, s, FALSE, FALSE)
       /\ archives' = [archives EXCEPT ![call.at] = @ \cup {s}] /\ DidOne(s)
  /\ UNCHANGED <<windows, nextWindow, signedIn, notes, destNewer, seen>>

Restore ==
  /\ Act("restore")
  /\ \E s \in call.ids \cap archives[call.at] :
       /\ ~sess[call.at][s].here
       /\ sess' = InPlace(call.at, s, TRUE, FALSE)
       /\ archives' = [archives EXCEPT ![call.at] = @ \ {s}] /\ DidOne(s)
  /\ UNCHANGED <<windows, nextWindow, signedIn, notes, destNewer, seen>>

DeleteArchive ==
  /\ Act("delete")
  /\ \E s \in call.ids :
       archives' = [archives EXCEPT ![call.at] = @ \ {s}] /\ DidOne(s)
  /\ UNCHANGED <<sess, windows, nextWindow, signedIn, notes, destNewer, seen>>

(* switch_account: the account's sessions stop, it signs out, and a        *)
(* sign-in starts, or does not; finish_sign_in ends it.                    *)
SwitchAccount ==
  /\ Act("switch")
  /\ sess' = [sess EXCEPT ![call.at] =
               [s \in Sessions |-> [@[s] EXCEPT !.runs = FALSE, !.old = FALSE]]]
  /\ windows' = [w \in Numbers |-> IF windows[w].at = call.at THEN Closed ELSE windows[w]]
  /\ signedIn' = signedIn \ {call.at}
  /\ call' = Idle
  /\ UNCHANGED <<nextWindow, archives, notes, destNewer, seen>>

FinishSignIn ==
  /\ call.step = "idle"
  /\ \E a \in Hosted \ signedIn : signedIn' = signedIn \cup {a}
  /\ UNCHANGED <<sess, windows, nextWindow, archives, notes, destNewer, call, seen>>
------------------------------------------------------------------------------
(* What happens meanwhile.                                                 *)

Change(m, n) ==
  /\ call.step # "idle"
  /\ changes < MaxChanges /\ changes' = changes + 1
  /\ call' = [call EXCEPT !.moved = @ \/ m, !.edited = @ \cup n]
  /\ UNCHANGED <<archives, signedIn, destNewer, typed, replaced, calls>>

(* Somebody renames a session, or stops or resumes it. *)
Renamed(p, s) ==
  /\ sess[p][s].here /\ Change(FALSE, {})
  /\ \E t \in Titles : sess' = [sess EXCEPT ![p][s].title = t]
  /\ UNCHANGED <<windows, nextWindow, notes>>

Ended(p, s) ==
  /\ sess[p][s].runs /\ Change(TRUE, {})
  /\ sess' = InPlace(p, s, TRUE, FALSE)
  /\ windows' = Shut(p, s)
  /\ UNCHANGED <<nextWindow, notes>>

Resumed(p, s) ==
  /\ p \in Hosted /\ sess[p][s].here /\ ~sess[p][s].runs /\ Change(TRUE, {})
  /\ sess' = InPlace(p, s, TRUE, TRUE)
  /\ InNewWindow(windows, p, s)
  /\ UNCHANGED notes

(* The user opens a window in tmux for something else. *)
UserWindow ==
  /\ Change(TRUE, {})
  /\ nextWindow < MaxWindows /\ nextWindow' = nextWindow + 1
  /\ windows' = [windows EXCEPT ![nextWindow] = [Closed EXCEPT !.tag = "user"]]
  /\ UNCHANGED <<sess, notes>>

(* tmux's server ends, and every window with it: the next numbers its      *)
(* windows anew.                                                           *)
TmuxEnds ==
  /\ nextWindow > 0 /\ Change(TRUE, {})
  /\ nextWindow' = 0 /\ windows' = [w \in Numbers |-> Closed]
  /\ sess' = [p \in Places |-> [s \in Sessions |->
               IF p \in Hosted THEN [sess[p][s] EXCEPT !.runs = FALSE, !.old = FALSE]
                               ELSE sess[p][s]]]
  /\ UNCHANGED notes

Updated ==
  /\ Change(FALSE, {})
  /\ sess' = [p \in Places |-> [s \in Sessions |-> [sess[p][s] EXCEPT !.old = sess[p][s].runs]]]
  /\ UNCHANGED <<windows, nextWindow, notes>>

(* Claude writes a note at one end of a move, or goes on at the other.     *)
Edited(n) ==
  /\ Change(FALSE, {n})
  /\ \E side \in Sides : notes' = [notes EXCEPT ![n] = side]
  /\ UNCHANGED <<sess, windows, nextWindow>>

GoesOn ==
  /\ call.kind = "move" /\ call.step # "idle" /\ ~destNewer
  /\ destNewer' = TRUE
  /\ changes < MaxChanges /\ changes' = changes + 1
  /\ UNCHANGED <<sess, windows, nextWindow, archives, signedIn, notes, call, typed, replaced,
                 calls>>

Tool ==
  \/ \E p \in Places : \E k \in Kinds \ {"move"} : Call(k, p)
  \/ \E p, q \in Places : CallMove(p, q)
  \/ List \/ ListOutdated \/ ListArchived \/ Plan \/ Move \/ Fail
  \/ Resume \/ Restart \/ AllRestarted \/ Stop \/ Rename \/ New \/ Read \/ Send
  \/ ArchiveSession \/ Restore \/ DeleteArchive \/ SwitchAccount \/ FinishSignIn

Meanwhile ==
  \/ \E p \in Places, s \in Sessions : Renamed(p, s) \/ Ended(p, s) \/ Resumed(p, s)
  \/ \E n \in Notes : Edited(n)
  \/ UserWindow \/ TmuxEnds \/ Updated \/ GoesOn

Next == Tool \/ Meanwhile

Spec == Init /\ [][Next]_toolVars
------------------------------------------------------------------------------
(* Keys a call sends reach only a window that the server opened for the    *)
(* account it names, never the user's own or another account's, even when  *)
(* tmux has started over and the number is another window's; and unless    *)
(* the windows changed since the list, they reach the session it names.    *)
KeysFindTheirWindow ==
  call.kind = "send" /\ call.step = "idle" =>
    /\ typed.tag = call.at
    /\ ~call.moved => typed.at = call.at /\ typed.session \in call.ids

(* A move writes over a note at its destination only as the call chose it: *)
(* the source's text, or the newer one where the source's is, unless the   *)
(* note was changed after the plan that settled it.                        *)
MovesAsDecided ==
  call.kind = "move" /\ call.step = "idle" =>
    \A n \in replaced :
      \/ call.choices[n] = "source"
      \/ call.choices[n] = "newer" /\ call.decided[n] = "source"
           /\ (n \in call.edited \/ call.newer[n] = "source")
===============================================================================
