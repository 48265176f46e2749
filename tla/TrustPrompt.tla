----------------------------- MODULE TrustPrompt -----------------------------
(***************************************************************************)
(* The server watches a window it has just opened (settle, in launch.rs):  *)
(* it looks at the screen every quarter of a second until Claude registers *)
(* its session, exits, or waits for someone.  When Claude asks whether to  *)
(* trust the folder, with "No, exit" selected, it answers for whoever said *)
(* that it may, but never when trusting would grant the permissions that   *)
(* the folder's settings pre-approve, which the prompt then warns of.      *)
(*                                                                         *)
(* A screen can be captured half drawn, and someone attached to the window *)
(* may type there too.  What the code relies on is kept: a capture catches *)
(* Claude drawing at most once before one finds a screen that's complete.  *)
(***************************************************************************)
EXTENDS Naturals

CONSTANTS
  MaxRedraws,    \* bound: redraws that no key causes
  MaxTyped       \* bound: keys someone else presses

VARIABLES
  claude,        \* where Claude is
  selected,      \* the answer it has selected
  warns,         \* whether the folder's settings pre-approve permissions
  trust,         \* whether the server may answer
  pane,          \* what the window shows of the prompt
  watch,         \* how far the server is
  chose,         \* history: the answer the server's Enter gave
  late,          \* history: someone typed between a capture and its key
  redraws, typed

promptVars == <<claude, selected, warns, trust, pane, watch, chose, late, redraws, typed>>

Answers == {"no", "yes"}
Parts   == {"question", "warning", "answers"}

(* The copy of the prompt being drawn, with the answer selected when it    *)
(* was; and above it, in the scrollback, an older copy of a tall prompt.   *)
Panes == [parts : SUBSET Parts, sel : Answers, older : Answers \cup {"none"}]
Bare  == [parts |-> {}, sel |-> "no", older |-> "none"]

(* What the server holds while it looks: the screen of the last look and   *)
(* whether it was being drawn, the keys pressed, and what it says at last. *)
Watches == [at : {"look", "press", "done"}, last : Panes, drawing : BOOLEAN,
            down : BOOLEAN, enter : BOOLEAN, key : {"none", "Down", "Enter"},
            says : {"none", "registered", "exited", "trustPrompt",
                    "trustPermissions", "waiting"}]

Watching == [at |-> "look", last |-> Bare, drawing |-> FALSE, down |-> FALSE,
             enter |-> FALSE, key |-> "none", says |-> "none"]

TypeOK ==
  /\ claude \in {"starting", "asking", "past", "registered", "gone"}
  /\ selected \in Answers /\ warns \in BOOLEAN /\ trust \in BOOLEAN
  /\ pane \in Panes
  /\ watch \in Watches
  /\ chose \in Answers \cup {"none"} /\ late \in BOOLEAN
  /\ redraws \in 0..MaxRedraws /\ typed \in 0..MaxTyped

Init ==
  /\ claude = "starting" /\ selected = "no"
  /\ warns \in BOOLEAN /\ trust \in BOOLEAN
  /\ pane = Bare /\ watch = Watching
  /\ chose = "none" /\ late = FALSE /\ redraws = 0 /\ typed = 0
------------------------------------------------------------------------------
(* Claude                                                                  *)

request == <<warns, trust, watch, chose, late>>

Full == IF warns THEN Parts ELSE Parts \ {"warning"}
Drawing == claude = "asking" /\ pane.parts # Full

Begin ==
  /\ claude = "starting"
  /\ claude' \in {"asking", "past"}
  /\ UNCHANGED <<selected, pane, request, redraws, typed>>

(* The question first, and the rest of the prompt in any order. *)
Draw ==
  /\ claude = "asking"
  /\ \E part \in Full \ pane.parts :
       /\ part = "question" \/ "question" \in pane.parts
       /\ pane' = [pane EXCEPT !.parts = @ \cup {part},
                               !.sel = IF part = "answers" THEN selected ELSE @]
  /\ UNCHANGED <<claude, selected, request, redraws, typed>>

(* A new copy, in place of the former or below it. *)
Anew == [Bare EXCEPT !.older = IF pane.parts = Full THEN pane.sel ELSE pane.older]
Redrawn == pane' \in {Anew, [Anew EXCEPT !.older = pane.older]}

Redraw ==
  /\ claude = "asking" /\ redraws < MaxRedraws
  /\ redraws' = redraws + 1
  /\ Redrawn
  /\ UNCHANGED <<claude, selected, request, typed>>

Register ==
  /\ claude = "past"
  /\ claude' = "registered"
  /\ UNCHANGED <<selected, pane, request, redraws, typed>>

Dies ==
  /\ claude # "gone" /\ claude' = "gone"
  /\ UNCHANGED <<selected, pane, request, redraws, typed>>

(* A key, which only the prompt takes; "No" exits. *)
Takes(key) ==
  IF claude # "asking" THEN UNCHANGED <<claude, selected, pane>>
  ELSE \/ /\ key = "Down"
          /\ selected' \in {a \in Answers : selected = "no" => a = "yes"}
          /\ Redrawn
          /\ UNCHANGED claude
       \/ /\ key = "Enter"
          /\ claude' = IF selected = "yes" THEN "past" ELSE "gone"
          /\ pane' = [Bare EXCEPT !.older = pane.older]
          /\ UNCHANGED selected

Typed ==
  /\ typed < MaxTyped /\ typed' = typed + 1
  /\ \E key \in {"Down", "Enter"} : Takes(key)
  /\ late' = (late \/ watch.at = "press")
  /\ UNCHANGED <<warns, trust, watch, chose, redraws>>
------------------------------------------------------------------------------
(* The server                                                              *)

others == <<claude, selected, warns, trust, pane, chose, late, redraws, typed>>

(* trust_prompt: what is read starts at the last question on the screen. *)
Latest(screen) ==
  IF "question" \in screen.parts THEN [parts |-> screen.parts, sel |-> screen.sel]
  ELSE IF screen.older # "none"  THEN [parts |-> Full, sel |-> screen.older]
  ELSE [parts |-> {}, sel |-> "no"]

Asks(screen) == Latest(screen).parts # {}

HasAnswers(screen) == "answers" \in screen.parts \/ screen.older # "none"

(* Variant: a screen is acted on as soon as it shows the answers. *)
Shows(screen) == HasAnswers(screen)

(* The answers are on it, and it hasn't changed since the last look. *)
Drawn(screen) == HasAnswers(screen) /\ screen = watch.last

YesSelected(screen) ==
  "answers" \in Latest(screen).parts /\ Latest(screen).sel = "yes"

Says(what) == watch' = [watch EXCEPT !.at = "done", !.says = what]

Settles ==
  /\ watch.at = "look"
  /\ \/ claude = "registered" /\ Says("registered")
     \/ claude = "gone" /\ Says("exited")
  /\ UNCHANGED others

Captures == watch.at = "look" /\ claude \notin {"registered", "gone"}
            /\ ~(Drawing /\ watch.drawing)

MayAnswer == Asks(pane) /\ ~watch.enter /\ Drawn(pane)

(* What it is left waiting on. *)
Reports ==
  /\ Captures /\ MayAnswer
  /\ \/ ~trust /\ Says("trustPrompt")
     \/ trust /\ "warning" \in Latest(pane).parts /\ Says("trustPermissions")
  /\ UNCHANGED others

Seen == [watch EXCEPT !.last = pane, !.drawing = Drawing]
Presses(key) == watch' = [Seen EXCEPT !.at = "press", !.key = key,
                                      !.down = @ \/ key = "Down", !.enter = (key = "Enter")]

Decides ==
  /\ Captures /\ MayAnswer /\ trust /\ "warning" \notin Latest(pane).parts
  /\ \/ YesSelected(pane) /\ Presses("Enter")
     \/ ~YesSelected(pane) /\ ~watch.down /\ Presses("Down")
     \/ ~YesSelected(pane) /\ watch.down /\ watch' = Seen
  /\ UNCHANGED others

LooksAgain ==
  /\ Captures /\ ~MayAnswer
  /\ watch' = Seen
  /\ UNCHANGED others

Press ==
  /\ watch.at = "press"
  /\ Takes(watch.key)
  /\ chose' = IF watch.key = "Enter" /\ claude = "asking" THEN selected ELSE chose
  /\ watch' = [watch EXCEPT !.at = "look", !.key = "none"]
  /\ UNCHANGED <<warns, trust, late, redraws, typed>>

(* The twelve seconds are over. *)
Expires ==
  /\ watch.at = "look"
  /\ Says("waiting")
  /\ UNCHANGED others

Next ==
  \/ Begin \/ Draw \/ Redraw \/ Register \/ Dies \/ Typed
  \/ Settles \/ Reports \/ Decides \/ LooksAgain \/ Press \/ Expires

Spec == Init /\ [][Next]_promptVars
------------------------------------------------------------------------------
(* The server answers the prompt only for someone who said that it may,    *)
(* never for the permissions a folder's settings pre-approve, and never    *)
(* with "No, exit", which would end Claude: however the prompt is drawn,   *)
(* and whoever moves the selection, unless between a look and its key.     *)
AnsweredAsAsked ==
  chose # "none" => trust /\ ~warns /\ (late \/ chose = "yes")
===============================================================================
