------------------------------- MODULE MCServed -------------------------------
(***************************************************************************)
(* For TLC, three parts of how a host serves requests: sign-outs with what *)
(* waits on a sign-in (SignOut); the requests on sessions of two accounts  *)
(* (AccountSessions), moves and restarts of one session; and the watch     *)
(* over a window just opened (TrustPrompt).  Each is explored by itself: a *)
(* behaviour is one part's, and the others' variables stay as they are.    *)
(***************************************************************************)
EXTENDS SignOut

CONSTANTS Moved, Worker, NoWorker, Window, NoWindow, Off, MaxRedraws, MaxTyped

ASSUME PromptAssumption == MaxRedraws \in Nat /\ MaxTyped \in Nat
ASSUME MovedAssumption == Moved # {} /\ NoWorker \notin Worker /\ NoWindow \notin Window

VARIABLES
  part,
  place, job, target, todo, opened, holder, tmux, outside, transcripts,
  archived, answer, blind, requests, crashes,
  claude, selected, warns, trust, pane, watch, chose, unseen, redraws, typed

requestVars == <<place, job, target, todo, opened, holder, tmux, outside, transcripts,
                 archived, answer, blind, requests, crashes>>
windowVars  == <<claude, selected, warns, trust, pane, watch, chose, unseen, redraws, typed>>

OnSessions == INSTANCE AccountSessions WITH
  NAccounts <- 2, Session <- Moved, OldSession <- Moved, Served <- {"restart", "transfer"},
  MoveOptions <- [stopFirst : BOOLEAN, confirm : {FALSE}, after : {"delete"}, resume : {TRUE}],
  MaxRequests <- 2, MaxCrashes <- 0, RemainOnExit <- TRUE, OwnTerminals <- FALSE,
  MoveToSelf <- FALSE, pc <- place

Prompt == INSTANCE TrustPrompt WITH late <- unseen

SigningOut == part = "signing out"
Requested  == part = "requested"
AtPrompt   == part = "prompt"

NoRequests ==
  /\ place = Off /\ job = Off /\ target = Off /\ todo = Off /\ opened = Off
  /\ holder = Off /\ tmux = Off /\ outside = Off /\ transcripts = Off
  /\ archived = Off /\ answer = Off /\ blind = Off /\ requests = Off /\ crashes = Off

NoWindowOpened ==
  /\ claude = Off /\ selected = Off /\ warns = Off /\ trust = Off /\ pane = Off
  /\ watch = Off /\ chose = Off /\ unseen = Off /\ redraws = Off /\ typed = Off

ServedInit ==
  /\ Init
  /\ \/ SigningOut /\ NoRequests /\ NoWindowOpened
     \/ Requested /\ running = {} /\ OnSessions!Init /\ NoWindowOpened
     \/ AtPrompt /\ running = {} /\ NoRequests /\ Prompt!Init

ServedNext ==
  /\ UNCHANGED part
  /\ \/ SigningOut /\ Next /\ UNCHANGED <<requestVars, windowVars>>
     \/ Requested /\ OnSessions!Next /\ UNCHANGED <<vars, windowVars>>
     \/ AtPrompt /\ Prompt!Next /\ UNCHANGED <<vars, requestVars>>

(* Threads run on in the first two, as those say. *)
ServedSpec ==
  /\ ServedInit /\ [][ServedNext]_<<part, vars, requestVars, windowVars>>
  /\ \A t \in Leaver : WF_vars(SigningOut /\ Serve(t))
  /\ \A t \in Resumer : WF_vars(SigningOut /\ SeeTo(t))
  /\ \A w \in Worker : WF_requestVars(Requested /\ OnSessions!Serve(w))
------------------------------------------------------------------------------
(* The parts' properties, in the behaviours of each. *)

(* Every part's variables have their types. *)
TypesOK == TypeOK /\ (Requested => OnSessions!TypeOK) /\ (AtPrompt => Prompt!TypeOK)

(* The trust prompt is answered only as whoever opened the window said     *)
(* (TrustPrompt).                                                          *)
SettledRight == AtPrompt => Prompt!AnsweredAsAsked

(* Every request is answered, whatever locks others hold (AccountSessions). *)
RequestsAnswered ==
  \A w \in Worker : (Requested /\ place[w] # "idle") ~> (Requested /\ place[w] = "idle")
===============================================================================
