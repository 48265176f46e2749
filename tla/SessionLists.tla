----------------------------- MODULE SessionLists -----------------------------
(***************************************************************************)
(* Which list a session on the Mac shows up in (sessions/scan.rs).  A home *)
(* is the stock Claude install or a profile; it has transcripts of the     *)
(* session in its config dir and the desktop app's records of it.  Before  *)
(* profiles' desktop apps had a config dir of their own they wrote to the  *)
(* stock install's: such a session is the profile's to list, not the       *)
(* stock install's.  One session that something happened in.               *)
(***************************************************************************)
EXTENDS Naturals, FiniteSets

CONSTANTS
  Managed,     \* the Claude profiles the app manages
  Stock,       \* the stock install
  MaxCopies    \* bound: project folders of a home that hold the session

Homes == Managed \cup {Stock}

Records == {"live", "archived"}

VARIABLES
  copies,      \* by home, how many project folders hold a transcript of it
  records,     \* by home, the records the desktop app has of it, any account's
  made         \* the profiles there are: profiles::load

listVars == <<copies, records, made>>

TypeOK == /\ copies \in [Homes -> 0..MaxCopies]
          /\ records \in [Homes -> SUBSET Records]
          /\ made \subseteq Managed
------------------------------------------------------------------------------
(* A session can have an archived record and a live one; the live one      *)
(* wins.                                                                   *)
Live(h) == "live" \in records[h]

(* There is no telling which of two transcripts is current. *)
Unique(h) == copies[h] = 1

(* What the stock app has in its list. *)
StockListed == Live(Stock)

(* A bug to try: a session moved to the profile since is still hidden. *)
LeftOnce(p) ==
  Live(p) /\ Unique(Stock) /\ ~StockListed

(* The session is in the stock install only, and the app of p lists it. *)
LeftInStock(p) ==
  Live(p) /\ Unique(Stock) /\ copies[p] = 0 /\ ~StockListed

Hidden == \E p \in made : LeftInStock(p)

(* The transcripts the list of h shows, by the home they are in. *)
Shown(h) ==
  IF h = Stock
    THEN {g \in {Stock} : copies[g] > 0 /\ ~Hidden}
    ELSE {g \in {h} : copies[g] > 0}
         \cup {g \in {Stock} : copies[h] = 0 /\ Live(h) /\ Unique(g)}

(* `home` answers for the stock install and the profiles there are. *)
Asked == made \cup {Stock}
------------------------------------------------------------------------------
Init == /\ copies = [h \in Homes |-> 0]
        /\ records = [h \in Homes |-> {}]
        /\ made \in SUBSET Managed

(* Claude run with the config dir of h writes the session's transcript: a  *)
(* new one, or one in another project folder.                              *)
Write(h) ==
  /\ h \in Asked /\ copies[h] < MaxCopies
  /\ copies' = [copies EXCEPT ![h] = @ + 1]
  /\ UNCHANGED <<records, made>>

(* The desktop app of h lists the session in its Code tab. *)
Record(h) ==
  /\ h \in Asked /\ ~Live(h)
  /\ records' = [records EXCEPT ![h] = @ \cup {"live"}]
  /\ UNCHANGED <<copies, made>>

(* The user archives the session in the app of h. *)
ArchiveRecord(h) ==
  /\ Live(h)
  /\ records' = [records EXCEPT ![h] = {"archived"}]
  /\ UNCHANGED <<copies, made>>

(* A record goes, with the account's folder or by a command of the app. *)
Forget(h) ==
  /\ records[h] # {}
  /\ \E r \in records[h] : records' = [records EXCEPT ![h] = @ \ {r}]
  /\ UNCHANGED <<copies, made>>

(* A transcript goes: moved, archived, or cleaned up by Claude. *)
TakeAway(h) ==
  /\ copies[h] > 0
  /\ copies' = [copies EXCEPT ![h] = @ - 1]
  /\ UNCHANGED <<records, made>>

(* Profiles come and go; a deleted one's folders go with it. *)
Create(p) ==
  /\ p \in Managed \ made
  /\ made' = made \cup {p}
  /\ UNCHANGED <<copies, records>>

Delete(p) ==
  /\ p \in made
  /\ made' = made \ {p}
  /\ copies' = [copies EXCEPT ![p] = 0]
  /\ records' = [records EXCEPT ![p] = {}]

Next == \/ \E h \in Homes : Write(h) \/ Record(h) \/ ArchiveRecord(h)
                            \/ Forget(h) \/ TakeAway(h)
        \/ \E p \in Managed : Create(p) \/ Delete(p)

Spec == Init /\ [][Next]_listVars
------------------------------------------------------------------------------
(* No session gets lost between the lists: a transcript in a home is shown *)
(* in the list of some home, and one that the list of the stock install    *)
(* shows is in a profile's list too only when the stock app has it in its  *)
(* own.  Each list is worked out from other folders (list, left_in_stock). *)
ListsAgree ==
  /\ \A g \in Asked : copies[g] > 0 => \E h \in Asked : g \in Shown(h)
  /\ \A p \in made : Stock \in Shown(p) /\ Stock \in Shown(Stock) => StockListed
===============================================================================
