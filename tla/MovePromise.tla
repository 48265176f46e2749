------------------------------ MODULE MovePromise ------------------------------
(***************************************************************************)
(* What a move of a session promises, whatever stops it and however often  *)
(* it is tried again: nothing that either account had is lost, and the     *)
(* source gives up its transcript only once the destination has everything *)
(* the source has of the session, or an archive has the transcript.        *)
(***************************************************************************)
CONSTANT Things     \* an item of the session with what it holds

VARIABLES
    kept,       \* the things that are whole in an account, a backup or an archive
    mine,       \* the things the source has
    here,       \* the source has the transcript
    there       \* the destination has all that the source has, or an archive

Init == /\ kept \subseteq Things /\ mine \subseteq kept
        /\ here = TRUE
        /\ there \in BOOLEAN

\* A step of the move: it only adds places where things are kept, and gives
\* the source nothing.
Work == /\ kept \subseteq kept' /\ kept' \subseteq Things
        /\ mine' \subseteq mine
        /\ here /\ ~here' => there
        /\ here' \in BOOLEAN /\ there' \in BOOLEAN

\* Claude goes on with the session: what the source had of an item becomes
\* what it has now. Nothing else goes.
Continue == /\ \E a \in mine, b \in Things \ mine :
                 /\ mine' = (mine \ {a}) \cup {b}
                 /\ kept' \in {kept \cup {b}, (kept \ {a}) \cup {b}}
            /\ here' = here
            /\ there' \in BOOLEAN

Next == Work \/ Continue

Spec == Init /\ [][Next]_<<kept, mine, here, there>>
===============================================================================
