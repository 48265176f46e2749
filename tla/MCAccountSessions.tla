------------------------- MODULE MCAccountSessions -------------------------
(* AccountSessions on small instances. *)
EXTENDS AccountSessions, TLC

Interchangeable == Permutations(Worker) \cup Permutations(Window)

(* The moves that differ in what they may do to another's session: stop it *)
(* and archive the source's copy, delete that unstopped, or keep both.     *)
KindsOfMove ==
  {o \in Options : /\ o.resume
                   /\ o.confirm <=> o.after = "keep"
                   /\ o.stopFirst <=> o.after = "archive"}

(* Moves that take the session out of its account and start it in the      *)
(* other, the ones with the most steps, stopping it first or not.          *)
FullMove == {o \in Options : ~o.confirm /\ o.after = "delete" /\ o.resume}
=============================================================================
