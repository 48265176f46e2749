------------------------------ MODULE MCRevive ------------------------------
(* Revive on a small instance: two sessions, each of an account of its own. *)
EXTENDS Revive, TLC

CONSTANTS a1, a2, s1, s2

OneEach == s1 :> a1 @@ s2 :> a2
=============================================================================
