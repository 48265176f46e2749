---- MODULE MCProfiles ----
EXTENDS Profiles
CONSTANTS p1, p2, p3, p4, a, b, c, x, y, c1, c2

\* Two names with a slug in common, and one with a slug of its own.
Slugs2 == (a :> x) @@ (b :> x) @@ (c :> y)

\* One profile whose launcher is a wrapper, one whose launcher is a script.
AtStart == (p1 :> [name |-> a, surfaces |-> Surfaces, icon |-> TRUE])
               @@ (p2 :> [name |-> c, surfaces |-> Surfaces, icon |-> FALSE])

JustTheWrapper == {a}

BothSurfaces == {Surfaces}

Symmetry == Permutations({p3, p4}) \cup Permutations({c1, c2})
====
