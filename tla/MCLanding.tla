------------------------------ MODULE MCLanding ------------------------------
(* Small instances of Landing for TLC. *)
EXTENDS Landing, TLC

CONSTANTS a, b, x

One(p, v) == p :> v

\* Two records that are each fine and together refused.
RaceChanges == {One(a, x), One(b, x)}
RaceForbidden == {(a :> x) @@ (b :> x)}

\* A record, and a changeset that moves it to the other path.
MoveChanges == {One(a, x), (a :> Absent) @@ (b :> x)}

CloneSymmetry == Permutations(Clones)
=============================================================================
