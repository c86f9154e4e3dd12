--------------------------- MODULE MCOrchestrator ---------------------------
(* Small instances of Orchestrator for TLC. *)
EXTENDS Orchestrator, TLC

CONSTANTS i1, i2, i3

\* The enumerator's list grows, shrinks and changes its order between runs.
OneKindLists == [k \in Kinds |-> {<<i1, i2>>, <<i2, i1, i3>>}]
OneItemLists == [k \in Kinds |-> {<<i1>>}]

KindSymmetry == Permutations(Kinds)
=============================================================================
