--------------------------- MODULE MCRunContext ----------------------------
(* Small instances of RunContext for TLC. *)
EXTENDS RunContext, TLC

CONSTANTS m1, m2

\* The configuration names m1 for every alias, whatever the gateway serves.
HintM1 == [a \in Aliases |-> m1]

RunSymmetry == Permutations(Runs)
=============================================================================
