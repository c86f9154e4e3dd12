---------------------------- MODULE MCThemeCycle ----------------------------
(* Small instances of ThemeCycle for TLC. *)
EXTENDS ThemeCycle, TLC

CONSTANTS e1, e2, d1, d2

DigestSymmetry == Permutations(Digests)
=============================================================================
