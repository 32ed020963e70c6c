------------------------------ MODULE MCInstall ------------------------------
(* Install with two or three attempts, one after the other. *)
EXTENDS Install, TLC

CONSTANTS a1, a2, a3

TwoAttempts == {a1, a2}
ThreeAttempts == {a1, a2, a3}
Symmetry == Permutations(Attempts)
=============================================================================
