--------------------------- MODULE MCTurnRegistry ---------------------------
(* TurnRegistry with model values for turns and waiters. *)
EXTENDS TurnRegistry, TLC

CONSTANTS t1, t2, t3, w1, w2

TwoTurns == {t1, t2}
ThreeTurns == {t1, t2, t3}
OneWaiter == {w1}
TwoWaiters == {w1, w2}

Symmetry == Permutations(Turns) \cup Permutations(Waiters)
=============================================================================
