------------------------- MODULE MCIdempotencyStore -------------------------
(* IdempotencyStore on a few claims: the reply limit, the TTL and a lookup *)
(* in progress all bite within MaxTime.                                    *)
EXTENDS IdempotencyStore, TLC

CONSTANTS i1, i2, i3, p1, p2, t1, t2, t3, r1

MCIds == {i1, i2, i3}
MCPayloads == {p1, p2}
MCTurns == {t1, t2, t3}
MCReaders == {r1}

Symmetry == Permutations(MCIds) \cup Permutations(MCPayloads) \cup Permutations(MCTurns)
=============================================================================
