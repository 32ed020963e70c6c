\* What the unknown_turn message promises, against what eviction does.
CONSTANTS
    t1 = t1  t2 = t2  t3 = t3
    w1 = w1  w2 = w2
    Turns <- ThreeTurns
    Waiters <- OneWaiter
    TTL = 1
    MaxTurns = 2
    MaxTime = 3
SPECIFICATION Spec
INVARIANTS KeptForTTL
CHECK_DEADLOCK FALSE
