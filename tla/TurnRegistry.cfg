\* Two handlers on the turns of a registry that holds one, and drops an ended
\* turn when a tick has passed.
CONSTANTS
    t1 = t1  t2 = t2  t3 = t3
    w1 = w1  w2 = w2
    Turns <- TwoTurns
    Waiters <- TwoWaiters
    TTL = 0
    MaxTurns = 1
    MaxTime = 2
SPECIFICATION FairSpec
INVARIANTS RunningIsRegistered NoLostWakeup RunningOnlyAtDeadline
PROPERTIES EndIsForever RegistryBounded EndIsSeen WaitReturns
CHECK_DEADLOCK FALSE
