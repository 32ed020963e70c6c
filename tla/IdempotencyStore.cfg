\* Three claims against a limit of one reply, so that the limit and the TTL
\* both take replies away, with one lookup between its two steps.
CONSTANTS
    i1 = i1  i2 = i2  i3 = i3
    p1 = p1  p2 = p2
    t1 = t1  t2 = t2  t3 = t3
    r1 = r1
    NoTurn = NoTurn
    NoPayload = NoPayload
    Ids <- MCIds
    Payloads <- MCPayloads
    Turns <- MCTurns
    Readers <- MCReaders
    ReplyTTL = 1
    MaxReplies = 1
    MaxTime = 4
SYMMETRY Symmetry
SPECIFICATION Spec
INVARIANTS RepliesBounded NotDroppedEarly
PROPERTIES FinalIsForever KeepsItsPromise
CHECK_DEADLOCK FALSE
