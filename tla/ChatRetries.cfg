\* Two calls of chat_send that may share a key, in two processes that crash.
CONSTANTS
    p1 = p1  p2 = p2
    s1 = s1  s2 = s2  s3 = s3
    w1 = w1  x1 = x1
    cr1 = cr1  cr2 = cr2
    k1 = k1
    pl1 = pl1  pl2 = pl2
    NoTurn = NoTurn
    NoKey = NoKey
    None = None
    Procs <- TwoProcs
    Sends <- TwoSends
    Waits <- NoCalls
    Cancels <- NoCalls
    Creds <- OneCred
    Keys <- OneKey
    Payloads <- TwoPayloads
SYMMETRY Symmetry
SPECIFICATION Spec
INVARIANTS AtMostOnce RefusedNeverSent AnswersAgree
PROPERTIES KeepsItsPromise
CHECK_DEADLOCK FALSE
