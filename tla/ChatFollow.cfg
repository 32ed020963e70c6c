\* One turn, followed and cancelled by two credentials; the process crashes.
CONSTANTS
    p1 = p1  p2 = p2
    s1 = s1  s2 = s2  s3 = s3
    w1 = w1  x1 = x1
    cr1 = cr1  cr2 = cr2
    k1 = k1
    pl1 = pl1  pl2 = pl2
    NoTurn = NoTurn
    NoKey = NoKey
    None = None
    Procs <- OneProc
    Sends <- OneSend
    Waits <- OneWait
    Cancels <- OneCancel
    Creds <- TwoCreds
    Keys <- OneKey
    Payloads <- OnePayload
SPECIFICATION FairSpec
INVARIANTS AnswersAgree OwnTurnsOnly
PROPERTIES CancelStopsAgent
CHECK_DEADLOCK FALSE
