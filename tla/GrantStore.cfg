\* Two issues and two revokes of one grant, against a request.
CONSTANTS
    i1 = i1  i2 = i2
    v1 = v1  v2 = v2
    r1 = r1
    NoOp = NoOp
    Issues <- MCIssues
    Revokes <- MCRevokes
    target <- MCTarget
    Requests <- MCRequests
SPECIFICATION FairSpec
INVARIANTS ReportedIsKept RevokedIsRefused
PROPERTIES NothingUndone CommandsEnd
CHECK_DEADLOCK FALSE
