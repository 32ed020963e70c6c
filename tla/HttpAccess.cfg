\* Two requests of the owner or two grants around one session; silent companion.
CONSTANTS
    g1 = g1  g2 = g2
    chat = chat  install = install
    s1 = s1
    r1 = r1  r2 = r2
    Owner = Owner
    NoCred = NoCred
    NoSession = NoSession
    Grants <- TwoGrants
    Tools <- MCTools
    OwnerOnly <- MCOwnerOnly
    granted <- MCGranted
    expiresAt <- MCExpiresAt
    Sessions <- OneSession
    Requests <- TwoRequests
    NoticeTimeout = 1
    MaxTime = 2
SPECIFICATION FairSpec
INVARIANTS SessionKeepsIdentity ResultsAreGranted
PROPERTIES InitializeAnswered
CHECK_DEADLOCK FALSE
