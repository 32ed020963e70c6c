\* Any call beside one that appends to the persona or deletes a session.
CONSTANTS
    c1 = c1  c2 = c2  s1 = s1  s2 = s2  s3 = s3  p1 = p1  p2 = p2
    full = full  scoped = scoped  wide = wide
    Sessions <- MCSessions
    Projects <- MCProjects
    All = All
    ProjectOf <- MCProjectOf
    ProjectRank <- MCProjectRank
    Position <- MCPosition
    Activity <- MCActivity
    MaxLimit = 2
    MaxWindow = 3
    Calls <- MCCalls
    Scenes <- MCScenes
    Owner = Owner
    Grants <- MCGrants
    Allowed <- MCAllowed
    Unscoped <- MCUnscoped
    Scope <- MCScope
    Temporary <- MCTemporary
    None = None
    main = p1
    Limits <- MCLimits
    Offsets <- MCOffsets
    Keys = {k1, k2}
    FirstKey = k1
    NoKey = NoKey
SPECIFICATION FairSpec
INVARIANTS TypeOK InScope AnswersTell PagesAreSlices AppendsAdd
PROPERTIES FreshKeys PanelCallsEnd
CHECK_DEADLOCK FALSE
