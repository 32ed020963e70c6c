\* Three attempts that fail or are killed anywhere.
CONSTANTS
    a1 = a1  a2 = a2  a3 = a3
    Old = Old
    Legacy = Legacy
    Linked = Linked
    Absent = Absent
    Off = Off
    Attempts <- ThreeAttempts
    Sigkill = TRUE
SYMMETRY Symmetry
SPECIFICATION Spec
INVARIANTS TypeOK CurrentUsable RollbackRestores Recoverable StoppedStaysStopped CommitActivates
CHECK_DEADLOCK FALSE
