\* An install after one that was interrupted.
CONSTANTS
    a1 = a1  a2 = a2  a3 = a3
    Old = Old
    Legacy = Legacy
    Linked = Linked
    Absent = Absent
    Off = Off
    Attempts <- TwoAttempts
    Sigkill = FALSE
SYMMETRY Symmetry
SPECIFICATION Spec
INVARIANTS CommittedIsCurrent
CHECK_DEADLOCK FALSE
