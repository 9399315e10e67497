SPECIFICATION Spec
CONSTANTS
    r1 = r1
    r2 = r2
    Requests <- TwoRequests
    Lengths = {0, 1, 2}
    MaxCalls = 3
INVARIANTS TypeOK BackupIsLastCall MixedOnlyIfOverlapped
SYMMETRY Symmetry
CHECK_DEADLOCK FALSE
