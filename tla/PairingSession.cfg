SPECIFICATION FairSpec
CONSTANTS
    Runs = {r1, r2}
    Calls = {c1, c2}
    Links = {l1}
    Rescans = FALSE
    Capacity = 1
    None = None
CHECK_DEADLOCK FALSE
INVARIANTS
    ComparedIsConfirmed
    DismissedTransfersNothing
    ActiveIsAlive
PROPERTIES
    CancelledEnds
