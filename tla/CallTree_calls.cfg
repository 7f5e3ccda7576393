\* Three calls in any mode, two crashes, the callee switched off and on, the caller deleted.
CONSTANTS
    None = None
    MaxCalls = 3
    Modes = {"wait", "chase", "detach"}
    MaxCrashes = 2
    MaxEdits = 2
SPECIFICATION FairSpec
INVARIANTS
    DeliveredIsTold
    OneChildPerCall
PROPERTIES
    WaitIsOver
CHECK_DEADLOCK FALSE
