\* The Authority books the posting and its answer is lost.
CONSTANTS
    a1 = a1
    NoArgs = NoArgs
    Args <- OneArg
    Replies <- PostOnly
    MaxTurns = 4
    TurnGrant = 1
    MaxEscalations = 1
    LlmMaxAttempts = 1
    MaxEntries = 14
    EntryHeadroom = 5
    Tagged = FALSE
    Faults = {"lost"}
    MaxCrashes = 2
    MaxEdits = 3
SPECIFICATION Spec
INVARIANTS
    OneBookingPerYes
CHECK_DEADLOCK FALSE
