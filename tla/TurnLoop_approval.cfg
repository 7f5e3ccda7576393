\* One booking asked for again and again, two calls to a Turn, crashes anywhere,
\* the Authority refusing, answers changed and questions deleted.
CONSTANTS
    a1 = a1
    NoArgs = NoArgs
    Args <- OneArg
    Replies <- PostTwice
    MaxTurns = 5
    TurnGrant = 1
    MaxEscalations = 1
    LlmMaxAttempts = 1
    MaxEntries = 18
    EntryHeadroom = 3
    Tagged = FALSE
    Faults = {"crash", "refused", "delete"}
    MaxCrashes = 2
    MaxEdits = 4
SPECIFICATION Spec
INVARIANTS
    IntentIsDurable
    BookingHasYes
    OneBookingPerYes
    
PROPERTIES
    ImplementsApprovedLedger
CHECK_DEADLOCK FALSE
