\* All four kinds of Operation, two calls to a Turn, every kind of failure, and
\* postings that name their Thing.  Eight rows of headroom: a Turn that starts
\* below the limit may write two errors and two calls before it suspends.
CONSTANTS
    a1 = a1
    NoArgs = NoArgs
    Args <- OneArg
    Replies <- Mixed
    MaxTurns = 2
    TurnGrant = 1
    MaxEscalations = 1
    LlmMaxAttempts = 2
    MaxEntries = 14
    EntryHeadroom = 8
    Tagged = TRUE
    Faults = {"crash", "llm", "refused", "lost", "blind", "switch", "assistant", "delete"}
    MaxCrashes = 1
    MaxEdits = 2
SPECIFICATION FairSpec
INVARIANTS
    AtMostOneUnresolved
    DoneMeansSettled
    
    CallsAreAnswered
    ReceiptIsOwn
PROPERTIES
    TranscriptOnlyGrows
    
    NothingStaysRunning
CHECK_DEADLOCK FALSE
