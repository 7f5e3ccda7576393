\* Two nights, three Triggers of two Assistants, one birth an hour.
SPECIFICATION FairSpec
CONSTANTS
    Last = 6
    WallClock <- TwoNights
    Triggers <- Nightly
    Assistants = {"clerk", "accountant"}
    MaxBirths = 1
    Hour = 2
    MaxCrashes = 1
    MaxEdits = 1
INVARIANTS
    OncePerSlot
    OneAtATime
    CatchUpOnce
PROPERTIES
    SlotIsServed
