\* Three Things of two Models within three seconds, made by the User, by the post or
\* by a Conversation that may stay open for ever; a Model whose query may fail.
CONSTANTS
    doc = doc
    inv = inv
    clerk = clerk
    accountant = accountant
    Models <- TwoModels
    Assistants = {clerk}
    TriggersOn <- ClerkOnBoth
    PageSize = 2
    MaxBirths = 4
    MaxThings = 3
    MaxPerSecond = 1
    MaxNow = 3
    MaxHours = 0
    MaxEdits = 0
    MaxStops = 1
    MaxCalls = 0
    Demo = FALSE
    Faults = {"query"}
SPECIFICATION FairSpec
INVARIANTS
    NothingPassedOver
PROPERTIES
    NeverFeedsOnItself
    EveryThingIsDecided
CHECK_DEADLOCK FALSE
