\* Two Assistants on one Model, called by Turns as well, a budget that runs out between
\* two births, and the RuntimeState shared with `just pause` and the demo loader.
CONSTANTS
    doc = doc
    inv = inv
    clerk = clerk
    accountant = accountant
    Models <- OneModel
    Assistants = {clerk, accountant}
    TriggersOn <- BothOnDoc
    PageSize = 2
    MaxBirths = 1
    MaxThings = 2
    MaxPerSecond = 1
    MaxNow = 2
    MaxHours = 1
    MaxEdits = 2
    MaxStops = 1
    MaxCalls = 1
    Demo = TRUE
    Faults = {"reread", "stamp"}
SPECIFICATION Spec
INVARIANTS
    BornOnce
    KillSwitchKept

    
SYMMETRY Interchangeable
CHECK_DEADLOCK FALSE
