\* Six Conversations, two to a second; the first page is full of rows that can never
\* be continued; pages of two, two pages to a pass.
CONSTANTS
    Rows = {1, 2, 3, 4, 5, 6}
    CreatedAt <- TwoPerSecond
    PageSize = 2
    MaxPages = 2
    Stuck = {1, 2}
    MaxRestarts = 1
SPECIFICATION FairSpec
INVARIANTS
    SweepSkipsNothing

    
CHECK_DEADLOCK FALSE
