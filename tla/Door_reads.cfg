SPECIFICATION Spec
CONSTANTS
    Code <- MCCode
    Configured = {"bookkeeping"}
    Writers = {"createAccount"}
    Subjects = {"one", "two"}
    Pages = {"transactions", "rpc", "counts", "assistants", "thing", "name", "attachment"}
    DoorOps = {"listTransactions", "createAccount"}
    MaxAsks = 2
    MaxEdits = 1
INVARIANTS
    DoorStaysReadOnly
    
    ShownIsAsked
PROPERTIES
    LoadingEnds
CHECK_DEADLOCK FALSE
