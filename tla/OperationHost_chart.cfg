SPECIFICATION Spec
CONSTANTS
    w1 = w1
    w2 = w2
    Workers = {w1, w2}
    Names <- MCNames
    Fold <- MCFold
    Internal = {"initial-balance"}
    InUse = {"createAccount", "getBalance", "listAccounts"}
    Timeout = 1
    Ttl = 1
    MaxTime = 3
    MaxRuns = 3
    MaxByHand = 1
SYMMETRY MCSymmetry
INVARIANTS
    CreatedIsResolvable
    NeverGuesses
CHECK_DEADLOCK FALSE
