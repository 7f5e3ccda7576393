SPECIFICATION Spec
CONSTANTS
    Refs = {1, 2, 3, 4, 5, 6, 7}
    Runs = {"bootstrap", "demo", "turn"}
    Operations = {"thingstore.create", "thingstore.update", "thingstore.get", "thingstore.search", "ui.askUser", "bank.sendMoney", "document.extractText", "document.readScan", "email.receive", "postTransaction"}
    Edits = {"decision", "text", "rows", "pause", "journal"}
    Faults = {"lost", "failed", "crash"}
    MaxStarts = 3
    MaxFaults = 1
    MaxEdits = 2
INVARIANTS
    
    PausedAsWished

    
CHECK_DEADLOCK FALSE
