\* Two mails of any kind, one or two to a poll, through either connector; one failure or
\* crash, and two acts of the User.
CONSTANTS
    Transports = {"imap", "gmail"}
    Kinds <- Post
    BatchSizes = {1, 2}
    MaxMessageBytes = 3
    MaxTotalBytes = 2
    MaxText = 3
    MaxMails = 2
    MaxFaults = 1
    MaxEdits = 2
SPECIFICATION FairMailSpec
INVARIANTS
    ProcessedHasLanded
    OneDocumentPerPart
PROPERTIES
    EveryMailIsFiled
CHECK_DEADLOCK FALSE
