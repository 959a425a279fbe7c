CONSTANTS
    BlockCount = 3
    MaxRetransmission = 4
    TableLimit = 5
    OnWireEstimate = 1
    LossWindows = {1, 2}
    Width = 64
    MaxUnread = 3
    MaxInFlight = 2
SPECIFICATION FairSpec
INVARIANTS TypeOK
PROPERTIES CopiesFile CopyCompletes
