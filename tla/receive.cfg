CONSTANTS
    BlockCount = 5
    MaxRetransmission = 3
    TableLimit = 5
    OnWireEstimate = 2
    Width = 64
    Sessions <- EverySession
SPECIFICATION Spec
INVARIANTS
    TypeOK BlocksLeftCounts MissingIsTracked LosslessIsComplete
    NothingLeftPastGapless
PROPERTIES AsksForMissing RestartsSkipNothing
