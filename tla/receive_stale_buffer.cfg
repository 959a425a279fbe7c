CONSTANTS
    BlockCount = 4
    MaxRetransmission = 2
    TableLimit = 8
    OnWireEstimate = 1
    Width = 64
    Sessions <- LosslessSession
SPECIFICATION Spec
INVARIANTS NoneLost
