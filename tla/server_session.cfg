CONSTANTS
    FileSizes = {0, 3}
    MaxTransfers = 2
    MaxRequests = 2
    Networks = {{"splits"}, {"delays"}}
SPECIFICATION FairSpec
INVARIANTS TypeOK DatagramHoldsBlock RequestsInOrder NameSurvives StreamInStep
PROPERTIES ClientIsServed DeadClientEndsTransfer
