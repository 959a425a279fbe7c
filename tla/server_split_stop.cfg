CONSTANTS
    FileSizes = {2}
    MaxTransfers = 1
    MaxRequests = 1
    Networks = {{"splits", "delays"}}
SPECIFICATION Spec
INVARIANTS StopsAreObeyed
