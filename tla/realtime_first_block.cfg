CONSTANTS
    Recordings <- ShortRecordings
    MaxClients = 1
SPECIFICATION Spec
INVARIANTS HoldsGivenBlock
