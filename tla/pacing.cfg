CONSTANTS
    Delays = {1, 2}
    PausesAtEnd = 10
    LongestStall = 2
    MaxFailures = 1
SPECIFICATION Spec
INVARIANTS TypeOK BurstBounded
