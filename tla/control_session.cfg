CONSTANTS
    ListSizes = {0, 1, 3}
    Hook = TRUE
    MaxCommands = 5
    MaxFeedback = 2
SPECIFICATION FairSpec
INVARIANTS TypeOK InStep NoMutualWait
PROPERTIES CommandEnds ClosedEndsServer
