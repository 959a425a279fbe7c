CONSTANTS
    ListSizes = {0}
    Hook = FALSE
    MaxCommands = 1
    MaxFeedback = 1
SPECIFICATION FairSpec
PROPERTIES FailureIsSignalled
