CONSTANTS
    Targets = {2, 12, 50}
    HighestDelay = 30
    FullLoss = 40
    Threshold = 3
    SlowerNum = 25
    SlowerDen = 24
    FasterNum = 5
    FasterDen = 6
    History = 25
    Losses = {1, 10, 19}
    MaxReports = 2
SPECIFICATION FairSpec
INVARIANTS TypeOK
PROPERTIES NoSpeedUpInRange Recovers BacksOff
