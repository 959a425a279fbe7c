CONSTANTS
    Recordings <- ShortRecordings
    MaxClients = 3
SPECIFICATION FairSpec
INVARIANTS TypeOK RightUntilAgain
PROPERTIES BackupSurvivesClient TransferFreesBoard
