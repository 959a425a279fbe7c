CONSTANTS
    N = 3
    BlockCount = 5
    DiskMayFail = TRUE
    MayAbort = TRUE
SPECIFICATION FairSpec
INVARIANTS
    TypeOK
    FlagsMatchCounts
    NoLostWakeup
    SlotsDisjoint
    LoopNeverBlocks
PROPERTIES ImplementsBlockQueue ServesBlockQueue ShutdownCompletes
\* A disk thread that has failed leaves the ring full and the network thread,
\* in rttsunami even in the middle of a transfer,
\* stuck; that neither gets stuck otherwise is what ShutdownCompletes says.
CHECK_DEADLOCK FALSE
