\* Two pushes of one job and an unparsable message, one slot, one restart.
CONSTANTS
    m1 = m1
    m2 = m2
    bad = bad
    j1 = j1
    ghost = ghost
    None = None
    Msg <- MCMsg
    Garbled <- MCGarbled
    Job <- MCJob
    StoredJob <- MCStoredJob
    JobOf <- TwoPushes
    MaxWorkers = 1
    MaxAttempts = 4
    MaxLives = 2
    ConnMayDrop = TRUE
SPECIFICATION FairSpec
\* Once everything published has been worked through the system may stop.
CHECK_DEADLOCK FALSE
INVARIANTS
    TypeOK
    SlotConservation
    CreditOwned
    HandedOver
    RegisteredIsRunning
    OneAttemptPerLife
    RunningIsAccountedFor
    NeverStalled
PROPERTIES
    RowsSettleOnce
    ImplementsDelivery
    DrainsWhileConnected
