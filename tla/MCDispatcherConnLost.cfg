\* The broker connection may be lost; nothing dials again.
CONSTANTS
    m1 = m1
    m2 = m2
    bad = bad
    j1 = j1
    ghost = ghost
    None = None
    Msg <- MCMsg
    Garbled <- MCGarbled
    Job <- MCJob
    StoredJob <- MCStoredJob
    JobOf <- OneUnknown
    MaxWorkers = 1
    MaxAttempts = 2
    MaxLives = 2
    ConnMayDrop = TRUE
SPECIFICATION FairSpec
\* Once everything published has been worked through the system may stop.
CHECK_DEADLOCK FALSE
PROPERTIES
    Drains
