\* Two executions of one runtime, the second of which panics, and one fault.
CONSTANTS
    e1 = e1
    e2 = e2
    NoExec = NoExec
    Exec <- MCExec
    Answered <- MCAnswered
    Panics <- MCPanics
    MaxFaults = 1
SPECIFICATION FairSpec
INVARIANTS
    TypeOK
    ViewIsPast
    FailureIsTolerated
    FirstBeatInTime
    LossDetected
PROPERTIES
    AlarmClears
