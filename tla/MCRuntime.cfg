\* Two executions: one with 300 s, one with 0.5 s and no entrypoint.
CONSTANTS
    e1 = e1
    e2 = e2
    NoExec = NoExec
    Faults = TRUE
    Exec <- MCExec
    HasEntrypoint <- OneEntrypoint
    TimeoutTenths <- MCTimeouts
SPECIFICATION FairSpec
INVARIANTS
    TypeOK
    SucceededIsGenuine
    ProcessAttended
    IterationStable
PROPERTIES
    RunReturns
    ImplementsLifecycle
