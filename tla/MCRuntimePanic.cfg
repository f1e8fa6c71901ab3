\* No external crash; one request has no entrypoint.
CONSTANTS
    e1 = e1
    e2 = e2
    NoExec = NoExec
    Faults = FALSE
    Exec <- MCExec
    HasEntrypoint <- OneEntrypoint
    TimeoutTenths <- MCTimeouts
SPECIFICATION Spec
PROPERTY EntriesEndOnTheirOwn
