\* No external crash: what the runtime itself does to a process.
CONSTANTS
    e1 = e1
    e2 = e2
    NoExec = NoExec
    Faults = FALSE
    Exec <- MCExec
    HasEntrypoint <- OneEntrypoint
    TimeoutTenths <- MCTimeouts
SPECIFICATION Spec
INVARIANT SignalledOnlyOnTimeout
