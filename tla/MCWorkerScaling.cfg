\* Two calls, an operator who intervenes twice, every failure.
CONSTANTS
    c1 = c1
    c2 = c2
    Call <- MCCall
    MaxReplicas = 2
    MaxOps = 2
    ApiErrors = TRUE
    SlowPods = TRUE
SPECIFICATION CallSpec
\* Once every call has ended and the cluster has settled the system stops.
CHECK_DEADLOCK FALSE
INVARIANTS
    TypeOK
    OneWaker
PROPERTIES
    CallsOnlyWake
    CallsEnd
    ImplementsWakeUp
