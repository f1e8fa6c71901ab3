\* Two calls find the worker asleep; no failure and no intervention.
CONSTANTS
    c1 = c1
    c2 = c2
    Call <- MCCall
    MaxReplicas = 2
    MaxOps = 0
    ApiErrors = FALSE
    SlowPods = FALSE
SPECIFICATION FairSpec
\* Once every call has ended and the cluster has settled the system stops.
CHECK_DEADLOCK FALSE
PROPERTY
    RoutedToPod
