\* Two submissions and a push of either, any of three bodies and four overrides.
CONSTANTS
    c1 = c1
    c2 = c2
    p1 = p1
    a = a
    b = b
    null = null
    nil = nil
    default = default
    DefaultTimeout = default
    Zero = Zero
    None = None
    Absent = nil
    Null = null
    Value <- MCValue
    Call <- MCCall
    Push <- MCPush
    Requests <- MCRequests
    Overrides <- MCOverrides
SPECIFICATION Spec
\* Once every submission and push has been dealt with the system may stop.
CHECK_DEADLOCK FALSE
INVARIANTS
    TypeOK
    RunsAsAsked
    AcceptedIsDone
PROPERTIES
    RowsKeepSubmission
    ImplementsIntake
