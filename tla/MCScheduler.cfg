\* One image twice and its twin once, two faults, one deletion.
CONSTANTS
    c1 = c1
    c2 = c2
    c3 = c3
    img = img
    twin = twin
    other = other
    slug = slug
    slug2 = slug2
    wardu = wardu
    team = team
    ghost = ghost
    Boot = Boot
    None = None
    Call <- MCCall
    Image <- MCImage
    Slug <- MCSlug
    SlugOf <- MCSlugOf
    Namespace <- MCNamespace
    Default = wardu
    Request <- OneTeam
    MaxFaults = 2
    MaxOps = 1
SPECIFICATION FairSpec
\* Once every call has been answered the scheduler just serves.
CHECK_DEADLOCK FALSE
INVARIANTS
    TypeOK
    JobsAreRunnable
    QueuedIsStored
    DefaultIsLimited
PROPERTIES
    BootRecovers
    ImplementsIntake
