\* One image from two namespaces; nothing fails and nobody intervenes.
CONSTANTS
    c1 = c1
    c2 = c2
    c3 = c3
    img = img
    twin = twin
    other = other
    slug = slug
    slug2 = slug2
    wardu = wardu
    team = team
    ghost = ghost
    Boot = Boot
    None = None
    Call <- MCCall
    Image <- MCImage
    Slug <- MCSlug
    SlugOf <- MCSlugOf
    Namespace <- MCNamespace
    Default = wardu
    Request <- TwoTeams
    MaxFaults = 0
    MaxOps = 0
SPECIFICATION Spec
\* Once every call has been answered the scheduler just serves.
CHECK_DEADLOCK FALSE
PROPERTY
    NamespacesIsolated
