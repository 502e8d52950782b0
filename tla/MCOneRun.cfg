SPECIFICATION Spec
CONSTANTS
    Requests = {1, 2}
    Hosts = {h1, h2}
    NoHost = NoHost
    SlugOf <- MCSlugOf
    Council = {}
    LeaseSeconds = 2
    GraceSeconds = 1
    FenceSeconds = 1
    KillSeconds = 1
    RestartSeconds = 1
    ExpireSeconds = 1
    MaxCrashes = 1
SYMMETRY MCSymmetry
INVARIANTS TypeOK LiveRunIsHeld ThreeStartsAtMost OneRunPerCustomer
