SPECIFICATION FairSpec
CONSTANTS
    Requests = {1, 2}
    Hosts = {h1}
    NoHost = NoHost
    SlugOf <- MCSlugOf
    Council = {2}
    LeaseSeconds = 2
    GraceSeconds = 1
    FenceSeconds = 1
    KillSeconds = 1
    RestartSeconds = 1
    ExpireSeconds = 3
    MaxCrashes = 2

PROPERTY EveryRequestSettles
