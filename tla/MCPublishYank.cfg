CONSTANTS
    None = None
    Callers = {alice, root}
    Admins = {root}
    Versions = {v1, v2}
    Contents = {x1, x2}
    ManyFeatures = {x2}
    Names = {lower}
    Lowercase = lower
    Removable = {TRUE}
    Failures = {}
    MaxFailures = 0
SPECIFICATION FairSpec
INVARIANT YankedIsInIndex
