CONSTANTS
    None = None
    Callers = {alice, bob}
    Admins = {alice, bob}
    Versions = {v1, v2}
    Contents = {x}
    ManyFeatures = {}
    Names = {lower}
    Lowercase = lower
    Removable = {TRUE}
    Failures = {"storage", "git", "client"}
    MaxFailures = 1
SPECIFICATION Spec
INVARIANTS IInv NeverRemovedIsSound CommitsAreSound JobHasCrate
SYMMETRY MCSymmetry
