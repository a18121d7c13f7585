CONSTANTS
    None = None
    Callers = {alice, root}
    Admins = {root}
    Versions = {v1, v2}
    Contents = {x}
    ManyFeatures = {x}
    Names = {lower}
    Lowercase = lower
    Removable = {TRUE}
    Failures = {}
    MaxFailures = 0
SPECIFICATION FairSpec
INVARIANTS IInv IndexIsSound HeadIsFile
PROPERTIES EveryCallAnswers AcceptedIsListed
