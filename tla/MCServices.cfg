CONSTANTS
    a1 = a1
    a2 = a2
    a3 = a3
    b1 = b1
    c1 = c1
    d1 = d1
    r1 = r1
    r2 = r2
    r3 = r3
    pa = pa
    pb = pb
    pc = pc
    pd = pd
    Linux = Linux
    Crates = Crates
    Sparse = Sparse
    Elsewhere = Elsewhere
    x = x
    y = y
    z = z
    w = w
    q = q
    core = core
    NoRegistry = NoRegistry
    Builtin = Builtin
    BuiltinCrates = {core}
    NoTarget = NoTarget
    NoOne = NoOne
    MaxReaders = 1
    Versions = {a1, a2, a3, b1, c1, d1}
    Order <- MCOrder
    Package <- MCPackage
    Requests = {r1, r2, r3}
    Capacity = 2
    BufferSize = 2
    SeriesLength = 3
    DaysInYear = 5
    Kept = 1
    Deprecated = {pd}
    Unlisted = {a3}
    Targets <- MCTargets
    Host = Linux
    Directs <- MCDirects
    Protocol <- MCProtocol
    CratesIo = Crates
    Catalog <- MCCatalog
    Advisories <- MCAdvisories
    NotifyOutdated = FALSE
    NotifyCves = TRUE
    MaxFaults = 1
    Starts <- MCStarts
SPECIFICATION Spec
INVARIANTS IInv GraphIsClosed ChangesAreMailed SeriesAgrees
PROPERTIES HeadsAreAnalysed FlagsFollowAdvisories DownloadsCounted RequestsAnswered
CHECK_DEADLOCK FALSE
