CONSTANTS
    t1 = t1
    t2 = t2
    w1 = w1
    w2 = w2
    None = None
    Versions = {v1}
    Targets = {t1}
    DefaultTarget = t1
    Handlers = {h1}
    Workers = {w1}
    Serves <- MCServes
    MaxJobs = 2
    MaxCrashes = 1
    MaxFaults = 1
SPECIFICATION FairSpec
INVARIANTS SuccessIsRendered IInv
PROPERTIES FinalIsForever WorkerComesBack
CHECK_DEADLOCK FALSE
