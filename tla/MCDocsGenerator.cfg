CONSTANTS
    t1 = t1
    t2 = t2
    w1 = w1
    w2 = w2
    None = None
    Versions = {v1}
    Targets = {t1, t2}
    DefaultTarget = t1
    Handlers = {h1, h2}
    Workers = {w1}
    Serves <- MCServes
    MaxJobs = 2
    MaxCrashes = 0
    MaxFaults = 0
SPECIFICATION FairSpec
INVARIANTS TypeOK OneJobInFlight MissingIsQueued WorkingIsWorkedOn
PROPERTIES TableIsAQueue EveryJobEnds
CHECK_DEADLOCK FALSE
