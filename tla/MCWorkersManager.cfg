CONSTANTS
    linux = linux
    windows = windows
    gpu = gpu
    w1 = w1
    w2 = w2
    w3 = w3
    j1 = j1
    j2 = j2
    j3 = j3
    None = None
    Targets = {linux, windows}
    Capabilities = {gpu}
    Workers = {w1, w2, w3}
    Requesters = {r1, r2, r3}
    Jobs = {j1, j2, j3}
    Descriptor <- MCDescriptor
    Spec_of <- MCSpec_of
SPECIFICATION Spec
INVARIANTS IInv TypeOK CheckoutConsistent ExclusiveCheckout SleepingIsQueued
PROPERTIES RemovedStaysRemoved ImplementsPool
CHECK_DEADLOCK FALSE
