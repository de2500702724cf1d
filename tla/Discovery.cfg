\* What is reported of the traffic, with overlapping flushes.
SPECIFICATION FairSpec
CONSTANTS
    r1 = r1
    r2 = r2
    r3 = r3
    k1 = k1
    k2 = k2
    Requests = {r1, r2, r3}
    MaxRequests = 2
    Endpoints = {k1, k2}
    EndpointOf <- MCEndpointOf
    Flushes = {f1, f2}
    MaxBatch = 1
INVARIANTS
    CountedAtMostOnce
    ReportsConsistent
PROPERTIES
    EveryBatchSent
    WindowDrains
