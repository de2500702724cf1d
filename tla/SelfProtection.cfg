\* Which intervals does an agent keep, when start(), stop() and the kill switch
\* come in any order; and does its watchdog notice what happens to the hooks?
SPECIFICATION FairSelfProtectionSpec
CONSTANTS
    Beats = {b1}
    MaxStarts = 2
    selfProtect = TRUE
    instrumentDb = TRUE
    pg = pg
    client = client
    pool = pool
    Drivers = {pg}
    Methods = {client, pool}
    MethodsOf <- MCMethodsOf
    MaxAssignments = 2
INVARIANTS
    WatchdogInStep
    NothingOutOfReach
    RecordedOnce
    NoFalseAlarm
PROPERTIES
    TamperNoticed
CHECK_DEADLOCK FALSE
