\* Do inspection, enforcement, journal and export of a request agree?
SPECIFICATION Spec
CONSTANTS
    Requests = {r1}
    Ids = {own, other}
    OwnIds = {own}
    MaxQueries = 2
    FanOut = 1
    Directives <- MCDirectives
INVARIANTS
    CountedOnce
    EventTellsEnforcement
PROPERTIES
    JournaledUnlessFlattened
    KilledAddsNothing
