\* Overlapping beats, lost answers and changing directives: do scheduler and
\* agent stay in step, and does the agent end up where it is told to be?
SPECIFICATION FairSpec
CONSTANTS
    Slots = {s1, s2}
    Responses <- MCResponses
    Versions = {"v1", "v2"}
    PolicyVersions = {"p1", "p2"}
    AgentVersion = "v1"
    Upgrades = {u1, u2}
    Null = Null
    Undefined = Undefined
INVARIANTS
    KillSwitchInStep
    TargetInStep
    UpgradeReportedAtMostOnce
PROPERTIES
    KillSwitchSettles
    TargetSettles
