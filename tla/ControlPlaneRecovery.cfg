\* Does an agent that was killed catch up once the kill switch is lifted?
SPECIFICATION FairSpec
CONSTANTS
    Beats = {b1, b2}
    Responses <- MCKillResponses
    Versions = {}
    PolicyVersions = {"p1", "p2"}
    AgentVersion = "v1"
    Upgrades = {}
    Null = Null
    Undefined = Undefined
    Policies <- MCPolicies
    NoPolicy = NoPolicy
    Fetches = {f1}
    BootMode = "monitor"
    ReportCap = 1
    Published <- MCPublished
PROPERTY RecoveryIsAutomatic
