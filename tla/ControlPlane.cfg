\* The composition implements both of its parts, follows unsigned hints, and
\* catches up with a collector that settles on a policy.
SPECIFICATION FairSpec
CONSTANTS
    Beats = {b1, b2}
    Responses <- MCResponses
    Versions = {}
    PolicyVersions = {"p1", "p2"}
    AgentVersion = "v1"
    Upgrades = {}
    Null = Null
    Undefined = Undefined
    Policies <- MCPolicies
    NoPolicy = NoPolicy
    Fetches = {f1, f2}
    BootMode = "monitor"
    ReportCap = 1
    Published <- MCPublished
INVARIANT HintFollowed
PROPERTIES
    HeartbeatSpec
    DistributionSpec
    PolicySettles
