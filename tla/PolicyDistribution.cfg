\* Overlapping fetches of real, replayed, forged and half-applicable policies.
SPECIFICATION Spec
CONSTANTS
    Policies <- MCPolicies
    NoPolicy = NoPolicy
    Slots = {s1, s2}
    BootMode = "block"
    ReportCap = 1
INVARIANT ConfigIsPolicyInForce
PROPERTIES
    ConfigIsAuthentic
    RegisterSpec
