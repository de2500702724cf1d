\* Does a first policy that cannot be applied leave the boot configuration?
SPECIFICATION Spec
CONSTANTS
    Policies <- MCPolicies
    NoPolicy = NoPolicy
    Slots = {s1}
    BootMode = "block"
    ReportCap = 1
INVARIANT FailedPolicyLeavesBootConfig
