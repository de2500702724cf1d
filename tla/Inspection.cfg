\* Are alarms raised for what was seen, the right detection acted upon, and
\* its event redacted and intact?
SPECIFICATION InspectionSpec
CONSTANTS
    Addresses = {ip, ip6}
    IPv6 = {ip6}
    Callers = {ip}
    NoAddress = NoAddress
    ObjectIds = {i1, i2, i3}
    NoId = NoId
    Window = 1
    Threshold = 1
    PrunePeriod = 1
    Never = Never
    MaxTime = 4
    Subjects = {i1}
    Names = {"bola", "signature", "extra", "thrown", "r1", "r2", "r3"}
    Requests <- MCRequests
SYMMETRY IdSymmetry
INVARIANTS
    BurstNoticed
    MemoryBounded
    PrimaryIsMostSevere
    NoWholeSecretLeaves
    FieldsExact
    EnvelopeIntact
PROPERTY WindowSpec
