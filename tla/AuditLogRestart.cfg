\* Does an audit entry survive the rotations of a later process?
SPECIFICATION LogSpec
CONSTANTS
    MaxBytes = 3
    Sizes = {1, 2, 4}
    MaxEntries = 4
    MaxRotations = 4
    MaxProcesses = 2
INVARIANT NothingLost
CHECK_DEADLOCK FALSE
