\* Where are the entries, and how large is the live file, with no calls
\* failing but writes and openings, and with renames or fstat failing too?
SPECIFICATION LogSpec
CONSTANTS
    MaxBytes = 3
    Sizes = {1, 2, 4}
    MaxEntries = 4
    MaxRotations = 4
    MaxProcesses = 2
INVARIANTS
    NothingLostWithinProcess
    FilesInOrder
    LiveFileBounded
CHECK_DEADLOCK FALSE
