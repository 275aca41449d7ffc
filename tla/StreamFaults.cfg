\* Failing Redis, failing appends and crashes; the system stops when the topic is full.
SPECIFICATION FairSpec
CONSTANTS
    Symbols = {s1, s2}
    LastTime = 2
    Final = 2
    MaxRecords = 3
    MaxFaults <- AllFaults
    None = None
INVARIANTS
    TracksStored
PROPERTIES
    KeepsPromise
    Commits
CHECK_DEADLOCK FALSE
