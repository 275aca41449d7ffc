\* Two symbols, three histories at once, failing stores and services.
SPECIFICATION AskedSpec
CONSTANTS
    None = None
    Symbols = {a, b}
    Charted = {a}
    Requests = {r1, r2, r3}
    TRINO_CACHE_TTL = 2
    SECDEF_ICEBERG_TTL = 2
    CACHE_TTL = 1
    Gap = 0
    Delay = 1
    Holdings <- Found
    MaxTime = 4
    MaxFaults = 2
SYMMETRY Symmetry
INVARIANTS
    
    HistoryIsRecent
CHECK_DEADLOCK FALSE
