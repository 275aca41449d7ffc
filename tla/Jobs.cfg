\* Minutes: the stream, two batches of symbols, failures, an initial load, a dedup.
\* Days: three days with a holiday, initial loads, failures.
SPECIFICATION JobsSpec
CONSTANTS
    VCB = VCB
    HPG = HPG
    Absent = Absent
    Symbols = {VCB, HPG}
    Chunks <- OneByOne
    Window = 2
    Depth = 1
    Intervals = 2
    LastTime = 3
    MaxEvents = 1
    TradingDays = {1, 3}
    BatchSize = 1
    Modes = {"full"}
    LastDay = 3
    MaxLoads = 1
    MaxFaults = 1
INVARIANTS
    GapsAreExcused
    NoHoles
    PrevIsPreviousDay
PROPERTIES
    
    
    SymbolsComeBack
    DayIsServed
