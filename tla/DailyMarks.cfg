\* A daily run with marks.
SPECIFICATION FairSpec
CONSTANTS
    None = None
    Symbols = {VCB, HPG}
    TradingDays = {1, 3}
    BatchSize = 1
    Modes = {"full"}
    Window = 1
    LastDay = 3
    MaxLoads = 1
    MaxFaults = 1
PROPERTIES
    DaysArrive
