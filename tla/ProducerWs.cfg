\* Tasks in any order, failing stores and requests, a restart.
SPECIFICATION FairSpec
CONSTANTS
    None = None
    Symbols = {a}
    Prices = {1}
    Volumes = {1}
    References = {1, 2}
    KafkaEnabled = TRUE
    DailyRefresh = 1
    MaxMinute = 1
    MaxTrades = 2
    MaxBars = 1
    MaxFaults = 1
INVARIANTS
    
    PctOfRecord
PROPERTIES
    ReferencesConverge
