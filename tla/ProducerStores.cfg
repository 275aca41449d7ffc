\* Three instances: the stores under failures, the reference prices, a restart.
SPECIFICATION StoresSpec
CONSTANTS
    None = None
    Symbols = {a}
    Channels = {"trade", "ohlc_1m", "ohlc_1d", "secdef", "rest"}
    BatchChannels = {"trade", "ohlc_1m", "rest"}
    DailyChannels = {"ohlc_1d", "secdef", "rest"}
    Prices = {1}
    Quantities = {1}
    Volumes = {1}
    Quotes = {}
    SecDefs = {1, 2}
    RestPrices = {1, 2}
    KafkaEnabled = TRUE
    MaxAge = 1
    DailyRefresh = 5
    MaxMinute = 1
    MaxVolume = 2
    MaxTraded = 2
    MaxQueue = 1
    MaxCells = 3
    MaxFaults <- AllFaults
INVARIANTS
    TypeOK
    KafkaCaughtUp
    RedisCaughtUp
    PrevCloseAuthority
