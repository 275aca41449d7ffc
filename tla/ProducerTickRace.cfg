\* The batch layer against a flush between its read and its write.
SPECIFICATION Spec
CONSTANTS
    None = None
    Symbols = {a}
    Channels = {"trade", "rest"}
    Prices = {1}
    Quantities = {1}
    Volumes = {1}
    Quotes = {}
    SecDefs = {}
    RestPrices = {1}
    KafkaEnabled = TRUE
    MaxAge = 1
    DailyRefresh = 5
    MaxMinute = 1
    MaxVolume = 2
    MaxTraded = 2
    MaxQueue = 2
    MaxCells = 4
    MaxFaults <- NoFaults
PROPERTIES
    RestKeepsNewerTick
