\* Trades and quotes of two symbols, both stores answering.
SPECIFICATION UndisturbedSpec
CONSTANTS
    None = None
    Symbols = {a, b}
    Channels = {"trade", "quote"}
    Prices = {1}
    Quantities = {1}
    Volumes = {1}
    Quotes = {q}
    SecDefs = {}
    RestPrices = {}
    KafkaEnabled = TRUE
    MaxAge = 1
    DailyRefresh = 5
    MaxMinute = 1
    MaxVolume = 2
    MaxTraded = 2
    MaxQueue = 2
    MaxCells = 4
    MaxFaults <- NoFaults

    
PROPERTIES
    BufferedTickShown
