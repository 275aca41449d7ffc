\* A switch of symbols, a lost connection, a failed request, a change of prices.
SPECIFICATION FairSpec
CONSTANTS
    None = None
    VCB = VCB
    HPG = HPG
    Symbols = {VCB, HPG}
    Values = {1, 2}
    Quotes = {q}
    FirstTicks <- TwoTicks
    Timeframes = {"1m"}
    FirstView <- VCBByMinute
    QuoteEvery = 1
    MaxEvents = 2
    MaxFrames = 1
    MaxPolls = 1
INVARIANTS
    OneStaleTick
PROPERTIES
    HeaderConverges
    
