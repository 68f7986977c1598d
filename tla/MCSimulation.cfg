SPECIFICATION SimSpec
CONSTANTS
    PoolSize = 1
    Symbols = {"AAPL"}
    Symbol = "AAPL"
    Prices = {}
    Quantities = {}
    MaxPrice = 99
    MaxOrders = 99
    Cent = 2
    StartingCash = 0
    QuoteSize = 2
    MakerMaxPosition = 2
    HalfSpread = 2
    SkewFactor = 1
    WindowSize = 2
    Threshold = 0
    TradeSize = 1
    TakerMaxPosition = 1
    CooldownTicks = 2
    InitialPrice = 6
    NumTicks = 3
    ProgressSteps = 3
    NoiseTraders <- MCNoiseTraders
    PriceMoves <- MCMoves
    MakerNoise = {0}
    Offsets <- MCOffsets
    NoiseSizes = {1, 3}
INVARIANTS
    SimTypeOK
    RestingFillsBooked
    NoStaleQuotes
    
    MakerNoSelfTrade
PROPERTY RunReturns
CHECK_DEADLOCK FALSE
