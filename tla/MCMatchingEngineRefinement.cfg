SPECIFICATION FairSpec
CONSTANTS
    PoolSize = 1
    Symbols = {"AAPL", "MSFT"}
    Prices = {1, 2}
    Quantities = {0, 1, 2}
    MaxPrice = 9
    MaxOrders = 3
PROPERTIES
    ImplementsPriceTimePriority
    MutexReleased
