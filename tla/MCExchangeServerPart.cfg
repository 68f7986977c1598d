SPECIFICATION ServerSpec
CONSTANTS
    PoolSize = 1
    Symbols = {"AAPL"}
    Prices = {1}
    Quantities = {0, 1, 2, 3}
    MaxPrice = 9
    MaxOrders = 2
    Connections = {c1}
    Requests <- Crossing
    Limits <- MCLimits
    Gates = {TRUE}
    Events = {"part"}
    MaxMessages = 2
INVARIANT WholeMessages
CHECK_DEADLOCK FALSE
