SPECIFICATION ServerSpec
CONSTANTS
    PoolSize = 1
    Symbols = {"AAPL"}
    Prices = {1}
    Quantities = {0, 1, 2, 3}
    MaxPrice = 9
    MaxOrders = 8
    Connections = {c1}
    Requests <- Crossing
    Limits <- MCLimits
    Gates = {TRUE}
    Events = {}
    MaxMessages = 8
INVARIANT ExposureCapped
CHECK_DEADLOCK FALSE
