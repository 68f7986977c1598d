SPECIFICATION FairServerSpec
CONSTANTS
    PoolSize = 1
    Symbols = {"AAPL"}
    Prices = {1}
    Quantities = {0, 1, 2, 3}
    MaxPrice = 9
    MaxOrders = 2
    Connections = {c1, c2}
    Requests <- LiveRequests
    Limits <- MCLimits
    Gates = {TRUE}
    Events = {"close", "part", "kill", "stop"}
    MaxMessages = 2
PROPERTY MessagesAnswered
PROPERTY StopReturns
CHECK_DEADLOCK FALSE
