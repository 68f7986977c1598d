SPECIFICATION ServerSpec
CONSTANTS
    PoolSize = 1
    Symbols = {"AAPL"}
    Prices = {1}
    Quantities = {0, 1, 2, 3}
    MaxPrice = 9
    MaxOrders = 3
    Connections = {c1, c2}
    Requests <- MCRequests
    Limits <- MCLimits
    Gates = {TRUE, FALSE}
    Events = {"kill"}
    MaxMessages = 3
SYMMETRY ConnectionSymmetry
INVARIANT ServerTypeOK
INVARIANT BookedWithinLimits
INVARIANT RiskTracksTrades
INVARIANT AnswersDistinct
CHECK_DEADLOCK FALSE
