SPECIFICATION ReplaySpec
CONSTANTS
    PoolSize = 1
    Symbols = {"AAPL", "MSFT"}
    Prices = {0, 1, 2}
    Quantities = {0, 1, 2, 3}
    MaxPrice = 9
    MaxOrders = 5
    Rows <- MCRows
    MaxRows = 5
    Limits <- MCLimits
    QuantityModulus = 4
INVARIANTS
    ReplayTypeOK
    ResultsReconcile
    CheckImpliesAccept
PROPERTIES
    CancelHitsNamed
    ReplayEnds
CHECK_DEADLOCK FALSE
