SPECIFICATION AuditSpec
CONSTANTS
    PoolSize = 1
    Symbols = {"AAPL"}
    Prices = {0, 1, 2}
    Quantities = {0, 1, 3}
    MaxPrice = 9
    MaxOrders = 4
INVARIANTS
    TypeOK
    BooksSound
    IncomingStaysLive
    RestingUncrossed
    OnlyLimitsRest
    SpreadPositive
    OrdersAccounted
    SharesConserved
PROPERTY CancelIsFinal
