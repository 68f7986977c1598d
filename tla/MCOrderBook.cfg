SPECIFICATION Spec
CONSTANTS
    PoolSize = 1
    Types = {"Limit"}
    Prices = {1, 2}
    Quantities = {2}
    Reductions = {0, 1, 3}
    QuantityModulus = 5
    MaxOrders = 4
INVARIANTS
    TypeOK
    IndexMatchesLevels
    NoStaleLevel
    TimePriority
    PoolSound
    CountsAgree
    TotalsAreVolumes
PROPERTY OrdersStayPut
