SPECIFICATION RiskSpec
CONSTANTS
    Symbols = {"AAPL", "MSFT"}
    OrderTypes = {"Limit", "Market"}
    OrderPrices = {0, 2}
    OrderQuantities = {0, 1, 3}
    LimitChoices <- MCLimitChoices
    MaxOpen = 1
    MaxChecks = 3
    MaxExposure = 6
INVARIANT RiskTypeOK
 
INVARIANT StatsAddUp
