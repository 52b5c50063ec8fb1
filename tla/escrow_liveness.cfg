SPECIFICATION FairSpec
CONSTANTS
    Users = {"bob", "sue"}
    OrderIds = {"b", "s", "s2"}
    TradeIds = {"t1", "t2"}
    MaxQuantity = 2
    Prices = {1}
    Watchers = {w1, w2}
    SignRequests = {}
    Resolutions = {}
    InitOrders <- TwoMatches
    InitBalance <- Balances
PROPERTIES
    CreatedEscrowIsDecided
CHECK_DEADLOCK FALSE
