SPECIFICATION Spec
CONSTANTS
    Users = {"bob", "sue"}
    OrderIds = {"b", "s"}
    TradeIds = {"t1"}
    MaxQuantity = 1
    Prices = {1}
    Watchers = {w1}
    SignRequests = {}
    Resolutions = {}
    InitOrders <- OneMatch
    InitBalance <- Balances
PROPERTIES
    OnlyUnfundedEscrowsExpire
CHECK_DEADLOCK FALSE
