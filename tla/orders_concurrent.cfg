SPECIFICATION Spec
CONSTANTS
    Users = {"bob", "sue"}
    OrderIds = {1, 2, 3, 4}
    TradeIds = {1, 2}
    MaxQuantity = 2
    Prices = {1, 2}
    Requests = {p1}
    Fragile = {p1}
    Watchers = {w1, w2}
    Inputs <- MixedInputs
    Sats <- SmallWallets
    KycVerified = {"bob"}
    KycThreshold = 4
    UnitPrice = 1
    InitBalance <- Tokens
SYMMETRY RequestSymmetry
INVARIANTS
    StatusMatchesFill
    TradesHonourOrders
PROPERTIES
    ImplementsCustody
CHECK_DEADLOCK FALSE
