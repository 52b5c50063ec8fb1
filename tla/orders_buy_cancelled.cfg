SPECIFICATION Spec
CONSTANTS
    Users = {"bob", "sue"}
    OrderIds = {1, 2, 3, 4}
    TradeIds = {1, 2}
    MaxQuantity = 2
    Prices = {1, 2}
    Requests = {p1, p2}
    Fragile = {}
    Watchers = {}
    Inputs <- MixedInputs
    Sats <- Wallets
    KycVerified = {"bob"}
    KycThreshold = 4
    UnitPrice = 1
    InitBalance <- Tokens
PROPERTIES
    BuyOrdersAreCancelledByOwners
CHECK_DEADLOCK FALSE
