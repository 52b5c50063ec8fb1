SPECIFICATION Spec
CONSTANTS
    Users = {"bob", "sue", "sam"}
    OrderIds = {1, 2, 3, 4}
    TradeIds = {1, 2}
    MaxQuantity = 2
    Prices = {1, 2}
    Requests = {p1}
    Fragile = {}
    Watchers = {}
    Inputs <- StopInputs
    Sats <- Wallets
    KycVerified = {"bob"}
    KycThreshold = 4
    UnitPrice = 1
    InitBalance <- Tokens
INVARIANTS
    BookIsUncrossed
CHECK_DEADLOCK FALSE
