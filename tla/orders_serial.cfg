SPECIFICATION Spec
CONSTANTS
    Users = {"bob", "sue", "sam"}
    OrderIds = {1, 2, 3, 4}
    TradeIds = {1, 2, 3}
    MaxQuantity = 2
    Prices = {1, 2}
    Requests = {p1}
    Fragile = {}
    Watchers = {}
    Inputs <- LimitInputs
    Sats <- Wallets
    KycVerified = {"bob"}
    KycThreshold = 4
    UnitPrice = 1
    InitBalance <- Tokens
INVARIANTS
    FilledTracksTrades
    SellsAreCovered
    BookIsUncrossed
PROPERTIES
    TradesAtBestPrice
CHECK_DEADLOCK FALSE
