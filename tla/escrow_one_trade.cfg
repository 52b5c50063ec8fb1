SPECIFICATION Spec
CONSTANTS
    Users = {"bob", "sue"}
    OrderIds = {"b", "s"}
    TradeIds = {"t1"}
    MaxQuantity = 1
    Prices = {1}
    Watchers = {w1, w2}
    SignRequests = {r1, r2}
    Resolutions = {a1, a2}
    InitOrders <- OneMatch
    InitBalance <- Balances
SYMMETRY HandlerSymmetry
INVARIANTS
    TypeOK
    StatusesAgree
    SettlementIsSafe
    TokensConserved
PROPERTIES
    EscrowsOnlyProgress
    ImplementsCustody
CHECK_DEADLOCK FALSE
