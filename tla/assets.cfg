SPECIFICATION FairSpec
CONSTANTS
    Topics = {"asset.created", "ai.evaluation.complete", "token.minted", "trade.matched", "escrow.released"}
    MarketTopics = {"trade.matched", "escrow.released"}
    MaxEvents = 2
    Clients = {"ana"}
    ClientTopics = {"ai.evaluation.complete", "trade.matched", "escrow.released"}
    Workers = {"nostr"}
    WorkerTopics = {"asset.created", "ai.evaluation.complete", "trade.matched"}
    Relays = {"r1"}
    CountOf <- Counts
    Assets = {"villa", "mine"}
    Submits = {"s1", "s2"}
    Evaluates = {"e1", "e2", "e3", "e4"}
    Tokenizes = {"t1", "t2"}
    AssetOf <- RequestedAsset
    OwnerOf <- Owners
    Submissions <- SomeSubmissions
    Workloads <- SomeWorkloads
INVARIANTS
    TypeOK
    TokenizedOnce
    OneEvaluationAtATime
    BetterSubmissionsScoreHigher
    NotificationsAreComplete
    RelaysGetEventsOnce
PROPERTIES
    EvaluationsEnd
    EventsAreDelivered
CHECK_DEADLOCK FALSE
