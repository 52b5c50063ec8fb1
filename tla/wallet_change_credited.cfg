SPECIFICATION Spec
CONSTANTS
    Wallets = {"a", "b"}
    WalletOf <- RequestWallets
    Refs = {"c1", "c2", "w1", "w2", "w3", "q1", "i1", "i2", "h"}
    MaxIndex = 3
    Replicas = {"r"}
    Withdrawals = {"w1", "w2", "w3"}
    Pegouts = {"q1"}
    AddressRequests = {"d1"}
    SettlementRequests = {"m1"}
    Reconcilers = {"l1", "l2"}
    KeyOf <- Keys
    ReplicaOf <- OneReplica
    NoKey = "none"
    Amount = 1
    Fee = 1
    Coins = {"c1", "c2"}
    CoinAmount = 4
    Invoices = {"i1", "i2"}
    Payments = {"x1", "x2"}
    HashOf <- HashPaid
    Refreshes = {"s1", "s2"}
    Sats = 2
    Workloads <- SomeRequests
INVARIANT
    OnlyPaymentsAreCredited
CHECK_DEADLOCK FALSE
