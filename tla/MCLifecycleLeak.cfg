CONSTANTS
    d1 = d1
    d2 = d2
    u1 = u1
    u2 = u2
    DsNames <- MCDsNames
    Users <- MCUsers
    Configs <- MCAllConfigs
    MaxStops = 2
    PoolSize = 1
    TxUsers <- MCTxUsers
    DsTimeout <- MCDsTimeout
    MaxInt32 <- MCMaxInt32
    DefaultMaxConns <- MCDefaultMaxConns
SPECIFICATION Spec
INVARIANT LifecycleAsSpecified
