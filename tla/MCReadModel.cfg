CONSTANTS
    t1 = t1
    t2 = t2
    t3 = t3
    BTC = BTC
    ETH = ETH
    None = None
    Trades <- MCTrades
    Stuck = {t2, t3}
    Symbols <- MCSymbols
    Fill <- MCFill
    MaxEvents = 3
    MaxFaults = 1
SPECIFICATION FairSpec
INVARIANTS
    TypeOK
    StatusOfPrefix
    VolumeOfPrefix
    VerdictExact
    GaugesWereTrue
PROPERTIES
    GaugesConverge
