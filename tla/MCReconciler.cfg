CONSTANTS
    QtyUnit = 10000
    PriceUnit = 100
    t1 = t1
    t2 = t2
    t3 = t3
    t4 = t4
    Trades <- MCTrades
    FillOf <- MCFillOf
    MaxErrors = 1
SPECIFICATION FairSpec
INVARIANTS
    TypeOK
PROPERTIES
    LagNotUnderstated
    DriftExplained
    DriftSubsides
