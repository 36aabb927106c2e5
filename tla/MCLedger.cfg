CONSTANTS
    QtyUnit = 10000
    PriceUnit = 100
    Trades = {t1, t2}
    Fills <- MCFills
    None = None
    MaxWipes = 1
SPECIFICATION Spec
INVARIANTS
    TypeOK
    ChainAtomic
    SettledIsPosted
    NothingPending
    NetPositions
PROPERTY
    ImplementsBook
