CONSTANTS
    Trades = {t1, t2, t3}
    Consumers = {c1, c2}
    None = None
    MaxCrashes = 1
    MaxRebalances = 1
    MaxResends = 1
SPECIFICATION FairSpec
INVARIANTS
    TypeOK
    CapturedOnce
    LossBounded
PROPERTIES
    ImplementsLifecycle
    ReachesTheLog
