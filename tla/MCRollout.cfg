CONSTANTS
    t1 = t1
    t2 = t2
    Trades = {t1, t2}
    Sides <- MCSides
    Due <- MCDue
    Misposted <- MCMisposted
    ErrorLimit = 1
    LatencyCount = 2
    MaxFaults = 1
SPECIFICATION FairSpec
INVARIANTS
    TypeOK
PROPERTIES
    RolledBack
    GoodIsPromoted
    GateSees
    WrongIsCaught
