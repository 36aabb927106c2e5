CONSTANTS
    t1 = t1
    t2 = t2
    Trades = {t1}
    Sides <- MCSides
    Due <- MCDue
    Misposted <- MCMisposted
    ErrorLimit = 1
    LatencyCount = 1
    MaxFaults = 1
SPECIFICATION FairSpec
PROPERTIES
    DriftReturnsToZero
