CONSTANTS
    Trades = {t1, t2}
    Malformed = {t2}
    Workers = {w1, w2}
    None = None
    MaxRetries = 4
    MaxFaults = 2
SPECIFICATION FairSpec
PROPERTIES
    ExecutedIsSettled
    MalformedIsParked
CHECK_DEADLOCK FALSE
