CONSTANTS
    Trades = {t1, t2, t3}
    Consumers = {c1, c2}
    None = None
    MaxCrashes = 2
    MaxRebalances = 1
    MaxResends = 1
SPECIFICATION Spec
SYMMETRY Symmetry
INVARIANTS
    NothingLost
