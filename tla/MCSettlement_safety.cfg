CONSTANTS
    Trades = {t1, t2}
    Malformed = {}
    Workers = {w1, w2, w3}
    None = None
    MaxRetries = 3
    MaxFaults = 3
SPECIFICATION Spec
SYMMETRY Symmetry
INVARIANTS
    TypeOK
    AtMostOncePosted
    AckedImpliesSettled
    CheckpointCoversSettled
    RetryBudget
    IInv
PROPERTIES
    ImplementsLifecycle
CHECK_DEADLOCK FALSE
