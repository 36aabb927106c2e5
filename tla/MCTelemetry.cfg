CONSTANTS
    Instances = {i1, i2}
    Points = {p1}
    LastMinute = 3
    MaxFaults = 2
SPECIFICATION FairSpec
INVARIANTS
    TypeOK
    Provisioned
    RolledUp
PROPERTIES
    AllWrite
