SPECIFICATION ManagerSpec
CONSTANTS
    Limit = 2
    DegradeAfter = 3
    RecoverAfter = 2
    Threads = {"tick", "route"}
    MaxHeavy = 3
    MaxChecks = 1
INVARIANTS
    BacklogIsKept
PROPERTIES
    RecoversOrStarves
    BacklogIsServed
