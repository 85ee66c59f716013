SPECIFICATION FairSpec
CONSTANTS
    Runner = {r1, r2}
    Deleter = {d1, d2}
    Nobody = Nobody
    PoolSize = 2
    MaxCrashes = 1
INVARIANTS
    RunsAreAccountedFor
    EngineIsBuiltOnce
PROPERTIES
    EveryRequestEnds
CHECK_DEADLOCK FALSE
