SPECIFICATION MCSpec
SYMMETRY Slots
CONSTANTS
    Request = {r1, r2}
    NoRequest = NoRequest
    SuperAdmin = FALSE
    BackupNo = {1}
    MaxFailed = 2
    LockSteps = 2
    MaxInFlight = 2
    MaxClock = 5
    MaxIssued = 4
    OverlapClock = 3
    OverlapIssued = 2
INVARIANTS
    UsedCodeIsDead
    SwitchedOnMeansUsable
PROPERTIES
    GuessesAreLimited
    FailureIsHarmless
