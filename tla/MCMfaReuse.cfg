SPECIFICATION Spec
CONSTANTS
    Request = {r1, r2}
    NoRequest = NoRequest
    SuperAdmin = FALSE
    BackupNo = {1}
    MaxFailed = 2
    LockSteps = 2
    MaxInFlight = 2
    MaxClock = 3
    MaxIssued = 2
INVARIANT CodeUsedOnce
