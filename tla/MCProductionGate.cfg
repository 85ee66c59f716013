SPECIFICATION MCSpec
SYMMETRY Slots
CONSTANTS
    User = {ann, bob}
    Admin = {ann}
    SuperAdmin = {bob}
    Risk = {k1}
    Request = {r1, r2}
    RiskAge = 0
    ReviewAges = {0, 1}
    MaxApprovals = 2
    MaxRequired = 2
    LastDay = 2
PROPERTIES
    DeployIsFourEyes
    OneGate
    ExpiredReviewRestricts
    ArchivedForGood
