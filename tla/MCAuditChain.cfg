SPECIFICATION FairSpec
CONSTANTS
    HQ = HQ
    Cust = Cust
    Org = {HQ, Cust}
    NoOrg = NoOrg
    Request = {r1, r2}
    NoRequest = NoRequest
    System = System
    Text <- MCText
    Old = Old
    Legacy <- MCLegacy
    FirstId = 3
INVARIANTS
    ChainVerifies
    CustomerLineFollowsHqLine
    TrailMatchesRequests
PROPERTIES
    AppendOnlyLedger
    EveryRequestEnds
