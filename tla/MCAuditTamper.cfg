SPECIFICATION TSpec
CONSTANTS
    HQ = HQ
    Customer = Customer
    Org = {HQ, Customer}
    NoOrg = NoOrg
    Request = {r1, r2}
    NoRequest = NoRequest
    System = System
    Text <- MCText
    Foreign <- MCForeign
    Old = Old
    Forged = Forged
    Legacy <- MCLegacy
    FirstId = 3
INVARIANT VerdictIsExact
SYMMETRY Writers
