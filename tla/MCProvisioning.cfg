SPECIFICATION FairSpec
CONSTANTS
    Request = {r1, r2}
    Params <- MCParams
    NoOrg = NoOrg
INVARIANTS
    TenantIsComplete
    FilesFollowDocuments
    AnswersAreTrue
PROPERTIES
    OneTenantPerKey
    EveryCallEnds
