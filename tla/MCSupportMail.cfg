SPECIFICATION Spec
SYMMETRY Runs
CONSTANTS
    Id = {1, 2}
    Script = {s1, s2}
    Employee = {e1}
    MaxMails = 2
INVARIANTS
    SentMeansArrived
    OneMailPerRequest
    PendingIsInHand
PROPERTIES
    SentIsFinal
    WorkAndMailAreIndependent
