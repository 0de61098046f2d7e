SPECIFICATION Spec

CONSTANTS
    p1 = p1
    p2 = p2
    p3 = p3
    r1 = r1
    r2 = r2
    NoProposal = NoProposal
    Names = {"holder", "lines", "memo"}
    Reference <- MCReference
    Proposals = {p1, p2}
    Requests = {r1, r2}
    MaxRequests = 3
    MaxFaults = 1
    MaxCrashes = 1

INVARIANTS
    TypeOK
    NewestIsActive
    ApprovedIsInForce

PROPERTIES
    SchemaOnlyLoosens

CHECK_DEADLOCK FALSE
