SPECIFICATION Spec

CONSTANTS
    p1 = p1
    p2 = p2
    p3 = p3
    r1 = r1
    r2 = r2
    NoProposal = NoProposal
    Names = {"holder", "lines", "memo"}
    Reference <- MCReference
    Proposals = {p1}
    Requests = {r1, r2}
    MaxRequests = 2
    MaxFaults = 0
    MaxCrashes = 0

PROPERTIES
    DecidedOnce

CHECK_DEADLOCK FALSE
