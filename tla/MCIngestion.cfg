SPECIFICATION FairSpec

CONSTANTS
    u1 = u1
    u2 = u2
    u3 = u3
    u4 = u4
    c1 = c1
    c2 = c2
    NoDoc = NoDoc
    Uploads = {u1, u2, u3, u4}
    Contents = {c1, c2}
    ContentOf <- MCContentOf
    SourceOf <- MCSourceOf
    MaxFaults = 1
    MaxLostAnswers = 1
    MaxCrashes = 1

INVARIANTS
    TypeOK
    AnswersAgree
    RowHasObject
    OrphansAreAccountedFor
    LosersAreAnswered

PROPERTIES
    EventuallySettled

CHECK_DEADLOCK FALSE
