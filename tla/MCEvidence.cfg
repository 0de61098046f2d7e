SPECIFICATION Spec
CONSTANTS
    Null = Null
    Garbled = Garbled
    Number = Number
    WellFormed = WellFormed
    NoConfidence = NoConfidence
    SchemaFieldsOnly = FALSE
    DocTypes <- AllTypes
    RepliesOf <- RepliesByType
    RequiredOf <- RequiredByType
    OptionalOf <- OptionalByType
    ListFields <- Lists
    PrintedLine <- Printed
    LLMRetries = 1
    ConfidenceThreshold = 8500
    Certainty = 100
INVARIANTS
    TypeOK
    CallBudget
    RatedByASample
    AgreementStands
    OneFailureCostsNothing
    CompletedIsConsistent
    MisreadIsCaught
