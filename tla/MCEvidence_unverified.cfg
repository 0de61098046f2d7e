SPECIFICATION Spec
CONSTANTS
    Null = Null
    Garbled = Garbled
    Number = Number
    WellFormed = WellFormed
    NoConfidence = NoConfidence
    SchemaFieldsOnly = TRUE
    DocTypes <- Invoices
    RepliesOf <- RepliesByType
    RequiredOf <- RequiredByType
    OptionalOf <- OptionalByType
    ListFields <- Lists
    PrintedLine <- Printed
    LLMRetries = 1
    ConfidenceThreshold = 8500
    Certainty = 100
INVARIANT
    CompletedIsVerified
