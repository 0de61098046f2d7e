SPECIFICATION Spec

CONSTANTS
    Docs = {d1}
    d1 = d1
    t1 = t1
    t2 = t2
    Threads = {t1, t2}
    NoDoc = NoDoc
    NoType = NoType
    NoReport = NoReport
    DocTypes = {"passport"}
    Fields = {"id", "name", "note", "memo"}
    Verifiers = {"checksum"}
    RequiredOf <- MCRequired
    OptionalOf <- MCOptional
    VerifiersOf <- MCVerifiers
    Reads <- MCReads
    ConfidenceThreshold = 8500
    Registered = {"passport", "UNKNOWN"}
    ProceedThreshold <- MCProceed
    FileType <- Unnamed
    MappedOf <- MCMapped
    ClassifierResults <- AnyAnswer
    Extractions <- All
    Discoveries = {TRUE, FALSE}
    Corrections <- Corrects
    MaxRetries = 1
    MaxCrashes = 1
    MaxFaults = 1
    MaxDecisions = 1

INVARIANTS
    TypeOK
    DurableResult
    EvidenceIsCurrent
    AcceptedOrReviewed
    EmbeddingVerified
    Serialized

PROPERTIES
    ImplementsLifecycle

SYMMETRY ThreadSymmetry

CHECK_DEADLOCK FALSE
