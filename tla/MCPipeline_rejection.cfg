SPECIFICATION Spec

CONSTANTS
    Docs = {d1}
    d1 = d1
    t1 = t1
    t2 = t2
    Threads = {t1, t2}
    NoDoc = NoDoc
    NoType = NoType
    NoReport = NoReport
    DocTypes = {"passport"}
    Fields = {"id", "name", "note", "memo"}
    Verifiers = {"checksum"}
    RequiredOf <- MCRequired
    OptionalOf <- MCOptional
    VerifiersOf <- MCVerifiers
    Reads <- MCReads
    ConfidenceThreshold = 8500
    Registered = {"passport", "UNKNOWN"}
    ProceedThreshold <- MCProceed
    FileType <- Named
    MappedOf <- MCMapped
    ClassifierResults <- Certain
    Extractions <- Two
    Discoveries = {FALSE}
    Corrections <- Corrects
    MaxRetries = 0
    MaxCrashes = 0
    MaxFaults = 0
    MaxDecisions = 2

PROPERTIES
    RejectionIsFinal

CHECK_DEADLOCK FALSE
