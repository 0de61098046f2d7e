SPECIFICATION FairExplorerSpec

CONSTANTS
    Docs = {d1}
    d1 = d1
    t1 = t1
    t2 = t2
    Threads = {t1}
    NoDoc = NoDoc
    NoAudit = NoAudit
    NoType = NoType
    NoReport = NoReport
    DocTypes = {"passport"}
    Fields = {"id", "name", "note", "memo"}
    Verifiers = {"checksum"}
    RequiredOf <- MCRequired
    OptionalOf <- MCOptional
    VerifiersOf <- MCVerifiers
    Reads <- MCReads
    ConfidenceThreshold = 8500
    Registered = {"passport", "UNKNOWN"}
    ProceedThreshold <- MCProceed
    FileType <- Named
    MappedOf <- MCMapped
    ClassifierResults <- Certain
    Extractions <- Two
    Discoveries = {FALSE}
    Corrections <- Corrects
    MaxRetries = 5
    MaxCrashes = 1
    MaxFaults = 0
    MaxDecisions = 1

INVARIANTS
    ExplorerType
    NoStrategyLeak
    RetryBudget
    VerdictIsExplained
    LearnedIsSearchable
    ShownWasRecorded

PROPERTIES
    EventuallySettled
    InvocationsEnd

CHECK_DEADLOCK FALSE
