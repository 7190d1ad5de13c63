CONSTANTS
    Conventions = {"generic", "gcp", "aws", "azure"}
    OwnFields <- MCOwnFields
    Enrichments <- MCEnrichments
    Arrivals <- MCArrivals
    Scopes <- MCScopes
    NoLine = NoLine
SPECIFICATION Spec
INVARIANTS
    TypeOK
    OwnedNamesAreThePackages
    ApplicationDataSurvives
    AliasesRepeatTheTrace
    TraceFieldsTogether
    DisclosedOnlyByOptIn
CHECK_DEADLOCK FALSE
