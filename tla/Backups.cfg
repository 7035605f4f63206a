SPECIFICATION FairSpec
CONSTANTS
    Scheduled = {1, 2, 3}
    Manual = {4}
    Specs <- MCSpecs
    DefaultNumber = 1
    DefaultSizeGb = 3
    HistoryLimit = 2
    MaxFaults = 1
INVARIANTS
    OneJobAtATime
PROPERTIES
    OncePerRequest
    RetentionExact
    RequestsEnd
