SPECIFICATION FairSpec
CONSTANTS
    Nodes = {1, 2}
    WithSecret = {1, 2}
    Works = {2}
    JobNode = 2
    MaxRetryAttempts = 3
    SpecsFilledIn = TRUE
    MaxFaults = 2
INVARIANTS
    TypeOK
PROPERTIES
    MaxRetriesKept
    JobCompletes
    BlockedJobsDegrade
