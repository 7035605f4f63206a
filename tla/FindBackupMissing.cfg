SPECIFICATION Spec
CONSTANTS
    Scheduled = {1, 2}
    Manual = {4}
    Specs <- MCSpecs
    DefaultNumber = 1
    DefaultSizeGb = 3
    HistoryLimit = 2
    MaxFaults = 1
PROPERTIES
    CompletedMeansSaved
