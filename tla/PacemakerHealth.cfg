SPECIFICATION FairSpec
CONSTANTS
    Nodes = {1, 2}
    Works = {2}
    Clusters <- MCClusters
    StatusStalenessThreshold = 1
    StatusUnknownDegradedThreshold = 1
    EventDeduplicationWindow = 2
    MaxFaults = 1
PROPERTIES
    ReportNeverGoesBack
    OperatorLearns
    ErrorAnnounced
    BannerFollows
