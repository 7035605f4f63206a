SPECIFICATION FairSpec
CONSTANTS
    Nodes = {1, 2}
    MaxFaults = 2
INVARIANTS
    ClusterSurvives
PROPERTIES
    PacemakerReadyFirst
    HandoverCompletes
    NodesReturn
CHECK_DEADLOCK FALSE
