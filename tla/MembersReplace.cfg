SPECIFICATION FairSpec
CONSTANTS
    a = a  b = b  c = c  s = s  t = t
    NoNode = NoNode
    Nodes <- Four
    InitVoters <- Installed
    FailureDomain <- Domains
    Desired = 3
    MachineAPI = TRUE
    Deletable = {a}
    Losable = {}
    MaxDown = 0
    MaxLate = 0
    Faults = FALSE
    Rollouts = TRUE
INVARIANTS
    EndpointsExcludeLearners
PROPERTIES
    DeletedMachinesLeave
    NewMachinesVote
