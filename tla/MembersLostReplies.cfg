SPECIFICATION Spec
CONSTANTS
    a = a  b = b  c = c  s = s  t = t
    NoNode = NoNode
    Nodes <- Four
    InitVoters <- Installed
    FailureDomain <- Domains
    Desired = 3
    MachineAPI = TRUE
    Deletable = {a, s}
    Losable = {}
    MaxDown = 1
    MaxLate = 1
    Faults = TRUE
    Rollouts = FALSE
INVARIANTS
    TypeOK
    VoterKeepsHook
PROPERTIES
    RemovesOnlyCondemned
