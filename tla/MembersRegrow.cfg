SPECIFICATION Spec
CONSTANTS
    a = a  b = b  c = c  s = s  t = t
    NoNode = NoNode
    Nodes <- Regrown
    InitVoters <- Survivors
    FailureDomain <- Domains
    Desired = 3
    MachineAPI = TRUE
    Deletable = {b, c}
    Losable = {b}
    MaxDown = 1
    MaxLate = 0
    Faults = FALSE
    Rollouts = FALSE
INVARIANTS
    AtMostOneUnstarted
PROPERTIES
    QuorumKept
    ScaleDownFloor
