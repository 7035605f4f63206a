SPECIFICATION Spec
CONSTANTS
    Nodes = {1, 2}
    Masters = {1}
    Kinds = {1}
    MaxSigner = 2
    MaxChanges = 1
    MaxFaults = 0
INVARIANTS
    PeersTrust
CHECK_DEADLOCK FALSE
