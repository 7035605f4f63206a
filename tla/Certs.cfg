SPECIFICATION FairSpec
CONSTANTS
    Nodes = {1, 2}
    Masters = {1, 2}
    Kinds = {1}
    MaxSigner = 2
    MaxChanges = 2
    MaxFaults = 1
PROPERTIES
    NoLeafTooEarly
    RotationCompletes
    SecretsMatchNodes
CHECK_DEADLOCK FALSE
