SPECIFICATION FairSpec
CONSTANTS
    b = b  x = x  y = y  z = z
    NoNode = NoNode
    Nodes <- Hosts
    Boot = b
    Strategies = {"DelayedTwoNode", "TwoNode", "Unsafe"}
    Order <- Orders
    Delayed <- Delays
    Present <- Presents
    MaxFaults <- Faults
    MaxLate = 1
INVARIANTS
    TypeOK
    BootstrapForgottenLast
    RemovedMeansGone
PROPERTIES
    EnoughMembersRemain
    InstallationCompletes
