SPECIFICATION LiveSpec
CONSTANTS
    Thread <- MCThread
    Node <- MCNode
    List = List
    Nil = Nil
    MaxSignals = 1
    Priority <- MCPriority
    RxRing = 1
    MaxNeed = 1
    TxRing = 0
    Frame = 1
    Commands = 1
    MaxDelta = 1
    Profiles <- MCKeysOnly
    FollowTorn = TRUE
PROPERTIES GuaranteedToRun
