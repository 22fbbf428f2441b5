SPECIFICATION LiveSpec
CONSTANTS
    Thread <- MCThread
    Node <- MCNode
    List = List
    Nil = Nil
    MaxSignals = 1
    Priority <- MCPriority
    RxRing = 1
    MaxNeed = 1
    TxRing = 2
    Frame = 1
    Commands = 2
    MaxDelta = 1
    Profiles <- MCProfiles
    FollowTorn = FALSE
INVARIANTS TypeOK WakeupKept ListIsOwed HciKeepsReading KeysNotForgotten
PROPERTIES BytesLeave
