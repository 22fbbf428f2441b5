SPECIFICATION Spec
CONSTANTS
    Thread <- MCThread
    Priority <- MCPriority
    MusicRate = "44k"
    CallRates <- MCNone
    I2cRetries = TRUE
    MaxFaults = 1
    Music = TRUE
    Talk = TRUE
    Listening = FALSE
    QuietRounds = 1
INVARIANTS TypeOK CaptureExclusive RouteFollowsUsers NoLostStart
