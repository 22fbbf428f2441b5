SPECIFICATION Spec
CONSTANTS
    Thread <- MCThread
    Priority <- MCPriority
    MusicRate = "44k"
    CallRates <- MCOneCall
    I2cRetries = FALSE
    MaxFaults = 0
    Music = FALSE
    Talk = TRUE
    Listening = FALSE
    QuietRounds = 1
INVARIANTS OwnerMovesOn CaptureReleased
