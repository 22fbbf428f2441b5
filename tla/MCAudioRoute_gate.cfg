SPECIFICATION Spec
CONSTANTS
    Thread <- MCThread
    Priority <- MCPriority
    MusicRate = "44k"
    CallRates <- MCNone
    I2cRetries = FALSE
    MaxFaults = 0
    Music = TRUE
    Talk = TRUE
    Listening = FALSE
    QuietRounds = 1
INVARIANTS MusicHeard
