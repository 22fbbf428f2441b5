SPECIFICATION Spec
CONSTANTS
    Thread <- MCThread
    Priority <- MCPriority
    MusicRate = "44k"
    CallRates <- MCCalls
    I2cRetries = TRUE
    MaxFaults = 2
    Music = TRUE
    Talk = FALSE
    Listening = FALSE
    QuietRounds = 1
INVARIANTS RendererRestored CallUndisturbed BackToMusic
