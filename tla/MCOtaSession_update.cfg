\* Images of different size, sent and sent again over a link that drops, with
\* the power lost anywhere and one flash failure; the reserve and the trial
\* starts are the code's.
CONSTANTS
    one = one
    two = two
    Image = {one, two}
    NumChunks <- TwoSizes
    MaxSize = 2
    NumRecords = 9
    Reserve = 8
    MaxAttempts = 2
    Timeout = 1
    MaxQueue = 1
    MaxFaults = 1
SPECIFICATION Spec
INVARIANTS TypeOK ConfirmedIntact PendingIntact ConfirmedRuns RoomToSettle
