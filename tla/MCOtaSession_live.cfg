\* A fair main thread, a sender and a link that may stop at any time.
CONSTANTS
    one = one
    two = two
    Image = {one}
    NumChunks <- OneSize
    MaxSize = 1
    NumRecords = 8
    Reserve = 7
    MaxAttempts = 1
    Timeout = 1
    MaxQueue = 1
    MaxFaults = 1
SPECIFICATION LiveSpec
PROPERTIES SessionEnds TrialSettles
