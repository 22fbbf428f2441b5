SPECIFICATION LiveSpec
CONSTANTS
    Capacity <- MCCapacity
    Watermark <- MCWatermark
    Sample = {0, 1}
    Silence = 0
    One = 3
    Attack = 2
    Release = 1
    Block = 2
    Pcm <- MCPcm
    PromptFrames = 4
    TailFrames = 1
    Chunk = 2
    StopLevel = 1
INVARIANTS TypeOK RingCoherent SinkHasSource
PROPERTIES PlaysInOrder PromptEnds
