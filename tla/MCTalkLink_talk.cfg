SPECIFICATION LiveSpec
CONSTANTS
    Debounce = 2
    LongPress = 4
    DoubleClick = 3
    Block = 2
INVARIANTS TypeOK UartExclusive CaptureHasSender CaptureIsHeld PauseIsLifted
PROPERTIES ControlReturns TalkEnds
