\* The Bootloader, whose storage can erase: recycles cut at every point, then
\* appends again to whatever the cut erase left.
SPECIFICATION Spec
CONSTANTS
    s1 = s1
    s2 = s2
    Status <- MCStatus
    NoStatus = NoStatus
    NumRecords = 3
    MaxSequence = 3
    MayErase = TRUE
PROPERTIES ImplementsRegister
