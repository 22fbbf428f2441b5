\* The APP's view of the journal: append only, four records, three sequence
\* numbers, so that both the full region and the last sequence are reached.
SPECIFICATION Spec
CONSTANTS
    s1 = s1
    s2 = s2
    Status <- MCStatus
    NoStatus = NoStatus
    NumRecords = 4
    MaxSequence = 3
    MayErase = FALSE
INVARIANTS TypeOK UniqueSequences OkIsLoaded
PROPERTIES AppendOnly ImplementsRegister
