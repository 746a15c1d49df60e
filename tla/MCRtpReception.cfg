SPECIFICATION Spec
CONSTANTS
    SequenceMod = 4
    CounterMod = 8
    TimestampMod = 16
    FirstTimestamp = 14
    TimestampStep = 2
    MaxSent = 6
    MaxArrivals = 4
INVARIANTS
    TypeOK
    SequenceAccountCloses
    InOrderLossIsExact
    JitterSampleIsTheDistance
CHECK_DEADLOCK FALSE
