SPECIFICATION Spec
CONSTANTS
    NarrowRate = 50
    WideRate = 100
    RecordedRate = 100
    Junk = Junk
    Absent = "(absent)"
    Unreadable = "(unreadable)"
    SequenceMod = 4
    CounterMod = 8
    TimestampMod = 16
    MaxTakes = 2
    MaxChanges = 1
    MaxComparisons = 2
    MaxAnalyzed = 3
    Setups <- MCSetups
    Demands <- BatchDemands
    PageSetups = {}
    Recordings <- MCRecordings
    Codecs <- MCCodecs
    Presets <- MCPresets
INVARIANTS
    BatchOfPacketsIsHeard
CHECK_DEADLOCK FALSE
