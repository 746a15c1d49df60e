SPECIFICATION Spec
CONSTANTS
    HysteresisOkWindows = 2
    HysteresisBadWindows = 1
    SttReadyThreshold = 65000
    MinSnrDb = 12
    MaxClippingRatio = 20
    MaxSilenceRatio = 600
    Windows <- MCWindows
    MaxHistory = 6
INVARIANTS
    TypeOK
    ReadyIffHistorySaysSo
    CountersAreTheLastRun
    BetterAudioNeverScoresLower
