SPECIFICATION Spec
CONSTANTS
    HysteresisOkWindows = 2
    HysteresisBadWindows = 1
    SttReadyThreshold = 65000
    MinSnrDb = 12
    MaxClippingRatio = 20
    MaxSilenceRatio = 600
    FrameMs = 20
    WindowMs = 60
    SpeechEnergyThreshold <- MCSpeechEnergyThreshold
    SampleRate = 100
    Messages <- MCMessages
    HandshakeStamps = {0, 1000}
    MaxMessages = 5
INVARIANTS
    ReportForEveryWindow
CHECK_DEADLOCK FALSE
