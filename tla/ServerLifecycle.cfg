SPECIFICATION FairSpec
PROPERTIES
    SignalEndsTheProcess
CHECK_DEADLOCK FALSE
